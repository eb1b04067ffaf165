---------------------------- MODULE IsrChan_proofs ----------------------------
(***************************************************************************)
(* Proofs about the depth-1 channel of the C runtime, for every set of     *)
(* tokens, every number of posts and calls, and every platform: with and   *)
(* without the critical section, a sleeping yield_() or foreground posts.  *)
(***************************************************************************)
EXTENDS IsrChan, FiniteSetTheorems, SequenceTheorems, TLAPS

\* Between PSSC_CHAN_ENTER and PSSC_CHAN_EXIT the handler is masked exactly if
\* the platform defines them, and it is masked nowhere else.
Masking == /\ masked => pc \in {"test", "copy", "flag", "exit"}
           /\ pc \in {"test", "copy", "flag", "exit"} => masked = crit

\* What the foreground knows of the slot after its test.  A take has found it
\* full, and no handler can empty it; a post has found it empty, which only
\* the critical section keeps true.
Tested == pc \in {"copy", "flag"} =>
            /\ IsGet => full
            /\ IsGet /\ crit => covered
            /\ ~IsGet /\ crit => ~full

\* What the copy left: a take holds the slot's value, a post has written its
\* own unless a handler has overwritten it since.
Copied == pc = "flag" => /\ IsGet => out = v
                         /\ ~IsGet => v \in Token
                         /\ ~IsGet /\ crit => v = arg

\* A full slot and a posting foreground hold a token; only a model that posts
\* from the foreground has such a call.
TokensPresent == /\ full => v \in Token
                 /\ ~IsGet => fgPosts /\ arg \in Token

\* Every accepted post is taken exactly once and in order.
AcceptedOnce == Guarded => sent = rcvd \o Held

\* The account that keeps NeverInvents: the slot holds one more value taken at
\* the next take, and a post that has written the slot counts one sent when it
\* sets the flag.
One(b) == IF b THEN 1 ELSE 0
Writing == pc = "flag" /\ ~IsGet
Conserved == \A x \in Token :
               Count(rcvd, x) + One((full \/ Writing) /\ v = x)
                  <= Count(sent, x) + One(Writing /\ arg = x)

\* TypeOK in two halves: the flags, and what is not Boolean.
Flags == /\ {crit, wfi, fgPosts, full, ok, masked, owed, covered} \subseteq BOOLEAN
Values == /\ wait \in {"reject", "poll", "yield"}
          /\ v \in Token \cup {NoToken} /\ arg \in Token \cup {NoToken} /\ out \in Token \cup {NoToken}
          /\ op \in GetOp \cup PutOp /\ pc \in PC
          /\ posts \in 0 .. MaxPost /\ calls \in 0 .. MaxCall
          /\ sent \in Seq(Token) /\ rcvd \in Seq(Token)
Knows == Masking /\ Tested /\ Copied /\ TokensPresent

StageInv == Flags /\ Values /\ Knows
IInv == StageInv /\ AcceptedOnce /\ CoalescingKeepsToken /\ NeverInvents /\ Conserved

-----------------------------------------------------------------------------
\* How many times a token occurs in a sequence is a number, and appending an
\* element adds one to its own count and to no other.
LEMMA CountAppend ==
  ASSUME NEW S, NEW s \in Seq(S), NEW e \in S, NEW x
  PROVE  /\ Count(s, x) \in Nat
         /\ Count(Append(s, e), x) = Count(s, x) + One(e = x)
<1> DEFINE A == {i \in DOMAIN s : s[i] = x}
           B == {i \in DOMAIN Append(s, e) : Append(s, e)[i] = x}
           n == Len(s) + 1
<1>1. IsFiniteSet(A) /\ n \notin A
  <2>1. DOMAIN s = 1 .. Len(s) /\ Len(s) \in Nat
    OBVIOUS
  <2>2. IsFiniteSet(1 .. Len(s))
    BY <2>1, FS_Interval
  <2>3. A \in SUBSET (1 .. Len(s))
    BY <2>1
  <2>4. IsFiniteSet(A)
    BY <2>2, <2>3, FS_Subset
  <2>5. QED
    BY <2>1, <2>4
<1>2. Cardinality(A) \in Nat
  BY <1>1, FS_CardinalityType
<1>3. CASE e = x
  <2>1. B = A \cup {n}
    BY <1>3
  <2>2. Cardinality(B) = Cardinality(A) + 1
    <3> HIDE DEF A, B, n
    <3>1. QED
      BY <1>1, <2>1, FS_AddElement
  <2>3. QED
    BY <1>2, <1>3, <2>2 DEF Count, One
<1>4. CASE e # x
  <2>1. B = A
    BY <1>4
  <2>2. Cardinality(B) = Cardinality(A) + 0
    <3> HIDE DEF A, B
    <3>1. QED
      BY <1>2, <2>1
  <2>3. QED
    BY <1>2, <1>4, <2>2 DEF Count, One
<1>5. QED
  BY <1>3, <1>4

\* Nothing has been posted or taken initially.
LEMMA InitInv == Init => IInv
<1> SUFFICES ASSUME Init PROVE IInv
  OBVIOUS
<1>1. StageInv
  <2>1. Flags
    BY Zenon DEF Init, Flags
  <2>2. Values
    BY BoundAssumption, EmptySeq DEF Init, Values, GetOp, PutOp, PC
  <2>3. Knows
    BY DEF Init, Knows, Masking, Tested, Copied, TokensPresent, IsGet, GetOp
  <2>4. QED
    BY <2>1, <2>2, <2>3 DEF StageInv
<1>2. AcceptedOnce
  BY DEF Init, AcceptedOnce, Held
<1>3. CoalescingKeepsToken
  BY DEF Init, CoalescingKeepsToken
<1>4. \A x : Count(<<>>, x) = 0
  <2>1. \A x : {i \in DOMAIN <<>> : <<>>[i] = x} = {}
    OBVIOUS
  <2>2. QED
    BY <2>1, FS_EmptySet DEF Count
<1>5. Conserved
  BY <1>4 DEF Init, Conserved, Writing, One
<1>6. NeverInvents
  BY <1>4 DEF Init, NeverInvents
<1>7. QED
  BY <1>1, <1>2, <1>3, <1>5, <1>6 DEF IInv

-----------------------------------------------------------------------------
\* Every step keeps the types and what the foreground knows at each access of
\* the channel, on every platform.
LEMMA StagePreserved == StageInv /\ [Next]_vars => StageInv'
<1> SUFFICES ASSUME StageInv, [Next]_vars PROVE StageInv'
  OBVIOUS
<1> USE BoundAssumption, NoTokenAssumption
    DEF StageInv, platform
<1>1. ASSUME NEW o \in GetCalls, CallGet(o) PROVE StageInv'
  <2>0. o \in GetOp
    BY DEF GetCalls, GetOp
  <2>1. Flags'
    BY <1>1, Zenon DEF Flags, CallGet
  <2>2. Values'
    BY <1>1, <2>0 DEF Values, GetOp, PutOp, PC, IsGet, CallGet
  <2>3. Knows'
    BY <1>1, <2>0 DEF Knows, Masking, Tested, Copied, TokensPresent, Values, GetOp, PutOp, IsGet, CallGet
  <2>4. QED
    BY <2>1, <2>2, <2>3 DEF StageInv
<1>2. ASSUME NEW o \in PutCalls, NEW x \in Token, CallPut(o, x) PROVE StageInv'
  <2>0. o \in PutOp
    BY DEF PutCalls, PutOp
  <2>1. Flags'
    BY <1>2, Zenon DEF Flags, CallPut
  <2>2. Values'
    BY <1>2, <2>0 DEF Values, GetOp, PutOp, PC, IsGet, CallPut
  <2>3. Knows'
    BY <1>2, <2>0 DEF Knows, Masking, Tested, Copied, TokensPresent, Values, GetOp, PutOp, IsGet, CallPut
  <2>4. QED
    BY <2>1, <2>2, <2>3 DEF StageInv
<1>3. CASE Enter
  <2>1. Flags'
    BY <1>3, Zenon DEF Flags, Enter
  <2>2. Values'
    BY <1>3 DEF Values, GetOp, PutOp, PC, IsGet, Enter
  <2>3. Knows'
    BY <1>3 DEF Knows, Masking, Tested, Copied, TokensPresent, Values, GetOp, PutOp, IsGet, Enter
  <2>4. QED
    BY <2>1, <2>2, <2>3 DEF StageInv
<1>4. CASE Test
  <2>1. Flags'
    BY <1>4, Zenon DEF Flags, Test
  <2>2. Values'
    BY <1>4 DEF Values, GetOp, PutOp, PC, IsGet, Test
  <2>3. Knows'
    BY <1>4 DEF Knows, Masking, Tested, Copied, TokensPresent, Values, GetOp, PutOp, IsGet, Test
  <2>4. QED
    BY <2>1, <2>2, <2>3 DEF StageInv
<1>5. CASE Copy
  <2>1. Flags'
    BY <1>5, Zenon DEF Flags, Copy
  <2>2. Values'
    BY <1>5 DEF Values, GetOp, PutOp, PC, IsGet, Copy
  <2>3. Knows'
    BY <1>5 DEF Knows, Masking, Tested, Copied, TokensPresent, Values, GetOp, PutOp, IsGet, Copy
  <2>4. QED
    BY <2>1, <2>2, <2>3 DEF StageInv
<1>6. CASE Flag
  <2>1. Flags'
    BY <1>6, Zenon DEF Flags, Flag
  <2>2. Values'
    <3>1. IsGet => out \in Token
      BY <1>6 DEF Knows, Copied, Tested, TokensPresent, Flag
    <3>2. ~IsGet => arg \in Token
      BY DEF Knows, TokensPresent
    <3>3. sent' \in Seq(Token) /\ rcvd' \in Seq(Token)
      <4>1. CASE IsGet
        BY <1>6, <3>1, <4>1 DEF Values, Flag
      <4>2. CASE ~IsGet
        BY <1>6, <3>2, <4>2 DEF Values, Flag
      <4>3. QED
        BY <4>1, <4>2
    <3>4. QED
      BY <1>6, <3>3 DEF Values, PC, Flag
  <2>3. Knows'
    BY <1>6 DEF Knows, Masking, Tested, Copied, TokensPresent, Values, GetOp, PutOp, IsGet, Flag
  <2>4. QED
    BY <2>1, <2>2, <2>3 DEF StageInv
<1>7. CASE Exit
  <2>1. Flags'
    BY <1>7, Zenon DEF Flags, Exit
  <2>2. Values'
    BY <1>7 DEF Values, GetOp, PutOp, PC, IsGet, Exit
  <2>3. Knows'
    BY <1>7 DEF Knows, Masking, Tested, Copied, TokensPresent, Values, GetOp, PutOp, IsGet, Exit
  <2>4. QED
    BY <2>1, <2>2, <2>3 DEF StageInv
<1>8. CASE Yield
  <2>1. Flags'
    BY <1>8, Zenon DEF Flags, Yield
  <2>2. Values'
    BY <1>8 DEF Values, GetOp, PutOp, PC, IsGet, Yield
  <2>3. Knows'
    BY <1>8 DEF Knows, Masking, Tested, Copied, TokensPresent, Values, GetOp, PutOp, IsGet, Yield
  <2>4. QED
    BY <2>1, <2>2, <2>3 DEF StageInv
<1>9. ASSUME NEW x \in Token, Isr(x) PROVE StageInv'
  <2>1. Flags'
    BY <1>9, Zenon DEF Flags, Isr
  <2>2. Values'
    BY <1>9 DEF Values, GetOp, PutOp, PC, IsGet, Isr
  <2>3. Knows'
    BY <1>9 DEF Knows, Masking, Tested, Copied, TokensPresent, Values, GetOp, PutOp, IsGet, Isr
  <2>4. QED
    BY <2>1, <2>2, <2>3 DEF StageInv
<1>10. CASE UNCHANGED vars
  <2>1. Flags'
    BY <1>10, Zenon DEF Flags, vars, local
  <2>2. Values'
    BY <1>10 DEF Values, GetOp, PutOp, PC, IsGet, vars, local
  <2>3. Knows'
    BY <1>10 DEF Knows, Masking, Tested, Copied, TokensPresent, Values, GetOp, PutOp, IsGet, vars, local
  <2>4. QED
    BY <2>1, <2>2, <2>3 DEF StageInv
<1>11. QED
  BY <1>1, <1>2, <1>3, <1>4, <1>5, <1>6, <1>7, <1>8, <1>9, <1>10 DEF Next

-----------------------------------------------------------------------------
\* The critical section, or posts from the handler alone, keep the values
\* taken and the value held, in order, equal to the values accepted.
LEMMA OncePreserved == StageInv /\ AcceptedOnce /\ [Next]_vars => AcceptedOnce'
<1> SUFFICES ASSUME StageInv, AcceptedOnce, [Next]_vars,
                    Guarded'
             PROVE  (sent = rcvd \o Held)'
  BY DEF AcceptedOnce
<1> USE DEF StageInv, Guarded
<1>1. /\ crit' = crit /\ fgPosts' = fgPosts
      /\ sent = rcvd \o Held /\ sent \in Seq(Token) /\ rcvd \in Seq(Token)
  <2>1. platform' = platform
    BY DEF Next, vars, CallGet, CallPut, Enter, Test, Copy, Flag, Exit, Yield, Isr
  <2>2. QED
    BY <2>1 DEF platform, AcceptedOnce, Values
<1>2. \A x \in Token : rcvd \o <<x>> = Append(rcvd, x)
  BY <1>1
<1>3. rcvd \o <<>> = rcvd
  BY <1>1, ConcatEmptySeq
<1>4. ASSUME UNCHANGED <<v, full, sent, rcvd>> PROVE (sent = rcvd \o Held)'
  BY <1>1, <1>4 DEF Held
<1>5. CASE Copy
  <2>1. UNCHANGED <<full, sent, rcvd>> /\ (full => v' = v)
    BY <1>1, <1>5 DEF Copy, Knows, Tested, TokensPresent
  <2>2. QED
    BY <1>1, <2>1 DEF Held
<1>6. CASE Flag
  <2>1. CASE IsGet
    <3>1. full /\ out = v /\ v \in Token
      BY <1>6, <2>1 DEF Flag, Knows, Tested, Copied, TokensPresent
    <3>2. rcvd' = Append(rcvd, v) /\ ~full' /\ sent' = sent
      BY <1>6, <2>1, <3>1 DEF Flag
    <3>3. rcvd' \in Seq(Token) /\ sent = rcvd'
      BY <1>1, <1>2, <3>1, <3>2 DEF Held
    <3>4. QED
      BY <3>2, <3>3, ConcatEmptySeq DEF Held
  <2>2. CASE ~IsGet
    <3>1. ~full /\ v = arg /\ arg \in Token
      BY <1>1, <1>6, <2>2 DEF Flag, Knows, Tested, Copied, TokensPresent
    <3>2. rcvd' = rcvd /\ full' /\ sent' = Append(sent, v) /\ v' = v
      BY <1>6, <2>2, <3>1 DEF Flag
    <3>3. QED
      BY <1>1, <1>2, <1>3, <3>1, <3>2 DEF Held
  <2>3. QED
    BY <2>1, <2>2
<1>7. ASSUME NEW x \in Token, Isr(x) PROVE (sent = rcvd \o Held)'
  <2>1. CASE full
    BY <1>4, <1>7, <2>1 DEF Isr
  <2>2. CASE ~full
    BY <1>1, <1>2, <1>3, <1>7, <2>2 DEF Isr, Held
  <2>3. QED
    BY <2>1, <2>2
<1>8. QED
  BY <1>4, <1>5, <1>6, <1>7 DEF Next, vars, CallGet, CallPut, Enter, Test, Exit, Yield

\* Under the critical section no take that has passed its test can race with
\* a handler's post, so no notification is owed on an empty channel.
LEMMA CoalescingPreserved ==
  StageInv /\ CoalescingKeepsToken /\ [Next]_vars => CoalescingKeepsToken'
<1> SUFFICES ASSUME StageInv, CoalescingKeepsToken, [Next]_vars
             PROVE  CoalescingKeepsToken'
  OBVIOUS
<1> USE DEF StageInv, CoalescingKeepsToken, platform
<1>1. CASE Flag
  BY <1>1 DEF Flag, Knows, Tested
<1>2. ASSUME NEW x \in Token, Isr(x) PROVE CoalescingKeepsToken'
  BY <1>2 DEF Isr
<1>3. QED
  BY <1>1, <1>2 DEF Next, vars, CallGet, CallPut, Enter, Test, Copy, Exit, Yield

-----------------------------------------------------------------------------
\* Every step keeps the account of each value, on every platform: two posts
\* that race for the empty slot lose a value and never make one.
LEMMA ConservedPreserved == StageInv /\ Conserved /\ [Next]_vars => Conserved'
<1> SUFFICES ASSUME StageInv, Conserved, [Next]_vars, NEW x \in Token
             PROVE  (Count(rcvd, x) + One((full \/ Writing) /\ v = x)
                       <= Count(sent, x) + One(Writing /\ arg = x))'
  BY DEF Conserved
<1> DEFINE Account == Count(rcvd, x) + One((full \/ Writing) /\ v = x)
                        <= Count(sent, x) + One(Writing /\ arg = x)
<1> USE DEF StageInv
<1>1. /\ Account
      /\ sent \in Seq(Token) /\ rcvd \in Seq(Token)
      /\ Count(sent, x) \in Nat /\ Count(rcvd, x) \in Nat
      /\ \A e \in Token : /\ Count(Append(sent, e), x) = Count(sent, x) + One(e = x)
                          /\ Count(Append(rcvd, e), x) = Count(rcvd, x) + One(e = x)
  <2>1. sent \in Seq(Token) /\ rcvd \in Seq(Token)
    BY DEF Values
  <2>2. QED
    BY <2>1, CountAppend DEF Conserved
<1>2. ASSUME UNCHANGED <<v, full, sent, rcvd>>, ~Writing, ~Writing' PROVE Account'
  BY <1>1, <1>2
<1>3. CASE Copy
  BY <1>1, <1>3 DEF Copy, Writing, One, IsGet
<1>4. CASE Flag
  <2>1. CASE IsGet
    <3>1. full /\ out = v /\ v \in Token
      BY <1>4, <2>1 DEF Flag, Knows, Tested, Copied, TokensPresent
    <3>2. rcvd' = Append(rcvd, v) /\ ~full' /\ sent' = sent /\ ~Writing /\ ~Writing'
      BY <1>4, <2>1, <3>1 DEF Flag, Writing
    <3>3. QED
      BY <1>1, <3>1, <3>2 DEF One
  <2>2. CASE ~IsGet
    <3>1. arg \in Token /\ Writing
      BY <1>4, <2>2 DEF Flag, Knows, TokensPresent, Writing
    <3>2. rcvd' = rcvd /\ full' /\ sent' = Append(sent, arg) /\ v' = v /\ ~Writing'
      BY <1>4, <2>2 DEF Flag, Writing
    <3>3. QED
      BY <1>1, <3>1, <3>2 DEF One
  <2>3. QED
    BY <2>1, <2>2
<1>5. ASSUME NEW y \in Token, Isr(y) PROVE Account'
  <2>1. rcvd' = rcvd /\ arg' = arg /\ Writing' = Writing
    BY <1>5 DEF Isr, Writing, IsGet
  <2>2. CASE full
    BY <1>1, <1>5, <2>1, <2>2 DEF Isr
  <2>3. CASE ~full
    <3>1. /\ One(y = x) \in Nat /\ One(Writing /\ arg = x) \in Nat
          /\ Count(rcvd, x) <= Count(sent, x) + One(Writing /\ arg = x)
      BY <1>1 DEF One
    <3>2. /\ v' = y /\ full' /\ sent' = Append(sent, y)
          /\ One((full \/ Writing) /\ v = x)' = One(y = x)
      BY <1>5, <2>3 DEF Isr, One
    <3>3. One(Writing /\ arg = x)' = One(Writing /\ arg = x)
      BY <2>1
    <3>4. QED
      BY <1>1, <2>1, <3>1, <3>2, <3>3
  <2>4. QED
    BY <2>2, <2>3
<1>6. CASE UNCHANGED vars
  BY <1>1, <1>6 DEF vars, local, Writing, IsGet
<1>7. QED
  BY <1>2, <1>3, <1>4, <1>5, <1>6 DEF Next, CallGet, CallPut, Enter, Test, Exit, Yield, Writing

\* A take delivers the value the slot held, which the account counts; no other
\* step changes what was taken.
LEMMA NeverInventsPreserved ==
  StageInv /\ NeverInvents /\ Conserved /\ [Next]_vars => NeverInvents'
<1> SUFFICES ASSUME StageInv, NeverInvents, Conserved, [Next]_vars, NEW x \in Token
             PROVE  (Count(rcvd, x) <= Count(sent, x))'
  BY DEF NeverInvents
<1> USE DEF StageInv
<1>1. /\ Count(rcvd, x) <= Count(sent, x)
      /\ Count(sent, x) \in Nat /\ Count(rcvd, x) \in Nat
      /\ \A e \in Token : /\ Count(Append(sent, e), x) = Count(sent, x) + One(e = x)
                          /\ Count(Append(rcvd, e), x) = Count(rcvd, x) + One(e = x)
  BY CountAppend DEF Values, NeverInvents
<1>2. ASSUME UNCHANGED rcvd,
             sent' = sent \/ (\E e \in Token : sent' = Append(sent, e))
      PROVE  (Count(rcvd, x) <= Count(sent, x))'
  <2>1. CASE sent' = sent
    BY <1>1, <1>2, <2>1
  <2>2. ASSUME NEW e \in Token, sent' = Append(sent, e)
        PROVE  (Count(rcvd, x) <= Count(sent, x))'
    <3>1. One(e = x) \in Nat
      BY DEF One
    <3>2. QED
      BY <1>1, <1>2, <2>2, <3>1
  <2>3. QED
    BY <1>2, <2>1, <2>2
<1>3. CASE Flag /\ IsGet
  <2>1. full /\ out = v /\ v \in Token /\ ~Writing
    BY <1>3 DEF Flag, Knows, Tested, Copied, TokensPresent, Writing
  <2>2. rcvd' = Append(rcvd, v) /\ sent' = sent
    BY <1>3, <2>1 DEF Flag
  <2>3. Count(rcvd, x) + One(v = x) <= Count(sent, x)
    BY <1>1, <2>1 DEF Conserved, One
  <2>4. QED
    BY <1>1, <2>1, <2>2, <2>3
<1>4. CASE Flag /\ ~IsGet
  BY <1>2, <1>4 DEF Flag, Knows, TokensPresent
<1>5. ASSUME NEW y \in Token, Isr(y) PROVE (Count(rcvd, x) <= Count(sent, x))'
  BY <1>2, <1>5 DEF Isr
<1>6. QED
  BY <1>2, <1>3, <1>4, <1>5 DEF Next, vars, CallGet, CallPut, Enter, Test, Copy, Exit, Yield

-----------------------------------------------------------------------------
\* Init and every step keep the invariant.
LEMMA Inductive == Spec => []IInv
<1>1. IInv /\ [Next]_vars => IInv'
  BY StagePreserved, OncePreserved, CoalescingPreserved, NeverInventsPreserved,
     ConservedPreserved DEF IInv
<1>2. QED
  BY <1>1, InitInv, PTL DEF Spec

\* The values have their types: a take never delivers what the slot held
\* before any post, on any platform.
THEOREM TypeCorrect == Spec => []TypeOK
<1>1. IInv => TypeOK
  BY Zenon DEF IInv, StageInv, Flags, Values, TypeOK
<1>2. QED
  BY <1>1, Inductive, PTL

\* Every accepted post is taken exactly once and in order.
THEOREM PostsAcceptedOnce == Spec => []AcceptedOnce
<1>1. IInv => AcceptedOnce
  BY DEF IInv
<1>2. QED
  BY <1>1, Inductive, PTL

\* In a guarded build a post that finds the channel empty, the handler's or the
\* foreground's at its flag, accepts a value of the abstract channel.
LEMMA PostAccepts ==
  ASSUME Guarded, Guarded', NEW x \in Token,
         ~full, full', v' = x, sent' = Append(sent, x), rcvd' = rcvd
  PROVE  Chan!Next
<1>1. If(Held) = <<>> /\ If(Held)' = <<x>> /\ Append(<<>>, x) = <<x>> /\ Len(<<>>) = 0
  BY DEF If, Held
<1>2. If(sent)' = Append(If(sent), x) /\ If(rcvd)' = If(rcvd)
  BY DEF If
<1>3. Chan!Accept(x)
  BY <1>1, <1>2 DEF Chan!Accept
<1>4. QED
  BY <1>3 DEF Chan!Next

\* In a guarded build a take of the held value delivers it in the abstract
\* channel.
LEMMA TakeDelivers ==
  ASSUME Guarded, Guarded', full, ~full', v \in Token, sent' = sent, rcvd' = Append(rcvd, v)
  PROVE  Chan!Next
<1>1. /\ If(Held) = <<v>> /\ If(Held)' = <<>>
      /\ <<v>> # <<>> /\ Head(<<v>>) = v /\ Tail(<<v>>) = <<>>
  BY DEF If, Held
<1>2. If(rcvd)' = Append(If(rcvd), v) /\ If(sent)' = If(sent)
  BY DEF If
<1>3. Chan!Deliver
  BY <1>1, <1>2 DEF Chan!Deliver
<1>4. QED
  BY <1>3 DEF Chan!Next

\* The guarded builds implement the abstract channel: the foreground's flag is
\* the step at which its call takes effect.
THEOREM Refinement == Spec => ImplementsChannel
<1>1. Init => Chan!Init
  BY DEF Init, Chan!Init, Held, If
<1>2. StageInv /\ [Next]_vars => [Chan!Next]_Chan!vars
  <2> SUFFICES ASSUME StageInv, [Next]_vars PROVE [Chan!Next]_Chan!vars
    OBVIOUS
  <2> USE DEF StageInv
  <2>1. crit' = crit /\ fgPosts' = fgPosts /\ (Guarded' <=> Guarded) /\ rcvd \in Seq(Token)
    <3>1. platform' = platform
      BY DEF Next, vars, CallGet, CallPut, Enter, Test, Copy, Flag, Exit, Yield, Isr
    <3>2. QED
      BY <3>1 DEF platform, Guarded, Values
  <2>2. CASE ~Guarded
    BY <2>1, <2>2 DEF If, Chan!vars
  <2>3. ASSUME UNCHANGED <<v, full, sent, rcvd>> PROVE UNCHANGED Chan!vars
    BY <2>1, <2>3 DEF If, Held, Chan!vars
  <2>4. CASE Copy
    <3>1. UNCHANGED <<full, sent, rcvd>> /\ (full /\ Guarded => v' = v)
      BY <2>4 DEF Copy, Knows, Tested, TokensPresent, Guarded
    <3>2. QED
      BY <2>1, <3>1 DEF If, Held, Chan!vars
  <2>5. CASE Flag /\ Guarded
    <3>1. CASE IsGet
      <4>1. full /\ out = v /\ v \in Token
        BY <2>5, <3>1 DEF Flag, Knows, Tested, Copied, TokensPresent
      <4>2. rcvd' = Append(rcvd, v) /\ ~full' /\ sent' = sent
        BY <2>5, <3>1, <4>1 DEF Flag
      <4>3. QED
        BY <2>1, <2>5, <4>1, <4>2, TakeDelivers
    <3>2. CASE ~IsGet
      <4>1. ~full /\ v = arg /\ arg \in Token
        BY <2>5, <3>2 DEF Flag, Knows, Tested, Copied, TokensPresent, Guarded
      <4>2. rcvd' = rcvd /\ full' /\ sent' = Append(sent, v) /\ v' = v
        BY <2>5, <3>2, <4>1 DEF Flag
      <4>3. QED
        BY <2>1, <2>5, <4>1, <4>2, PostAccepts
    <3>3. QED
      BY <3>1, <3>2
  <2>6. ASSUME NEW x \in Token, Isr(x), Guarded PROVE [Chan!Next]_Chan!vars
    <3>1. CASE full
      BY <2>3, <2>6, <3>1 DEF Isr
    <3>2. CASE ~full
      BY <2>1, <2>6, <3>2, PostAccepts DEF Isr
    <3>3. QED
      BY <3>1, <3>2
  <2>7. QED
    BY <2>2, <2>3, <2>4, <2>5, <2>6 DEF Next, vars, CallGet, CallPut, Enter, Test, Exit, Yield
<1>3. Spec => []StageInv
  <2>1. IInv => StageInv
    BY DEF IInv
  <2>2. QED
    BY <2>1, Inductive, PTL
<1>4. QED
  BY <1>1, <1>2, <1>3, PTL DEF Spec, ImplementsChannel, Chan!Spec

\* No notification is lost to coalescing, given the critical section.
THEOREM NotificationsKept == Spec => []CoalescingKeepsToken
<1>1. IInv => CoalescingKeepsToken
  BY DEF IInv
<1>2. QED
  BY <1>1, Inductive, PTL

\* No platform makes the channel invent a completion: a value is taken at most
\* as often as it was posted.
THEOREM NothingInvented == Spec => []NeverInvents
<1>1. IInv => NeverInvents
  BY DEF IInv
<1>2. QED
  BY <1>1, Inductive, PTL
=============================================================================
