----------------------------- MODULE Bridge_proofs -----------------------------
(***************************************************************************)
(* Proofs about the DPI bridge: for every number of branches and of        *)
(* imports each calls, and every simulator.                                *)
(***************************************************************************)
EXTENDS Bridge, FiniteSetTheorems, TLAPS

N == Calls * Cardinality(Branch)

\* The mailbox is first in, first out: the requests taken from it are the
\* first ones posted, in order, and for each a thread was forked.
Taken == Len(owner) - Len(pending)
Fifo == /\ Len(pending) <= Len(owner)
        /\ \A n \in DOMAIN pending : pending[n] = Taken + n
        /\ active \subseteq 1 .. Taken
        /\ \A c \in Req : kid[c].st # "none" <=> c <= Taken

\* The requests can be told apart by their leaf and a number above the calls
\* that leaf has left; so there are never more than N.
Numbers(rank) == /\ rank \in [DOMAIN owner -> 1 .. Calls]
                 /\ \A r \in DOMAIN owner : rank[r] > left[owner[r]]
                 /\ \A r, s \in DOMAIN owner : owner[r] = owner[s] /\ rank[r] = rank[s] => r = s
Numbered == \E rank : Numbers(rank)

\* The coroutines that are suspended and the requests in the mailbox
\* correspond one to one.
Mailbox == active \cup (Taken + 1 .. Len(owner))
Asking == /\ \A r \in Mailbox : co[owner[r]] = "blocked"
          /\ \A r, s \in Mailbox : owner[r] = owner[s] => r = s
          /\ \A b \in Branch : co[b] = "blocked" => \E r \in Mailbox : owner[r] = b

\* The join block counts the leaves that have returned; the forking coroutine
\* is ready before the fork and when the last has.
Returned == {b \in Branch : co[b] = "returned"}
Joining == /\ joined = Cardinality(Returned)
           /\ \A b \in Branch : co[b] = "unborn" <=> root = "ready" /\ joined = 0
           /\ root = "blocked" => joined < Cardinality(Branch)
           /\ root = "ready" /\ joined # 0 => joined = Cardinality(Branch)
           /\ root = "returned" => joined = Cardinality(Branch)

\* The trampoline counts the threads that are alive.
Live == {c \in Req : kid[c].st \in {"new", "running"}}
Counted == outstanding = Cardinality(Live)

\* Started at once, the thread of a request has the request's number.
Eager == start = "eager" =>
           /\ \A c \in Req : c <= Taken => kid[c].rid = c /\ kid[c].st \in {"running", "ended"}
           /\ active = {c \in Req : c <= Taken /\ kid[c].st = "running"}
           /\ \A c \in Req : dispatched[c] = IF c <= Taken THEN 1 ELSE 0

Mail == TypeOK /\ Fifo /\ Numbered
IInv == Mail /\ Asking /\ Joining /\ Counted /\ Eager /\ ExitIsClean

-----------------------------------------------------------------------------
\* The numbers of requests and branches.
LEMMA Sizes ==
  /\ Calls \in Nat /\ Cardinality(Branch) \in Nat \ {0} /\ N \in Nat
  /\ Req = 1 .. N /\ IsFiniteSet(Req)
<1>1. Cardinality(Branch) \in Nat /\ Cardinality(Branch) # 0
  BY BranchAssumption, FS_CardinalityType, FS_EmptySet
<1>2. Calls \in Nat
  BY CallsAssumption
<1>3. N \in Nat
  BY <1>1, <1>2 DEF N
<1>4. Req = 1 .. N
  BY DEF Req, N
<1>5. IsFiniteSet(Req)
  <2>1. 1 \in Int /\ N \in Int
    BY <1>3
  <2>2. QED
    BY <1>4, <2>1, FS_Interval
<1>6. QED
  BY <1>1, <1>2, <1>3, <1>4, <1>5

\* Requests that can be numbered are at most N.
LEMMA Bounded ==
  ASSUME NEW own \in Seq(Branch), NEW rank \in [DOMAIN own -> 1 .. Calls],
         \A r, s \in DOMAIN own : own[r] = own[s] /\ rank[r] = rank[s] => r = s
  PROVE  Len(own) <= N
<1> DEFINE D == 1 .. Len(own)
           P == Branch \X (1 .. Calls)
           g == [r \in D |-> <<own[r], rank[r]>>]
<1>1. Len(own) \in Nat /\ DOMAIN own = D /\ \A r \in D : own[r] \in Branch
  OBVIOUS
<1>2. IsFiniteSet(1 .. Calls) /\ Cardinality(1 .. Calls) = Calls
  <2>1. 1 \in Int /\ Calls \in Int
    BY Sizes
  <2>2. IsFiniteSet(1 .. Calls) /\ Cardinality(1 .. Calls) = IF 1 > Calls THEN 0 ELSE Calls - 1 + 1
    BY <2>1, FS_Interval
  <2>3. QED
    BY <2>2, Sizes
<1>3. IsFiniteSet(P) /\ Cardinality(P) = N
  <2> HIDE DEF D, g
  <2> DEFINE C == 1 .. Calls
  <2>1. P = Branch \X C /\ IsFiniteSet(C) /\ Cardinality(C) = Calls /\ IsFiniteSet(Branch)
    BY <1>2, BranchAssumption
  <2> HIDE DEF P, C
  <2>2. IsFiniteSet(Branch \X C) /\ Cardinality(Branch \X C) = Cardinality(Branch) * Cardinality(C)
    BY <2>1, FS_Product
  <2>3. Cardinality(Branch) * Calls = Calls * Cardinality(Branch)
    BY Sizes
  <2>4. QED
    BY <2>1, <2>2, <2>3 DEF N
<1>4. g \in Injection(D, P)
  <2>1. g \in [D -> P]
    BY <1>1
  <2>2. \A r, s \in D : g[r] = g[s] => r = s
    BY <1>1
  <2>3. DOMAIN g = D
    OBVIOUS
  <2> HIDE DEF D, P, g
  <2>4. QED
    BY <2>1, <2>2, <2>3 DEF Injection, IsInjective
<1>5. Cardinality(D) <= Cardinality(P)
  <2> HIDE DEF D, P, g
  <2>1. QED
    BY <1>3, <1>4, FS_Injection
<1>6. Cardinality(D) = Len(own)
  <2>1. 1 \in Int /\ Len(own) \in Int
    BY <1>1
  <2>2. Cardinality(D) = IF 1 > Len(own) THEN 0 ELSE Len(own) - 1 + 1
    BY <2>1, FS_Interval
  <2>3. QED
    BY <1>1, <2>2
<1>7. QED
  BY <1>3, <1>5, <1>6

\* The mailbox as a set of requests.
LEMMA MailboxIs ==
  ASSUME TypeOK, Fifo
  PROVE  /\ Taken \in Nat /\ Len(owner) \in Nat /\ Len(pending) \in Nat /\ Len(owner) = Taken + Len(pending)
         /\ DOMAIN owner = 1 .. Len(owner) /\ DOMAIN pending = 1 .. Len(pending)
         /\ Len(owner) <= N
         /\ \A r \in DOMAIN owner : owner[r] \in Branch
         /\ Mailbox \subseteq DOMAIN owner
         /\ \A r : InMailbox(r) <=> r \in Mailbox
         /\ pending # <<>> => /\ Head(pending) = Taken + 1 /\ Taken + 1 \in Req
                              /\ Len(Tail(pending)) = Len(pending) - 1
                              /\ \A n \in 1 .. Len(pending) - 1 : Tail(pending)[n] = Taken + n + 1
         /\ NewKid = Taken + 1
<1>1. /\ owner \in Seq(Branch) /\ pending \in Seq(Req) /\ Len(owner) <= N
  BY DEF TypeOK, N
<1>2. /\ Taken \in Nat /\ Len(owner) \in Nat /\ Len(pending) \in Nat /\ Len(owner) = Taken + Len(pending)
      /\ DOMAIN owner = 1 .. Len(owner) /\ DOMAIN pending = 1 .. Len(pending)
      /\ \A r \in DOMAIN owner : owner[r] \in Branch
  BY <1>1 DEF Fifo, Taken
<1>3. Mailbox \subseteq DOMAIN owner
  <2>1. active \subseteq 1 .. Taken
    BY DEF Fifo
  <2>2. \A r \in 1 .. Taken : r \in 1 .. Len(owner)
    BY <1>2
  <2>3. \A r \in Taken + 1 .. Len(owner) : r \in 1 .. Len(owner)
    BY <1>2
  <2>4. QED
    BY <1>2, <2>1, <2>2, <2>3 DEF Mailbox
<1>4. \A r : InMailbox(r) <=> r \in Mailbox
  <2> SUFFICES ASSUME NEW r PROVE (\E n \in DOMAIN pending : pending[n] = r) <=> r \in Taken + 1 .. Len(owner)
    BY DEF InMailbox, Mailbox
  <2>1. ASSUME NEW n \in DOMAIN pending, pending[n] = r PROVE r \in Taken + 1 .. Len(owner)
    BY <1>2, <2>1 DEF Fifo
  <2>2. ASSUME r \in Taken + 1 .. Len(owner) PROVE \E n \in DOMAIN pending : pending[n] = r
    <3>1. r - Taken \in DOMAIN pending /\ pending[r - Taken] = Taken + (r - Taken)
      BY <1>2, <2>2 DEF Fifo
    <3>2. QED
      BY <1>2, <2>2, <3>1
  <2>3. QED
    BY <2>1, <2>2
<1>5. ASSUME pending # <<>>
      PROVE  /\ Head(pending) = Taken + 1 /\ Taken + 1 \in Req
             /\ Len(Tail(pending)) = Len(pending) - 1
             /\ \A n \in 1 .. Len(pending) - 1 : Tail(pending)[n] = Taken + n + 1
  <2>1. 1 \in DOMAIN pending /\ Head(pending) = pending[1] /\ Len(Tail(pending)) = Len(pending) - 1
    BY <1>1, <1>2, <1>5
  <2>2. Head(pending) = Taken + 1 /\ Taken + 1 \in Req
    BY <1>1, <1>2, <2>1, Sizes DEF Fifo
  <2>3. \A n \in 1 .. Len(pending) - 1 : Tail(pending)[n] = pending[n + 1] /\ n + 1 \in DOMAIN pending
    BY <1>1, <1>2, <1>5
  <2>4. \A n \in 1 .. Len(pending) - 1 : Tail(pending)[n] = Taken + n + 1
    BY <1>2, <2>3 DEF Fifo
  <2>5. QED
    BY <2>1, <2>2, <2>4
<1>6. NewKid = Taken + 1
  <2>1. Forked = 1 .. Taken
    BY <1>1, <1>2, Sizes DEF Fifo, Forked
  <2>2. 1 \in Int /\ Taken \in Int
    BY <1>2
  <2>3. Cardinality(1 .. Taken) = IF 1 > Taken THEN 0 ELSE Taken - 1 + 1
    BY <2>2, FS_Interval
  <2>4. QED
    BY <1>2, <2>1, <2>3 DEF NewKid
<1>7. QED
  BY <1>1, <1>2, <1>3, <1>4, <1>5, <1>6

\* What a step may keep: the requests, the mailbox and the forked threads.
Unmoved == UNCHANGED <<owner, pending>>

\* Without a post or a drain, what was taken is what was taken before.
LEMMA UnmovedIs ==
  ASSUME Unmoved
  PROVE  Taken' = Taken /\ (active' = active => Mailbox' = Mailbox)
         /\ \A r : active' = active \ {r} /\ r \in active /\ active \subseteq 1 .. Taken /\ Taken \in Nat
                   => Mailbox' = Mailbox \ {r}
<1>1. owner' = owner /\ pending' = pending
  BY DEF Unmoved
<1>2. Taken' = Taken
  BY <1>1 DEF Taken
<1>3. active' = active => Mailbox' = Mailbox
  BY <1>1, <1>2 DEF Mailbox
<1>4. ASSUME NEW r, active' = active \ {r}, r \in active, active \subseteq 1 .. Taken, Taken \in Nat
      PROVE  Mailbox' = Mailbox \ {r}
  <2>1. r \notin Taken + 1 .. Len(owner)
    BY <1>4
  <2>2. QED
    BY <1>1, <1>2, <1>4, <2>1 DEF Mailbox
<1>5. QED
  BY <1>2, <1>3, <1>4

\* A post puts one request at the end of the queue.
LEMMA PostEffect ==
  ASSUME TypeOK, Fifo, NEW b \in Branch, Post(b)
  PROVE  /\ owner' \in Seq(Branch) /\ Len(owner') = Len(owner) + 1
         /\ DOMAIN owner' = DOMAIN owner \cup {Len(owner) + 1}
         /\ Len(owner) + 1 \notin DOMAIN owner
         /\ \A r \in DOMAIN owner : owner'[r] = owner[r]
         /\ owner'[Len(owner) + 1] = b
         /\ Len(pending') = Len(pending) + 1 /\ Taken' = Taken
         /\ DOMAIN pending' = 1 .. Len(pending) + 1
         /\ \A n \in 1 .. Len(pending) + 1 : pending'[n] = Taken + n
         /\ Mailbox' = Mailbox \cup {Len(owner) + 1}
         /\ Len(owner) + 1 \notin Mailbox
<1>1. /\ owner \in Seq(Branch) /\ pending \in Seq(Req)
  BY DEF TypeOK
<1>2. owner' = Append(owner, b) /\ pending' = Append(pending, Len(owner')) /\ active' = active
  BY DEF Post
<1>3. /\ owner' \in Seq(Branch) /\ Len(owner') = Len(owner) + 1 /\ Len(owner) \in Nat
      /\ DOMAIN owner' = 1 .. Len(owner) + 1 /\ DOMAIN owner = 1 .. Len(owner)
      /\ \A r \in DOMAIN owner : owner'[r] = owner[r]
      /\ owner'[Len(owner) + 1] = b
  BY <1>1, <1>2
<1>4. /\ DOMAIN owner' = DOMAIN owner \cup {Len(owner) + 1}
      /\ Len(owner) + 1 \notin DOMAIN owner
  BY <1>3
<1>5. /\ Len(pending') = Len(pending) + 1 /\ Len(pending) \in Nat
      /\ DOMAIN pending' = 1 .. Len(pending) + 1
      /\ \A n \in 1 .. Len(pending) : pending'[n] = pending[n]
      /\ pending'[Len(pending) + 1] = Len(owner) + 1
  <2> DEFINE r == Len(owner')
  <2>1. pending' = Append(pending, r) /\ r = Len(owner) + 1
    BY <1>2, <1>3
  <2> HIDE DEF r
  <2>2. QED
    BY <1>1, <2>1
<1>6. Taken' = Taken
  BY <1>3, <1>5 DEF Taken
<1>7. Taken \in Nat /\ Len(owner) = Taken + Len(pending)
  BY MailboxIs
<1>8. \A n \in 1 .. Len(pending) + 1 : pending'[n] = Taken + n
  <2> TAKE n \in 1 .. Len(pending) + 1
  <2>1. CASE n = Len(pending) + 1
    BY <1>5, <1>7, <2>1
  <2>2. CASE n # Len(pending) + 1
    <3>1. n \in 1 .. Len(pending) /\ n \in DOMAIN pending
      BY <1>1, <1>5, <2>2
    <3>2. QED
      BY <1>5, <3>1 DEF Fifo
  <2>3. QED
    BY <2>1, <2>2
<1>9. Mailbox' = Mailbox \cup {Len(owner) + 1}
  <2>1. Mailbox' = active \cup (Taken + 1 .. Len(owner) + 1)
    BY <1>2, <1>3, <1>6 DEF Mailbox
  <2>2. Taken + 1 .. Len(owner) + 1 = (Taken + 1 .. Len(owner)) \cup {Len(owner) + 1}
    BY <1>3, <1>5, <1>7
  <2>3. QED
    BY <2>1, <2>2 DEF Mailbox
<1>10. Len(owner) + 1 \notin Mailbox
  BY <1>4, MailboxIs
<1>11. QED
  BY <1>3, <1>4, <1>5, <1>6, <1>8, <1>9, <1>10

\* A drain takes the first request and forks the thread of the same number.
Lazily == /\ start = "lazy" /\ kid' = [kid EXCEPT ![Taken + 1] = [st |-> "new", rid |-> NoReq]]
          /\ outstanding' = outstanding + 1 /\ co' = co /\ dispatched' = dispatched
          /\ active' = active \cup {Taken + 1} /\ Mailbox' = Mailbox
Held == /\ start = "eager" /\ kid' = [kid EXCEPT ![Taken + 1] = [st |-> "running", rid |-> Taken + 1]]
        /\ outstanding' = outstanding + 1 /\ co' = co
        /\ dispatched' = [dispatched EXCEPT ![Taken + 1] = @ + 1]
        /\ active' = active \cup {Taken + 1} /\ Mailbox' = Mailbox
AtOnce == /\ start = "eager" /\ kid' = [kid EXCEPT ![Taken + 1] = [st |-> "ended", rid |-> Taken + 1]]
          /\ outstanding' = outstanding
          /\ co' = [co EXCEPT ![owner[Taken + 1]] = "ready"]
          /\ dispatched' = [dispatched EXCEPT ![Taken + 1] = @ + 1]
          /\ active' = active /\ Mailbox' = Mailbox \ {Taken + 1}

\* The effect of a drain in terms of the number of the request it takes.
LEMMA DrainEffect ==
  ASSUME TypeOK, Fifo, Drain
  PROVE  /\ Taken' = Taken + 1 /\ Taken + 1 \in Req /\ rid' = Taken + 1
         /\ pending' \in Seq(Req) /\ Len(pending') = Len(pending) - 1 /\ Len(pending) > 0
         /\ DOMAIN pending' = 1 .. Len(pending) - 1
         /\ \A n \in 1 .. Len(pending) - 1 : pending'[n] = Taken + n + 1
         /\ Taken + 1 \in Mailbox /\ Taken + 1 \notin active /\ kid[Taken + 1].st = "none"
         /\ Lazily \/ Held \/ AtOnce
<1>1. /\ pending # <<>> /\ pending' = Tail(pending) /\ owner' = owner /\ rid' = Head(pending)
      /\ pending \in Seq(Req)
  BY DEF Drain, TypeOK
<1>2. /\ Taken \in Nat /\ Len(owner) \in Nat /\ Len(pending) \in Nat /\ Len(owner) = Taken + Len(pending)
      /\ Head(pending) = Taken + 1 /\ Taken + 1 \in Req
      /\ Len(Tail(pending)) = Len(pending) - 1
      /\ \A n \in 1 .. Len(pending) - 1 : Tail(pending)[n] = Taken + n + 1
      /\ NewKid = Taken + 1
  BY <1>1, MailboxIs
<1>3. /\ pending' \in Seq(Req) /\ Len(pending') = Len(pending) - 1 /\ Len(pending) > 0
      /\ DOMAIN pending' = 1 .. Len(pending) - 1
      /\ \A n \in 1 .. Len(pending) - 1 : pending'[n] = Taken + n + 1
  BY <1>1, <1>2
<1>4. Taken' = Taken + 1
  BY <1>1, <1>2, <1>3 DEF Taken
<1>5. active \subseteq 1 .. Taken /\ (\A c \in Req : kid[c].st # "none" <=> c <= Taken)
  BY DEF Fifo
<1>6. Taken + 1 \notin active /\ kid[Taken + 1].st = "none"
  BY <1>2, <1>5
<1>7. Taken + 1 .. Len(owner) = {Taken + 1} \cup (Taken + 2 .. Len(owner)) /\ Taken + 1 \notin Taken + 2 .. Len(owner)
  BY <1>2, <1>3
<1>8. Taken + 1 \in Mailbox
  BY <1>7 DEF Mailbox
<1>9. Mailbox' = active' \cup (Taken + 2 .. Len(owner))
  <2>1. Taken' + 1 = Taken + 2
    BY <1>2, <1>4
  <2>2. QED
    BY <1>1, <2>1 DEF Mailbox
<1>10. active' = active \cup {Taken + 1} => Mailbox' = Mailbox
  BY <1>7, <1>9 DEF Mailbox
<1>11. active' = active => Mailbox' = Mailbox \ {Taken + 1}
  BY <1>6, <1>7, <1>9 DEF Mailbox
<1>12. Taken + 1 # NoReq
  BY <1>2 DEF NoReq
<1>13. Lazily \/ Held \/ AtOnce
  <2>1. CASE /\ start = "lazy"
             /\ active' = active \cup {Head(pending)}
             /\ kid' = [kid EXCEPT ![NewKid] = [st |-> "new", rid |-> NoReq]]
             /\ CountKid
             /\ UNCHANGED <<co, dispatched>>
    BY <1>2, <1>10, <2>1 DEF Lazily, CountKid
  <2>2. CASE /\ start = "eager" /\ Takes(Head(pending))
             /\ active' = active \cup {Head(pending)}
             /\ kid' = [kid EXCEPT ![NewKid] = [st |-> "running", rid |-> Head(pending)]]
             /\ CountKid
             /\ Dispatch(Head(pending))
             /\ UNCHANGED co
    BY <1>2, <1>10, <1>12, <2>2 DEF Held, CountKid, Dispatch
  <2>3. CASE /\ start = "eager" /\ ~Takes(Head(pending))
             /\ kid' = [kid EXCEPT ![NewKid] = [st |-> "ended", rid |-> Head(pending)]]
             /\ Dispatch(Head(pending))
             /\ Complete(active \cup {Head(pending)}, Head(pending))
             /\ UNCHANGED outstanding
    <3>1. active' = active
      BY <1>2, <1>6, <2>3 DEF Complete
    <3>2. co' = [co EXCEPT ![owner[Taken + 1]] = "ready"]
      BY <1>2, <2>3 DEF Complete
    <3>3. QED
      BY <1>2, <1>11, <1>12, <2>3, <3>1, <3>2 DEF AtOnce, Dispatch
  <2>4. QED
    BY <2>1, <2>2, <2>3 DEF Drain
<1>14. QED
  BY <1>1, <1>2, <1>3, <1>4, <1>6, <1>8, <1>13

\* A thread that ends answers its request if that is still active.
LEMMA EndEffect ==
  ASSUME TypeOK, Fifo, NEW c \in Req, End(c)
  PROVE  /\ Unmoved /\ Taken' = Taken /\ kid[c].st = "running"
         /\ kid' = [kid EXCEPT ![c].st = "ended"] /\ outstanding' = outstanding - 1
         /\ \/ /\ kid[c].rid \in active /\ kid[c].rid \in Mailbox /\ owner[kid[c].rid] \in Branch
               /\ active' = active \ {kid[c].rid} /\ Mailbox' = Mailbox \ {kid[c].rid}
               /\ co' = [co EXCEPT ![owner[kid[c].rid]] = "ready"]
            \/ kid[c].rid \notin active /\ active' = active /\ Mailbox' = Mailbox /\ co' = co
<1> DEFINE r == kid[c].rid
<1>1. /\ Unmoved /\ kid[c].st = "running" /\ outstanding' = outstanding - 1
      /\ kid' = [kid EXCEPT ![c].st = "ended"] /\ Complete(active, r)
  BY DEF End, Unmoved
<1> HIDE DEF r
<1>2. active' = active \ {r} /\ co' = IF r \in active THEN [co EXCEPT ![owner[r]] = "ready"] ELSE co
  BY <1>1 DEF Complete
<1>3. Taken' = Taken
  BY <1>1, UnmovedIs
<1>4. CASE r \in active
  <2>1. r \in Mailbox /\ owner[r] \in Branch
    BY <1>4, MailboxIs DEF Mailbox
  <2>2. Mailbox' = Mailbox \ {r}
    BY <1>1, <1>2, <1>4, UnmovedIs, MailboxIs DEF Fifo
  <2>3. QED
    BY <1>1, <1>2, <1>3, <1>4, <2>1, <2>2 DEF r
<1>5. CASE r \notin active
  <2>1. active' = active
    BY <1>2, <1>5
  <2>2. QED
    BY <1>1, <1>2, <1>3, <1>5, <2>1, UnmovedIs DEF r
<1>6. QED
  BY <1>4, <1>5

-----------------------------------------------------------------------------
\* Types: the request numbers stay within N because requests can be numbered,
\* and the counter above 0 because it counts the threads.
LEMMA PostTyped ==
  ASSUME TypeOK, Fifo, Numbered, NEW b \in Branch, Post(b)
  PROVE  TypeOK' /\ Numbered'
<1> DEFINE l == left[b]
           new == Len(owner) + 1
<1>1. /\ owner' \in Seq(Branch) /\ Len(owner') = new
      /\ DOMAIN owner' = DOMAIN owner \cup {new} /\ new \notin DOMAIN owner
      /\ \A r \in DOMAIN owner : owner'[r] = owner[r]
      /\ owner'[new] = b
  BY PostEffect
<1>2. /\ left' = [left EXCEPT ![b] = l - 1] /\ l > 0 /\ left \in [Branch -> 0 .. Calls] /\ Calls \in Nat
  BY Sizes DEF Post, TypeOK
<1>3. /\ left' \in [Branch -> 0 .. Calls] /\ left'[b] = l - 1 /\ l \in 1 .. Calls
      /\ \A d \in Branch : d # b => left'[d] = left[d]
  BY <1>2
<1> HIDE DEF l, new
<1>4. PICK rank : Numbers(rank)
  BY DEF Numbered
<1> DEFINE next == [r \in DOMAIN owner' |-> IF r = new THEN l ELSE rank[r]]
<1>5. next \in [DOMAIN owner' -> 1 .. Calls]
  BY <1>1, <1>3, <1>4 DEF Numbers
<1>6. /\ next[new] = l /\ \A r \in DOMAIN owner : next[r] = rank[r] /\ rank[r] \in 1 .. Calls
      /\ \A r \in DOMAIN owner : owner[r] \in Branch
  BY <1>1, <1>4, MailboxIs DEF Numbers
<1> HIDE DEF next
<1>7. \A r \in DOMAIN owner : owner[r] = b => rank[r] > l
  BY <1>4 DEF Numbers, l
<1>8. \A r \in DOMAIN owner' : next[r] > left'[owner'[r]]
  <2> TAKE r \in DOMAIN owner'
  <2>1. CASE r = new
    BY <1>1, <1>3, <1>6, <2>1
  <2>2. CASE r \in DOMAIN owner /\ owner[r] = b
    BY <1>1, <1>3, <1>6, <1>7, <2>2
  <2>3. CASE r \in DOMAIN owner /\ owner[r] # b
    BY <1>1, <1>3, <1>4, <1>6, <2>3 DEF Numbers
  <2>4. QED
    BY <1>1, <2>1, <2>2, <2>3
<1>9. \A r, s \in DOMAIN owner' : owner'[r] = owner'[s] /\ next[r] = next[s] => r = s
  <2> SUFFICES ASSUME NEW r \in DOMAIN owner', NEW s \in DOMAIN owner',
                      owner'[r] = owner'[s], next[r] = next[s]
               PROVE  r = s
    OBVIOUS
  <2>1. CASE r \in DOMAIN owner /\ s \in DOMAIN owner
    BY <1>1, <1>4, <1>6, <2>1 DEF Numbers
  <2>2. CASE r = new /\ s \in DOMAIN owner
    BY <1>1, <1>3, <1>6, <1>7, <2>2
  <2>3. CASE s = new /\ r \in DOMAIN owner
    BY <1>1, <1>3, <1>6, <1>7, <2>3
  <2>4. QED
    BY <1>1, <2>1, <2>2, <2>3
<1>10. Numbered'
  <2>1. \E k : /\ k \in [DOMAIN owner' -> 1 .. Calls]
               /\ \A r \in DOMAIN owner' : k[r] > left'[owner'[r]]
               /\ \A r, s \in DOMAIN owner' : owner'[r] = owner'[s] /\ k[r] = k[s] => r = s
    BY <1>5, <1>8, <1>9
  <2>2. QED
    BY <2>1 DEF Numbered, Numbers
<1>11. Len(owner') <= N
  BY <1>1, <1>5, <1>9, Bounded
<1>12. co' = [co EXCEPT ![b] = "blocked"]
  BY DEF Post
<1>13. co' \in [Branch -> {"unborn", "ready", "blocked", "returned"}]
  BY <1>12 DEF TypeOK
<1>14. pending' \in Seq(Req)
  <2>1. new \in Req /\ pending' = Append(pending, new)
    BY <1>1, <1>11, Sizes, MailboxIs DEF Post, new
  <2>2. QED
    BY <2>1 DEF TypeOK
<1>15. QED
  BY <1>1, <1>3, <1>10, <1>11, <1>13, <1>14 DEF TypeOK, Post, N, sim

\* The leaves that have returned are finitely many branches.
LEMMA ReturnedIs ==
  /\ IsFiniteSet(Returned) /\ Cardinality(Returned) \in 0 .. Cardinality(Branch)
  /\ Cardinality(Returned) = Cardinality(Branch) <=> \A b \in Branch : co[b] = "returned"
  /\ Cardinality(Returned) = 0 <=> \A b \in Branch : co[b] # "returned"
<1>1. Returned \in SUBSET Branch /\ IsFiniteSet(Branch) /\ Cardinality(Branch) \in Nat
  BY BranchAssumption, Sizes DEF Returned
<1>2. /\ IsFiniteSet(Returned) /\ Cardinality(Returned) <= Cardinality(Branch)
      /\ Cardinality(Returned) = Cardinality(Branch) => Returned = Branch
  BY <1>1, FS_Subset
<1>3. Cardinality(Returned) \in Nat /\ (Cardinality(Returned) = 0 <=> Returned = {})
  BY <1>2, FS_CardinalityType, FS_EmptySet
<1>4. Returned = Branch <=> \A b \in Branch : co[b] = "returned"
  BY DEF Returned
<1>5. Returned = {} <=> \A b \in Branch : co[b] # "returned"
  BY DEF Returned
<1>6. QED
  BY <1>1, <1>2, <1>3, <1>4, <1>5

\* A leaf that returns is one more that has, while the parent is suspended.
LEMMA ReturnEffect ==
  ASSUME TypeOK, Joining, NEW b \in Branch, Return(b)
  PROVE  /\ joined \in Nat /\ joined' = joined + 1 /\ joined' = Cardinality(Returned') /\ root = "blocked"
         /\ joined' \in 1 .. Cardinality(Branch)
         /\ co' = [co EXCEPT ![b] = "returned"] /\ co[b] = "ready"
<1>1. /\ co' = [co EXCEPT ![b] = "returned"] /\ co[b] = "ready" /\ joined' = joined + 1
      /\ co \in [Branch -> {"unborn", "ready", "blocked", "returned"}]
      /\ root \in {"ready", "blocked", "returned"}
  BY DEF Return, TypeOK
<1>2. IsFiniteSet(Returned) /\ b \notin Returned /\ Returned' = Returned \cup {b}
  BY <1>1, ReturnedIs DEF Returned
<1>3. Cardinality(Returned') = Cardinality(Returned) + 1
  BY <1>2, FS_AddElement
<1>4. /\ joined = Cardinality(Returned) /\ joined \in 0 .. Cardinality(Branch) /\ joined # Cardinality(Branch)
      /\ Cardinality(Branch) \in Nat
  BY <1>1, ReturnedIs, Sizes DEF Joining
<1>5. root = "blocked"
  BY <1>1, <1>4 DEF Joining
<1>6. QED
  BY <1>1, <1>3, <1>4, <1>5

\* The threads that are alive are finitely many; one that ends was counted,
\* one that is forked is new.
LEMMA LiveIs ==
  ASSUME TypeOK, Counted
  PROVE  /\ IsFiniteSet(Live) /\ outstanding = Cardinality(Live) /\ outstanding \in Nat
         /\ outstanding = 0 => Live = {}
         /\ \A c \in Live : outstanding > 0 /\ Cardinality(Live \ {c}) = outstanding - 1
         /\ \A c \in Req \ Live : Cardinality(Live \cup {c}) = outstanding + 1
<1>1. Live \in SUBSET Req /\ IsFiniteSet(Req) /\ outstanding = Cardinality(Live)
  BY Sizes DEF Live, Counted
<1>2. IsFiniteSet(Live)
  BY <1>1, FS_Subset
<1>3. Cardinality(Live) \in Nat /\ (Cardinality(Live) = 0 <=> Live = {})
  BY <1>2, FS_CardinalityType, FS_EmptySet
<1>4. \A c : Cardinality(Live \ {c}) = IF c \in Live THEN Cardinality(Live) - 1 ELSE Cardinality(Live)
  BY <1>2, FS_RemoveElement
<1>5. \A c : Cardinality(Live \cup {c}) = IF c \in Live THEN Cardinality(Live) ELSE Cardinality(Live) + 1
  BY <1>2, FS_AddElement
<1>6. QED
  BY <1>1, <1>2, <1>3, <1>4, <1>5

\* The counter follows the threads through every step.
LEMMA CountedKept ==
  ASSUME TypeOK, Fifo, Counted, [Next]_vars
  PROVE  Counted' /\ outstanding' \in Nat
<1>0. \A c \in Req : kid[c].st \in {"none", "new", "running", "ended"} /\ kid[c] \in [st : {"none", "new", "running", "ended"}, rid : Req \cup {NoReq}]
  BY DEF TypeOK
<1>1. CASE kid' = kid /\ outstanding' = outstanding
  <2>1. Live' = Live
    BY <1>1 DEF Live
  <2>2. QED
    BY <1>1, <2>1, LiveIs DEF Counted
<1>2. CASE Drain
  <2> DEFINE r == Taken + 1
  <2>1. r \in Req /\ kid[r].st = "none" /\ (Lazily \/ Held \/ AtOnce)
    BY <1>2, DrainEffect
  <2> HIDE DEF r
  <2>2. CASE AtOnce
    <3>1. kid' = [kid EXCEPT ![r] = [st |-> "ended", rid |-> r]] /\ outstanding' = outstanding
      BY <2>2 DEF AtOnce, r
    <3>2. \A c \in Req : kid'[c].st = IF c = r THEN "ended" ELSE kid[c].st
      BY <2>1, <3>1 DEF TypeOK
    <3>3. Live' = Live
      BY <2>1, <3>2 DEF Live
    <3>4. QED
      BY <3>1, <3>3, LiveIs DEF Counted
  <2>3. CASE Lazily \/ Held
    <3>1. outstanding' = outstanding + 1 /\ \E k \in {[st |-> "new", rid |-> NoReq], [st |-> "running", rid |-> r]} :
                                              kid' = [kid EXCEPT ![r] = k]
      BY <2>3 DEF Lazily, Held, r
    <3>2. PICK t \in {"new", "running"} : \A c \in Req : kid'[c].st = IF c = r THEN t ELSE kid[c].st
      BY <2>1, <3>1 DEF TypeOK
    <3>3. r \in Req \ Live /\ Live' = Live \cup {r}
      BY <2>1, <3>2 DEF Live
    <3>4. QED
      BY <3>1, <3>3, LiveIs DEF Counted
  <2>4. QED
    BY <2>1, <2>2, <2>3
<1>3. CASE \E c \in Req : Start(c)
  <2>1. PICK d \in Req : Start(d)
    BY <1>3
  <2>2. kid' = [kid EXCEPT ![d] = [st |-> "running", rid |-> rid]] /\ kid[d].st = "new" /\ outstanding' = outstanding
    BY <2>1 DEF Start
  <2>3. \A c \in Req : kid'[c].st = IF c = d THEN "running" ELSE kid[c].st
    BY <2>2 DEF TypeOK
  <2>4. Live' = Live
    BY <2>2, <2>3 DEF Live
  <2>5. QED
    BY <2>2, <2>4, LiveIs DEF Counted
<1>4. CASE \E c \in Req : End(c)
  <2>1. PICK d \in Req : End(d)
    BY <1>4
  <2>2. kid' = [kid EXCEPT ![d].st = "ended"] /\ kid[d].st = "running" /\ outstanding' = outstanding - 1
    BY <2>1 DEF End
  <2>3. \A c \in Req : kid'[c].st = IF c = d THEN "ended" ELSE kid[c].st
    BY <1>0, <2>2 DEF TypeOK
  <2>4. d \in Live /\ Live' = Live \ {d}
    BY <2>2, <2>3 DEF Live
  <2>5. QED
    BY <2>2, <2>4, LiveIs DEF Counted
<1>5. CASE Root \/ Quiescent \/ Drained \/ Check \/ Wake \/ UNCHANGED vars \/ (\E b \in Branch : Post(b) \/ Return(b))
  BY <1>1, <1>5 DEF Root, Quiescent, Drained, Check, Wake, Post, Return, vars
<1>6. QED
  BY <1>2, <1>3, <1>4, <1>5 DEF Next, Trampoline

\* Numbers kept by the steps that post nothing.
LEMMA NumbersKept ==
  ASSUME Numbered, owner' = owner, left' = left
  PROVE  Numbered'
BY DEF Numbered, Numbers

\* Every step keeps the types, and the requests numbered.
LEMMA TypedKept ==
  ASSUME Mail, Joining, Counted, [Next]_vars
  PROVE  TypeOK' /\ Numbered'
<1> DEFINE Kid == [st : {"none", "new", "running", "ended"}, rid : Req \cup {NoReq}]
           Co == {"unborn", "ready", "blocked", "returned"}
<1>1. TypeOK /\ Fifo /\ Numbered /\ outstanding' \in Nat
  BY CountedKept DEF Mail
<1>2. CASE UNCHANGED vars
  BY <1>1, <1>2, NumbersKept DEF vars, sim, coro, TypeOK
<1>3. CASE Root
  <2>1. co' \in [Branch -> Co] /\ root' \in {"ready", "blocked", "returned"}
    BY <1>1, <1>3 DEF Root, TypeOK
  <2>2. QED
    BY <1>1, <1>3, <2>1, NumbersKept DEF Root, TypeOK, sim
<1>4. CASE Quiescent \/ Check \/ Wake
  <2>1. pc' \in {"run", "drain", "wait", "exited"}
    BY <1>4 DEF Quiescent, Check, Wake
  <2>2. QED
    BY <1>1, <1>4, <2>1, NumbersKept DEF Quiescent, Check, Wake, TypeOK, sim, coro
<1>5. CASE Drained
  <2>1. rid' \in Req \cup {NoReq}
    BY <1>1, <1>5 DEF Drained, TypeOK
  <2>2. QED
    BY <1>1, <1>5, <2>1, NumbersKept DEF Drained, TypeOK, sim, coro
<1>6. CASE Drain
  <2> DEFINE r == Taken + 1
  <2>1. /\ r \in Req /\ r \in Mailbox /\ rid' = r /\ pending' \in Seq(Req) /\ (Lazily \/ Held \/ AtOnce)
    BY <1>1, <1>6, DrainEffect
  <2>2. owner[r] \in Branch
    BY <1>1, <2>1, MailboxIs
  <2>3. /\ UNCHANGED <<start, keeps, timed, left, root, joined, owner, pc>>
    BY <1>6 DEF Drain, sim
  <2>4. PICK k \in {[st |-> "new", rid |-> NoReq], [st |-> "running", rid |-> r], [st |-> "ended", rid |-> r]} :
          kid' = [kid EXCEPT ![r] = k]
    BY <2>1 DEF Lazily, Held, AtOnce
  <2>5. kid' \in [Req -> Kid]
    <3>1. k \in Kid
      BY <2>1
    <3> HIDE DEF r
    <3>2. QED
      BY <1>1, <2>1, <2>4, <3>1 DEF TypeOK
  <2>6. active' \subseteq Req
    BY <1>1, <2>1 DEF Lazily, Held, AtOnce, TypeOK
  <2>7. co' = co \/ co' = [co EXCEPT ![owner[r]] = "ready"]
    BY <2>1 DEF Lazily, Held, AtOnce
  <2>8. dispatched' = dispatched \/ dispatched' = [dispatched EXCEPT ![r] = @ + 1]
    BY <2>1 DEF Lazily, Held, AtOnce
  <2> HIDE DEF r
  <2>9. co' \in [Branch -> Co]
    BY <1>1, <2>2, <2>7 DEF TypeOK
  <2>10. dispatched' \in [Req -> Nat]
    BY <1>1, <2>1, <2>8 DEF TypeOK
  <2>11. QED
    BY <1>1, <2>1, <2>3, <2>5, <2>6, <2>9, <2>10, NumbersKept DEF TypeOK
<1>7. ASSUME NEW b \in Branch, Post(b) PROVE TypeOK' /\ Numbered'
  BY <1>1, <1>7, PostTyped
<1>8. ASSUME NEW b \in Branch, Return(b) PROVE TypeOK' /\ Numbered'
  <2>1. joined' \in 0 .. Cardinality(Branch) /\ co' = [co EXCEPT ![b] = "returned"]
    BY <1>1, <1>8, ReturnEffect, Sizes
  <2>2. co' \in [Branch -> Co]
    BY <1>1, <2>1 DEF TypeOK
  <2>3. root' \in {"ready", "blocked", "returned"}
    BY <1>1, <1>8 DEF Return, TypeOK
  <2>4. QED
    BY <1>1, <1>8, <2>1, <2>2, <2>3, NumbersKept DEF Return, TypeOK, sim
<1>9. ASSUME NEW c \in Req, Start(c) PROVE TypeOK' /\ Numbered'
  <2>1. kid' = [kid EXCEPT ![c] = [st |-> "running", rid |-> rid]] /\ rid \in Req \cup {NoReq}
    BY <1>1, <1>9 DEF Start, TypeOK
  <2>2. kid' \in [Req -> Kid]
    BY <1>1, <2>1 DEF TypeOK
  <2>3. dispatched' = dispatched \/ (rid \in Req /\ dispatched' = [dispatched EXCEPT ![rid] = @ + 1])
    BY <1>9, <2>1 DEF Start, Dispatch
  <2>4. dispatched' \in [Req -> Nat]
    <3>1. \A r \in Req : [dispatched EXCEPT ![r] = @ + 1] \in [Req -> Nat]
      BY <1>1 DEF TypeOK
    <3>2. QED
      BY <1>1, <2>3, <3>1 DEF TypeOK
  <2>5. QED
    BY <1>1, <1>9, <2>2, <2>4, NumbersKept DEF Start, TypeOK, sim, coro
<1>10. ASSUME NEW c \in Req, End(c) PROVE TypeOK' /\ Numbered'
  <2>1. /\ kid' = [kid EXCEPT ![c].st = "ended"]
        /\ active' \subseteq active
        /\ co' = co \/ (owner[kid[c].rid] \in Branch /\ co' = [co EXCEPT ![owner[kid[c].rid]] = "ready"])
    BY <1>1, <1>10, EndEffect
  <2>2. kid' \in [Req -> Kid]
    BY <1>1, <2>1 DEF TypeOK
  <2>3. co' \in [Branch -> Co]
    <3>1. \A b \in Branch : [co EXCEPT ![b] = "ready"] \in [Branch -> Co]
      BY <1>1 DEF TypeOK
    <3>2. QED
      BY <1>1, <2>1, <3>1 DEF TypeOK
  <2>4. /\ UNCHANGED <<start, keeps, timed, left, root, joined, owner, pending, rid, dispatched>> /\ pc' = "woken"
    BY <1>10 DEF End, sim
  <2>5. QED
    BY <1>1, <2>1, <2>2, <2>3, <2>4, NumbersKept DEF TypeOK
<1>11. QED
  BY <1>2, <1>3, <1>4, <1>5, <1>6, <1>7, <1>8, <1>9, <1>10 DEF Next, Trampoline

\* Every step keeps the mailbox first in, first out.
LEMMA FifoKept ==
  ASSUME TypeOK, Fifo, [Next]_vars
  PROVE  Fifo'
<1>0. /\ Taken \in Nat /\ Len(owner) \in Nat /\ Len(pending) \in Nat /\ Len(owner) = Taken + Len(pending)
      /\ DOMAIN pending = 1 .. Len(pending) /\ kid \in [Req -> [st : {"none", "new", "running", "ended"}, rid : Req \cup {NoReq}]]
  BY MailboxIs DEF TypeOK
<1>1. ASSUME Unmoved, active' \subseteq active, \A c \in Req : kid'[c].st # "none" <=> kid[c].st # "none"
      PROVE  Fifo'
  <2>1. owner' = owner /\ pending' = pending /\ Taken' = Taken
    BY <1>1, UnmovedIs DEF Unmoved
  <2>2. QED
    BY <1>1, <2>1 DEF Fifo
<1>2. CASE Drain
  <2> DEFINE r == Taken + 1
  <2>1. /\ Taken' = r /\ r \in Req /\ Len(pending') = Len(pending) - 1 /\ Len(pending) > 0
        /\ DOMAIN pending' = 1 .. Len(pending) - 1
        /\ \A n \in 1 .. Len(pending) - 1 : pending'[n] = Taken + n + 1
        /\ (Lazily \/ Held \/ AtOnce)
    BY <1>2, DrainEffect
  <2>2. owner' = owner /\ active \subseteq 1 .. Taken
    BY <1>2 DEF Drain, Fifo
  <2>3. Len(pending') <= Len(owner')
    BY <1>0, <2>1, <2>2
  <2>4. \A n \in DOMAIN pending' : pending'[n] = Taken' + n
    BY <1>0, <2>1
  <2>5. active' \subseteq 1 .. Taken'
    <3>1. active' \subseteq active \cup {r}
      BY <2>1 DEF Lazily, Held, AtOnce
    <3>2. \A n \in 1 .. Taken : n \in 1 .. r
      BY <1>0
    <3>3. r \in 1 .. r
      BY <1>0
    <3>4. QED
      BY <2>1, <2>2, <3>1, <3>2, <3>3
  <2>6. \A c \in Req : kid'[c].st # "none" <=> c <= Taken'
    <3>1. \E k \in {[st |-> "new", rid |-> NoReq], [st |-> "running", rid |-> r], [st |-> "ended", rid |-> r]} :
            kid' = [kid EXCEPT ![r] = k]
      BY <2>1 DEF Lazily, Held, AtOnce
    <3>2. PICK t \in {"new", "running", "ended"} : \A c \in Req : kid'[c].st = IF c = r THEN t ELSE kid[c].st
      <4> HIDE DEF r
      <4>1. QED
        BY <1>0, <2>1, <3>1
    <3>3. \A c \in Req : c \in Nat /\ (c <= r <=> c = r \/ c <= Taken)
      BY <1>0, Sizes
    <3>4. QED
      BY <2>1, <3>2, <3>3 DEF Fifo
  <2>7. QED
    BY <2>3, <2>4, <2>5, <2>6 DEF Fifo
<1>3. ASSUME NEW b \in Branch, Post(b) PROVE Fifo'
  <2>1. /\ Len(owner') = Len(owner) + 1 /\ Len(pending') = Len(pending) + 1 /\ Taken' = Taken
        /\ DOMAIN pending' = 1 .. Len(pending) + 1
        /\ \A n \in 1 .. Len(pending) + 1 : pending'[n] = Taken + n
    BY <1>3, PostEffect
  <2>2. active' = active /\ kid' = kid
    BY <1>3 DEF Post
  <2>3. Len(pending') <= Len(owner')
    BY <1>0, <2>1
  <2>4. QED
    BY <2>1, <2>2, <2>3 DEF Fifo
<1>4. ASSUME NEW c \in Req, Start(c) PROVE Fifo'
  <2>1. kid' = [kid EXCEPT ![c] = [st |-> "running", rid |-> rid]] /\ kid[c].st = "new" /\ active' = active /\ Unmoved
    BY <1>4 DEF Start, Unmoved
  <2>2. \A d \in Req : kid'[d].st = IF d = c THEN "running" ELSE kid[d].st
    BY <1>0, <2>1
  <2>3. QED
    BY <1>1, <2>1, <2>2
<1>5. ASSUME NEW c \in Req, End(c) PROVE Fifo'
  <2>1. kid' = [kid EXCEPT ![c].st = "ended"] /\ kid[c].st = "running" /\ active' \subseteq active /\ Unmoved
    BY <1>5, EndEffect
  <2>2. \A d \in Req : kid'[d].st = IF d = c THEN "ended" ELSE kid[d].st
    BY <1>0, <2>1
  <2>3. QED
    BY <1>1, <2>1, <2>2
<1>6. CASE Root \/ Quiescent \/ Drained \/ Check \/ Wake \/ UNCHANGED vars \/ (\E b \in Branch : Return(b))
  BY <1>1, <1>6 DEF Root, Quiescent, Drained, Check, Wake, Return, vars, Unmoved
<1>7. QED
  BY <1>2, <1>3, <1>4, <1>5, <1>6 DEF Next, Trampoline

-----------------------------------------------------------------------------
\* Answering a request takes it off the mailbox and makes its coroutine ready:
\* no other request is of that coroutine.
LEMMA AnswerKeepsAsking ==
  ASSUME TypeOK, Fifo, Asking, NEW r \in Mailbox, owner' = owner,
         Mailbox' = Mailbox \ {r}, co' = [co EXCEPT ![owner[r]] = "ready"]
  PROVE  Asking'
<1>1. \A s \in Mailbox : owner[s] \in Branch
  BY MailboxIs
<1>2. \A b \in Branch : co'[b] = IF b = owner[r] THEN "ready" ELSE co[b]
  BY <1>1 DEF TypeOK
<1>3. \A s \in Mailbox' : s \in Mailbox /\ s # r /\ owner[s] # owner[r] /\ owner'[s] = owner[s]
  BY DEF Asking
<1>4. \A s \in Mailbox' : co'[owner'[s]] = "blocked"
  BY <1>1, <1>2, <1>3 DEF Asking
<1>5. \A s, t \in Mailbox' : owner'[s] = owner'[t] => s = t
  BY <1>3 DEF Asking
<1>6. ASSUME NEW b \in Branch, co'[b] = "blocked" PROVE \E s \in Mailbox' : owner'[s] = b
  <2>1. co[b] = "blocked" /\ b # owner[r]
    BY <1>2, <1>6
  <2>2. PICK s \in Mailbox : owner[s] = b
    BY <2>1 DEF Asking
  <2>3. s \in Mailbox'
    BY <2>1, <2>2
  <2>4. QED
    BY <2>2, <2>3
<1>7. QED
  BY <1>4, <1>5, <1>6 DEF Asking

\* Every step keeps the correspondence of suspended leaves and requests.
LEMMA AskingKept ==
  ASSUME TypeOK, Fifo, Asking, Joining, [Next]_vars
  PROVE  Asking'
<1>0. \A r \in Mailbox : owner[r] \in Branch
  BY MailboxIs
<1>1. ASSUME owner' = owner, Mailbox' = Mailbox, \A b \in Branch : co'[b] = "blocked" <=> co[b] = "blocked"
      PROVE  Asking'
  BY <1>0, <1>1 DEF Asking
<1>2. CASE Drain
  <2>1. Taken + 1 \in Mailbox /\ (Lazily \/ Held \/ AtOnce) /\ owner' = owner
    BY <1>2, DrainEffect DEF Drain
  <2>2. CASE Lazily \/ Held
    BY <1>1, <2>1, <2>2 DEF Lazily, Held
  <2>3. CASE AtOnce
    BY <2>1, <2>3, AnswerKeepsAsking DEF AtOnce
  <2>4. QED
    BY <2>1, <2>2, <2>3
<1>3. ASSUME NEW c \in Req, End(c) PROVE Asking'
  <2> DEFINE r == kid[c].rid
  <2>1. /\ owner' = owner
        /\ \/ /\ r \in Mailbox /\ Mailbox' = Mailbox \ {r}
              /\ co' = [co EXCEPT ![owner[r]] = "ready"]
           \/ Mailbox' = Mailbox /\ co' = co
    BY <1>3, EndEffect DEF Unmoved
  <2> HIDE DEF r
  <2>2. QED
    BY <1>1, <2>1, AnswerKeepsAsking
<1>4. ASSUME NEW b \in Branch, Post(b) PROVE Asking'
  <2> DEFINE new == Len(owner) + 1
  <2>1. /\ \A r \in DOMAIN owner : owner'[r] = owner[r]
        /\ owner'[new] = b /\ Mailbox' = Mailbox \cup {new} /\ new \notin Mailbox
    BY <1>4, PostEffect
  <2>2. co[b] = "ready" /\ \A d \in Branch : co'[d] = IF d = b THEN "blocked" ELSE co[d]
    BY <1>4 DEF Post, TypeOK
  <2>3. \A r \in Mailbox : owner'[r] = owner[r] /\ owner[r] # b
    BY <2>1, <2>2, MailboxIs DEF Asking
  <2> HIDE DEF new
  <2>4. \A r \in Mailbox' : co'[owner'[r]] = "blocked"
    BY <1>0, <2>1, <2>2, <2>3 DEF Asking
  <2>5. \A r, s \in Mailbox' : owner'[r] = owner'[s] => r = s
    BY <2>1, <2>3 DEF Asking
  <2>6. ASSUME NEW d \in Branch, co'[d] = "blocked" PROVE \E r \in Mailbox' : owner'[r] = d
    BY <2>1, <2>2, <2>3, <2>6 DEF Asking
  <2>7. QED
    BY <2>4, <2>5, <2>6 DEF Asking
<1>5. CASE Root
  <2>1. Unmoved /\ active' = active /\ owner' = owner
    BY <1>5 DEF Root, Unmoved
  <2>2. Mailbox' = Mailbox
    BY <2>1, UnmovedIs
  <2>3. CASE joined = 0
    <3>1. \A b \in Branch : co[b] = "unborn" /\ co'[b] = "ready"
      BY <1>5, <2>3 DEF Root, Joining
    <3>2. QED
      BY <1>1, <2>1, <2>2, <3>1
  <2>4. CASE joined # 0
    BY <1>1, <1>5, <2>1, <2>2, <2>4 DEF Root
  <2>5. QED
    BY <2>3, <2>4
<1>6. ASSUME NEW b \in Branch, Return(b) PROVE Asking'
  <2>1. Unmoved /\ active' = active /\ owner' = owner /\ co' = [co EXCEPT ![b] = "returned"] /\ co[b] = "ready"
    BY <1>6 DEF Return, Unmoved
  <2>2. \A d \in Branch : co'[d] = IF d = b THEN "returned" ELSE co[d]
    BY <2>1 DEF TypeOK
  <2>3. QED
    BY <1>1, <2>1, <2>2, UnmovedIs
<1>7. CASE Quiescent \/ Drained \/ Check \/ Wake \/ UNCHANGED vars \/ (\E c \in Req : Start(c))
  <2>1. Unmoved /\ active' = active /\ co' = co /\ owner' = owner
    BY <1>7 DEF Quiescent, Drained, Check, Wake, Start, vars, coro, Unmoved
  <2>2. QED
    BY <1>1, <2>1, UnmovedIs
<1>8. QED
  BY <1>2, <1>3, <1>4, <1>5, <1>6, <1>7 DEF Next, Trampoline

\* Every step keeps the join block true to the leaves.
LEMMA JoiningKept ==
  ASSUME TypeOK, Fifo, Asking, Joining, [Next]_vars
  PROVE  Joining'
<1>0. \A r \in Mailbox : owner[r] \in Branch /\ co[owner[r]] = "blocked"
  BY MailboxIs DEF Asking
<1>1. ASSUME root' = root, joined' = joined,
             \A b \in Branch : /\ co'[b] = "returned" <=> co[b] = "returned"
                               /\ co'[b] = "unborn" <=> co[b] = "unborn"
      PROVE  Joining'
  <2>1. Returned' = Returned
    BY <1>1 DEF Returned
  <2>2. QED
    BY <1>1, <2>1 DEF Joining
<1>2. ASSUME NEW r \in Mailbox, co' = [co EXCEPT ![owner[r]] = "ready"], root' = root, joined' = joined
      PROVE  Joining'
  <2>1. \A b \in Branch : co'[b] = IF b = owner[r] THEN "ready" ELSE co[b]
    BY <1>2 DEF TypeOK
  <2>2. QED
    BY <1>0, <1>1, <1>2, <2>1
<1>3. CASE Drain
  <2>1. Taken + 1 \in Mailbox /\ (co' = co \/ co' = [co EXCEPT ![owner[Taken + 1]] = "ready"])
    BY <1>3, DrainEffect DEF Lazily, Held, AtOnce
  <2>2. root' = root /\ joined' = joined
    BY <1>3 DEF Drain
  <2>3. QED
    BY <1>1, <1>2, <2>1, <2>2
<1>4. ASSUME NEW c \in Req, End(c) PROVE Joining'
  <2>1. co' = co \/ (kid[c].rid \in Mailbox /\ co' = [co EXCEPT ![owner[kid[c].rid]] = "ready"])
    BY <1>4, EndEffect
  <2>2. root' = root /\ joined' = joined
    BY <1>4 DEF End
  <2>3. QED
    BY <1>1, <1>2, <2>1, <2>2
<1>5. ASSUME NEW b \in Branch, Post(b) PROVE Joining'
  <2>1. co[b] = "ready" /\ (\A d \in Branch : co'[d] = IF d = b THEN "blocked" ELSE co[d])
        /\ root' = root /\ joined' = joined
    BY <1>5 DEF Post, TypeOK
  <2>2. QED
    BY <1>1, <2>1
<1>6. CASE Root
  <2>1. CASE joined = 0
    <3>1. (\A b \in Branch : co[b] = "unborn" /\ co'[b] = "ready") /\ root' = "blocked" /\ joined' = 0
      BY <1>6, <2>1 DEF Root, Joining
    <3>2. Returned' = {} /\ Returned = {}
      BY <3>1 DEF Returned
    <3>3. joined' = Cardinality(Returned') /\ joined' < Cardinality(Branch)
      <4>1. Cardinality(Returned') = 0
        BY <3>2, FS_EmptySet
      <4>2. QED
        BY <3>1, <4>1, Sizes
    <3>4. QED
      BY <3>1, <3>3 DEF Joining
  <2>2. CASE joined # 0
    <3>1. root = "ready" /\ root' = "returned" /\ co' = co /\ joined' = joined
      BY <1>6, <2>2 DEF Root
    <3>2. joined' = Cardinality(Returned')
      BY <3>1 DEF Joining, Returned
    <3>3. QED
      BY <2>2, <3>1, <3>2 DEF Joining
  <2>3. QED
    BY <2>1, <2>2
<1>7. ASSUME NEW b \in Branch, Return(b) PROVE Joining'
  <2>1. /\ joined' = Cardinality(Returned') /\ root = "blocked" /\ joined' \in 1 .. Cardinality(Branch)
        /\ co' = [co EXCEPT ![b] = "returned"] /\ co[b] = "ready"
    BY <1>7, ReturnEffect
  <2>2. \A d \in Branch : co'[d] = IF d = b THEN "returned" ELSE co[d]
    BY <2>1 DEF TypeOK
  <2>3. \A d \in Branch : co'[d] # "unborn"
    BY <2>1, <2>2 DEF Joining
  <2>4. root' = IF joined' = Cardinality(Branch) THEN "ready" ELSE "blocked"
    BY <1>7, <2>1 DEF Return
  <2>5. joined' # 0 /\ (root' = "blocked" => joined' < Cardinality(Branch))
    BY <2>1, <2>4, Sizes
  <2>6. QED
    BY <2>1, <2>3, <2>4, <2>5 DEF Joining
<1>8. CASE Quiescent \/ Drained \/ Check \/ Wake \/ UNCHANGED vars \/ (\E c \in Req : Start(c))
  BY <1>1, <1>8 DEF Quiescent, Drained, Check, Wake, Start, vars, coro
<1>9. QED
  BY <1>3, <1>4, <1>5, <1>6, <1>7, <1>8 DEF Next, Trampoline

\* Started at once, threads and requests stay paired, and each request is
\* run when its thread is forked and never again.
LEMMA EagerKept ==
  ASSUME TypeOK, Fifo, Eager, [Next]_vars
  PROVE  Eager'
<1>0. SUFFICES ASSUME start' = "eager"
               PROVE  /\ \A c \in Req : c <= Taken' => kid'[c].rid = c /\ kid'[c].st \in {"running", "ended"}
                      /\ active' = {c \in Req : c <= Taken' /\ kid'[c].st = "running"}
                      /\ \A c \in Req : dispatched'[c] = IF c <= Taken' THEN 1 ELSE 0
  BY DEF Eager
<1>1. start = "eager"
  BY <1>0 DEF Next, Trampoline, Root, Quiescent, Drain, Drained, Check, Wake, Post, Return, Start, End, vars, sim
<1>2. /\ \A c \in Req : c <= Taken => kid[c].rid = c /\ kid[c].st \in {"running", "ended"}
      /\ active = {c \in Req : c <= Taken /\ kid[c].st = "running"}
      /\ \A c \in Req : dispatched[c] = IF c <= Taken THEN 1 ELSE 0
  BY <1>1 DEF Eager
<1>3. /\ kid \in [Req -> [st : {"none", "new", "running", "ended"}, rid : Req \cup {NoReq}]]
      /\ dispatched \in [Req -> Nat] /\ Taken \in Nat
      /\ \A c \in Req : kid[c].st # "none" <=> c <= Taken
  BY MailboxIs DEF TypeOK, Fifo
<1>4. CASE Drain
  <2> DEFINE r == Taken + 1
  <2>1. Taken' = r /\ r \in Req /\ r \notin active /\ (Held \/ AtOnce)
    BY <1>1, <1>4, DrainEffect DEF Lazily
  <2>2. \A c \in Req : c <= r <=> c = r \/ c <= Taken
    BY <1>3, Sizes
  <2>3. ~(r <= Taken)
    BY <1>3
  <2>4. dispatched' = [dispatched EXCEPT ![r] = @ + 1]
    BY <2>1 DEF Held, AtOnce
  <2>5. PICK t \in {"running", "ended"} : /\ kid' = [kid EXCEPT ![r] = [st |-> t, rid |-> r]]
                                          /\ active' = IF t = "running" THEN active \cup {r} ELSE active
    BY <2>1 DEF Held, AtOnce
  <2> HIDE DEF r
  <2>6. \A c \in Req : kid'[c] = IF c = r THEN [st |-> t, rid |-> r] ELSE kid[c]
    BY <1>3, <2>1, <2>5
  <2>7. \A c \in Req : c <= r => kid'[c].rid = c /\ kid'[c].st \in {"running", "ended"}
    BY <1>2, <2>2, <2>6
  <2>8. active' = {c \in Req : c <= r /\ kid'[c].st = "running"}
    <3>1. CASE t = "running"
      BY <1>2, <2>1, <2>2, <2>5, <2>6, <3>1
    <3>2. CASE t = "ended"
      BY <1>2, <2>1, <2>2, <2>3, <2>5, <2>6, <3>2
    <3>3. QED
      BY <3>1, <3>2
  <2>9. \A c \in Req : dispatched'[c] = IF c <= r THEN 1 ELSE 0
    <3> TAKE c \in Req
    <3>1. CASE c = r
      BY <1>2, <1>3, <2>1, <2>2, <2>3, <2>4, <3>1
    <3>2. CASE c # r
      BY <1>2, <1>3, <2>1, <2>2, <2>4, <3>2
    <3>3. QED
      BY <3>1, <3>2
  <2>10. QED
    BY <2>1, <2>7, <2>8, <2>9
<1>5. ASSUME NEW d \in Req, End(d)
      PROVE  /\ \A c \in Req : c <= Taken' => kid'[c].rid = c /\ kid'[c].st \in {"running", "ended"}
             /\ active' = {c \in Req : c <= Taken' /\ kid'[c].st = "running"}
             /\ \A c \in Req : dispatched'[c] = IF c <= Taken' THEN 1 ELSE 0
  <2>1. Taken' = Taken /\ kid[d].st = "running" /\ kid' = [kid EXCEPT ![d].st = "ended"] /\ dispatched' = dispatched
    BY <1>5, EndEffect DEF End
  <2>2. kid[d].rid = d /\ d <= Taken /\ d \in active
    BY <1>2, <1>3, <2>1
  <2>3. active' = active \ {d}
    BY <1>5, <2>2, EndEffect
  <2>4. \A c \in Req : kid'[c].rid = kid[c].rid /\ kid'[c].st = IF c = d THEN "ended" ELSE kid[c].st
    BY <1>3, <2>1
  <2>5. \A c \in Req : c <= Taken' => kid'[c].rid = c /\ kid'[c].st \in {"running", "ended"}
    BY <1>2, <2>1, <2>4
  <2>6. active' = {c \in Req : c <= Taken' /\ kid'[c].st = "running"}
    BY <1>2, <2>1, <2>3, <2>4
  <2>7. QED
    BY <1>2, <2>1, <2>5, <2>6
<1>6. ASSUME NEW c \in Req PROVE ~Start(c)
  BY <1>2, <1>3 DEF Start
<1>7. ASSUME NEW b \in Branch, Post(b) PROVE Taken' = Taken /\ UNCHANGED <<kid, active, dispatched>>
  BY <1>7, PostEffect DEF Post
<1>8. CASE Root \/ Quiescent \/ Drained \/ Check \/ Wake \/ UNCHANGED vars \/ (\E b \in Branch : Post(b) \/ Return(b))
  <2>1. Taken' = Taken /\ UNCHANGED <<kid, active, dispatched>>
    BY <1>7, <1>8 DEF Root, Quiescent, Drained, Check, Wake, Return, vars, Taken
  <2>2. QED
    BY <1>2, <2>1
<1>9. QED
  BY <1>4, <1>5, <1>6, <1>8 DEF Next, Trampoline

\* The trampoline leaves its loop only when the leaves and threads are done.
LEMMA ExitKept ==
  ASSUME TypeOK, Fifo, Asking, Joining, Counted, ExitIsClean, [Next]_vars
  PROVE  ExitIsClean'
<1>1. CASE Check /\ pc' = "exited"
  <2>1. BridgeDone /\ outstanding = 0
    BY <1>1 DEF Check
  <2>2. Live = {}
    BY <2>1, LiveIs
  <2>3. \A c \in Req : kid[c].st \in {"none", "ended"}
    BY <2>2 DEF Live, TypeOK
  <2>4. pending = <<>> /\ active = {} /\ root # "ready" /\ \A b \in Branch : co[b] # "ready"
    BY <2>1 DEF BridgeDone, Ready
  <2>5. Mailbox = {}
    <3>1. \A r : ~InMailbox(r)
      BY <2>4 DEF InMailbox
    <3>2. QED
      BY <3>1, MailboxIs
  <2>6. \A b \in Branch : co[b] = "returned"
    BY <2>4, <2>5 DEF Asking, Joining, TypeOK
  <2>7. joined = Cardinality(Branch)
    BY <2>6, ReturnedIs DEF Joining
  <2>8. root = "returned"
    BY <2>4, <2>7, Sizes DEF Joining, TypeOK
  <2>9. UNCHANGED <<co, root, pending, active, kid>>
    BY <1>1 DEF Check, coro
  <2>10. QED
    BY <2>3, <2>4, <2>6, <2>8, <2>9 DEF ExitIsClean
<1>2. CASE pc' # "exited"
  BY <1>2 DEF ExitIsClean
<1>3. CASE UNCHANGED vars
  BY <1>3 DEF vars, coro, ExitIsClean
<1>4. (pc' = "exited" /\ ~UNCHANGED vars) => Check
  BY DEF Next, Trampoline, Root, Quiescent, Drain, Drained, Wake, Post, Return, Start, End
<1>5. QED
  BY <1>1, <1>2, <1>3, <1>4

-----------------------------------------------------------------------------
\* The invariant holds when the action is started.
LEMMA InitInv == Init => IInv
<1> SUFFICES ASSUME Init PROVE IInv
  OBVIOUS
<1>1. Taken = 0 /\ owner = <<>> /\ pending = <<>> /\ Len(owner) = 0 /\ Len(pending) = 0
      /\ DOMAIN owner = {} /\ DOMAIN pending = {}
  BY DEF Init, Taken
<1>2. TypeOK
  <2>1. <<>> \in Seq(Branch) /\ <<>> \in Seq(Req)
    OBVIOUS
  <2>2. Calls \in 0 .. Calls /\ 0 \in 0 .. Cardinality(Branch) /\ 0 <= Calls * Cardinality(Branch)
    BY Sizes DEF N
  <2>3. QED
    BY <1>1, <2>1, <2>2 DEF Init, TypeOK, NoReq
<1>3. \A c \in Req : kid[c].st = "none" /\ ~(c <= 0)
  BY Sizes DEF Init
<1>4. Fifo
  BY <1>1, <1>3 DEF Init, Fifo
<1>5. Numbered
  <2>1. <<>> \in [DOMAIN owner -> 1 .. Calls]
    BY <1>1
  <2>2. QED
    BY <1>1, <2>1 DEF Numbered, Numbers
<1>6. Mailbox = {}
  <2>1. Taken + 1 .. Len(owner) = {}
    BY <1>1
  <2>2. QED
    BY <2>1 DEF Init, Mailbox
<1>7. Asking
  BY <1>6 DEF Asking, Init
<1>8. Joining
  <2>1. Returned = {}
    BY DEF Returned, Init
  <2>2. Cardinality(Returned) = 0
    BY <2>1, FS_EmptySet
  <2>3. QED
    BY <2>2 DEF Init, Joining
<1>9. Counted
  <2>1. Live = {}
    BY <1>3 DEF Live
  <2>2. QED
    BY <2>1, FS_EmptySet DEF Init, Counted
<1>10. Eager
  BY <1>1, <1>3 DEF Init, Eager
<1>11. ExitIsClean
  BY DEF Init, ExitIsClean
<1>12. QED
  BY <1>2, <1>4, <1>5, <1>7, <1>8, <1>9, <1>10, <1>11 DEF IInv, Mail

\* Every step keeps the invariant.
LEMMA NextInv == IInv /\ [Next]_vars => IInv'
<1> SUFFICES ASSUME IInv, [Next]_vars PROVE IInv'
  OBVIOUS
<1>1. Mail /\ TypeOK /\ Fifo /\ Asking /\ Joining /\ Counted /\ Eager /\ ExitIsClean
  BY DEF IInv, Mail
<1>2. Mail'
  BY <1>1, TypedKept, FifoKept DEF Mail
<1>3. Asking' /\ Joining'
  BY <1>1, AskingKept, JoiningKept
<1>4. Counted' /\ Eager' /\ ExitIsClean'
  BY <1>1, CountedKept, EagerKept, ExitKept
<1>5. QED
  BY <1>2, <1>3, <1>4 DEF IInv

\* The invariant always holds.
LEMMA Invariant == Spec => []IInv
BY InitInv, NextInv, PTL DEF Spec

\* What the invariant says of one leaf: the requests of a suspended one are a
\* single one, another has none.
LEMMA OneRequestEach == IInv => BlockedIffRequested
<1> SUFFICES ASSUME IInv, NEW b \in Branch
             PROVE  LET mine == {r \in DOMAIN owner : owner[r] = b /\ InMailbox(r)}
                    IN  Cardinality(mine) = IF co[b] = "blocked" THEN 1 ELSE 0
  BY DEF BlockedIffRequested
<1> DEFINE mine == {r \in DOMAIN owner : owner[r] = b /\ InMailbox(r)}
<1>1. TypeOK /\ Fifo /\ Asking
  BY DEF IInv, Mail
<1>2. mine = {r \in Mailbox : owner[r] = b}
  BY <1>1, MailboxIs
<1> HIDE DEF mine
<1>3. CASE co[b] = "blocked"
  <2>1. PICK r \in Mailbox : owner[r] = b
    BY <1>1, <1>3 DEF Asking
  <2>2. mine = {r}
    BY <1>1, <1>2, <2>1 DEF Asking
  <2>3. Cardinality(mine) = 1
    BY <2>2, FS_Singleton
  <2>4. QED
    BY <1>3, <2>3 DEF mine
<1>4. CASE co[b] # "blocked"
  <2>1. mine = {}
    BY <1>1, <1>2, <1>4 DEF Asking
  <2>2. Cardinality(mine) = 0
    BY <2>1, FS_EmptySet
  <2>3. QED
    BY <1>4, <2>2 DEF mine
<1>5. QED
  BY <1>3, <1>4

\* What the invariant says of a simulator that starts threads at once.
LEMMA OneThreadEach == IInv => EachDispatchedOnce
<1> SUFFICES ASSUME IInv, start = "eager"
             PROVE  /\ \A r \in Req : dispatched[r] <= 1
                    /\ \A r \in active : \E c \in Req : kid[c] = [st |-> "running", rid |-> r]
  BY DEF EachDispatchedOnce
<1>1. /\ \A c \in Req : c <= Taken => kid[c].rid = c
      /\ active = {c \in Req : c <= Taken /\ kid[c].st = "running"}
      /\ \A c \in Req : dispatched[c] = IF c <= Taken THEN 1 ELSE 0
      /\ kid \in [Req -> [st : {"none", "new", "running", "ended"}, rid : Req \cup {NoReq}]]
  BY DEF IInv, Mail, Eager, TypeOK
<1>2. \A r \in Req : dispatched[r] <= 1
  BY <1>1
<1>3. \A r \in active : r \in Req /\ kid[r] = [st |-> "running", rid |-> r]
  BY <1>1
<1>4. QED
  BY <1>2, <1>3

-----------------------------------------------------------------------------
\* Every reachable state is well typed: requests stay within the N the imports
\* can make, and `outstanding` never goes below zero.
THEOREM TypeCorrect == Spec => []TypeOK
<1>1. IInv => TypeOK
  BY DEF IInv, Mail
<1>2. QED
  BY <1>1, Invariant, PTL

\* A coroutine is suspended in an import exactly as long as one request of its
\* is pending or active: zsp_bridge_complete never resumes one that did not ask.
THEOREM SuspendedMeansRequested == Spec => []BlockedIffRequested
BY OneRequestEach, Invariant, PTL

\* pssc_run_action never returns with a leaf, a request or a thread left over.
THEOREM ReturnsClean == Spec => []ExitIsClean
<1>1. IInv => ExitIsClean
  BY DEF IInv
<1>2. QED
  BY <1>1, Invariant, PTL

\* On a simulator that starts forked threads at once each request's import task
\* is run once, and every active request has its own running thread.
THEOREM DispatchedOnce == Spec => []EachDispatchedOnce
BY OneThreadEach, Invariant, PTL
=============================================================================
