--------------------------- MODULE AsyncChan_proofs ---------------------------
(***************************************************************************)
(* Proofs about the asynchronous channel, for every set of tasks, every    *)
(* set of tokens and every number of puts.                                 *)
(***************************************************************************)
EXTENDS AsyncChan, SequenceTheorems, TLAPS

\* The events track the slot: `arrived` is set exactly while it is full, and
\* `drained` is clear while it is.  Without the first, ev.set() could find its
\* event set and wake nobody; this is what NoLostWakeup rests on.
EventsTrackSlot == /\ arrived = full
                   /\ full => ~drained

\* A full slot and a suspended put() both hold a token.
TokensPresent == /\ full => value \in Token
                 /\ \A t \in Task : Putting(t) => arg[t] \in Token

IInv == TypeOK /\ EventsTrackSlot /\ TokensPresent /\ NoLostWakeup /\ Conservation

-----------------------------------------------------------------------------
\* A successful try_put keeps every conjunct, whoever the caller is: the
\* caller is idle afterwards and the other tasks are where they were.
LEMMA PostPreserves ==
  ASSUME IInv, ~full, NEW v \in Token, NEW p \in [Task -> PC], Post(p, v),
         arg' \in [Task -> Token \cup {NoToken}],
         \A t \in Task : p[t] \in {pc[t], "idle"},
         \A t \in Task : p[t] # "idle" => arg'[t] = arg[t]
  PROVE  IInv'
<1>1. /\ value' = v /\ full' = TRUE /\ arrived' = TRUE /\ drained' = FALSE
      /\ sent' = Append(sent, v) /\ rcvd' = rcvd
  BY DEF Post
<1>2. pc' = Wake(p, FALSE, "getBlocked", "getReady")
  <2>1. arrived = FALSE
    BY DEF IInv, EventsTrackSlot, TypeOK
  <2>2. QED
    BY <2>1 DEF Post
<1>3. /\ pc' \in [Task -> PC]
      /\ \A t \in Task : pc'[t] # "getBlocked"
      /\ \A t \in Task : p[t] # "getBlocked" => pc'[t] = p[t]
      /\ \A t \in Task : p[t] = "getBlocked" => pc'[t] = "getReady"
  BY <1>2 DEF Wake, PC
<1>4. TypeOK'
  <2>1. value' \in Token \cup {NoToken} /\ sent' \in Seq(Token) /\ rcvd' \in Seq(Token)
    BY <1>1 DEF IInv, TypeOK
  <2>2. full' \in BOOLEAN /\ arrived' \in BOOLEAN /\ drained' \in BOOLEAN
    BY <1>1
  <2>3. QED
    BY <1>3, <2>1, <2>2 DEF TypeOK
<1>5. EventsTrackSlot'
  BY <1>1 DEF EventsTrackSlot
<1>6. TokensPresent'
  BY <1>1, <1>3 DEF IInv, TypeOK, TokensPresent, Putting
<1>7. NoLostWakeup'
  BY <1>1, <1>3 DEF NoLostWakeup
<1>8. Conservation'
  <2>1. sent = rcvd
    BY ConcatEmptySeq DEF IInv, Conservation, Held, TypeOK
  <2>2. Append(rcvd, v) = rcvd \o <<v>>
    BY DEF IInv, TypeOK
  <2>3. QED
    BY <1>1, <2>1, <2>2 DEF Conservation, Held
<1>9. QED
  BY <1>4, <1>5, <1>6, <1>7, <1>8 DEF IInv

\* And so does a successful try_get, which wakes every blocked put().
LEMMA TakePreserves ==
  ASSUME IInv, full, NEW p \in [Task -> PC], Take(p), UNCHANGED arg,
         \A t \in Task : p[t] \in {pc[t], "idle"}
  PROVE  IInv'
<1>1. /\ value' = value /\ full' = FALSE /\ arrived' = FALSE /\ drained' = TRUE
      /\ rcvd' = Append(rcvd, value) /\ sent' = sent
  BY DEF Take
<1>2. pc' = Wake(p, FALSE, "putBlocked", "putReady")
  <2>1. drained = FALSE
    BY DEF IInv, EventsTrackSlot, TypeOK
  <2>2. QED
    BY <2>1 DEF Take
<1>3. /\ pc' \in [Task -> PC]
      /\ \A t \in Task : pc'[t] # "putBlocked"
      /\ \A t \in Task : p[t] # "putBlocked" => pc'[t] = p[t]
      /\ \A t \in Task : p[t] = "putBlocked" => pc'[t] = "putReady"
  BY <1>2 DEF Wake, PC
<1>4. TypeOK'
  <2>1. /\ value' \in Token \cup {NoToken} /\ sent' \in Seq(Token)
        /\ arg' \in [Task -> Token \cup {NoToken}]
    BY <1>1 DEF IInv, TypeOK
  <2>2. rcvd' \in Seq(Token)
    BY <1>1 DEF IInv, TypeOK, TokensPresent
  <2>3. full' \in BOOLEAN /\ arrived' \in BOOLEAN /\ drained' \in BOOLEAN
    BY <1>1
  <2>4. QED
    BY <1>3, <2>1, <2>2, <2>3 DEF TypeOK
<1>5. EventsTrackSlot'
  BY <1>1 DEF EventsTrackSlot
<1>6. TokensPresent'
  BY <1>1, <1>3 DEF IInv, TypeOK, TokensPresent, Putting
<1>7. NoLostWakeup'
  BY <1>1, <1>3 DEF NoLostWakeup, IInv
<1>8. Conservation'
  <2>1. sent = rcvd \o <<value>>
    BY DEF IInv, Conservation, Held
  <2>2. Append(rcvd, value) = rcvd \o <<value>>
    BY DEF IInv, TypeOK, TokensPresent
  <2>3. sent \o <<>> = sent
    BY ConcatEmptySeq DEF IInv, TypeOK
  <2>4. QED
    BY <1>1, <2>1, <2>2, <2>3 DEF Conservation, Held
<1>9. QED
  BY <1>4, <1>5, <1>6, <1>7, <1>8 DEF IInv

\* One round of put()'s loop keeps every conjunct: it posts, or it clears the
\* event and suspends.
LEMMA PutLoopPreserves ==
  ASSUME IInv, NEW t \in Task, NEW v \in Token, PutLoop(t, v)
  PROVE  IInv'
<1>1. CASE ~full
  <2>1. Post([pc EXCEPT ![t] = "idle"], v) /\ arg' = [arg EXCEPT ![t] = NoToken]
    BY <1>1 DEF PutLoop
  <2>2. [pc EXCEPT ![t] = "idle"] \in [Task -> PC]
    BY DEF IInv, TypeOK, PC
  <2>3. arg' \in [Task -> Token \cup {NoToken}]
    BY <2>1 DEF IInv, TypeOK
  <2>4. \A s \in Task : [pc EXCEPT ![t] = "idle"][s] \in {pc[s], "idle"}
    BY DEF IInv, TypeOK
  <2>5. \A s \in Task : [pc EXCEPT ![t] = "idle"][s] # "idle" => arg'[s] = arg[s]
    BY <2>1 DEF IInv, TypeOK
  <2>6. QED
    BY <1>1, <2>1, <2>2, <2>3, <2>4, <2>5, PostPreserves
<1>2. CASE full
  <2>1. /\ drained' = FALSE
        /\ pc' = [pc EXCEPT ![t] = "putBlocked"]
        /\ arg' = [arg EXCEPT ![t] = v]
        /\ UNCHANGED <<value, full, arrived, sent, rcvd>>
    BY <1>2 DEF PutLoop
  <2>2. TypeOK'
    BY <2>1 DEF IInv, TypeOK, PC
  <2>3. EventsTrackSlot' /\ Conservation'
    BY <2>1 DEF IInv, EventsTrackSlot, Conservation, Held
  <2>4. TokensPresent'
    BY <2>1 DEF IInv, TypeOK, TokensPresent, Putting
  <2>5. NoLostWakeup'
    BY <1>2, <2>1 DEF IInv, TypeOK, NoLostWakeup
  <2>6. QED
    BY <2>2, <2>3, <2>4, <2>5 DEF IInv
<1>3. QED
  BY <1>1, <1>2

\* The same of get(), called or resumed.
LEMMA GetLoopPreserves ==
  ASSUME IInv, NEW t \in Task, GetLoop(t)
  PROVE  IInv'
<1>1. CASE full
  <2>1. Take([pc EXCEPT ![t] = "idle"]) /\ UNCHANGED arg
    BY <1>1 DEF GetLoop
  <2>2. [pc EXCEPT ![t] = "idle"] \in [Task -> PC]
    BY DEF IInv, TypeOK, PC
  <2>3. \A s \in Task : [pc EXCEPT ![t] = "idle"][s] \in {pc[s], "idle"}
    BY DEF IInv, TypeOK
  <2>4. QED
    BY <1>1, <2>1, <2>2, <2>3, TakePreserves
<1>2. CASE ~full
  <2>1. /\ arrived' = FALSE
        /\ pc' = [pc EXCEPT ![t] = "getBlocked"]
        /\ UNCHANGED <<value, full, drained, arg, sent, rcvd>>
    BY <1>2 DEF GetLoop
  <2>2. TypeOK'
    BY <2>1 DEF IInv, TypeOK, PC
  <2>3. EventsTrackSlot' /\ Conservation'
    BY <1>2, <2>1 DEF IInv, TypeOK, EventsTrackSlot, Conservation, Held
  <2>4. TokensPresent'
    BY <2>1 DEF IInv, TypeOK, TokensPresent, Putting
  <2>5. NoLostWakeup'
    BY <1>2, <2>1 DEF IInv, TypeOK, NoLostWakeup
  <2>6. QED
    BY <2>2, <2>3, <2>4, <2>5 DEF IInv
<1>3. QED
  BY <1>1, <1>2

-----------------------------------------------------------------------------
\* A new channel satisfies the invariant.
LEMMA InitEstablishes == Init => IInv
<1> SUFFICES ASSUME Init PROVE IInv
  OBVIOUS
<1>1. TypeOK
  <2>1. <<>> \in Seq(Token)
    OBVIOUS
  <2>2. QED
    BY <2>1 DEF Init, TypeOK, PC
<1>2. EventsTrackSlot /\ TokensPresent /\ NoLostWakeup
  BY DEF Init, EventsTrackSlot, TokensPresent, NoLostWakeup, Putting
<1>3. Conservation
  <2>1. <<>> \o <<>> = <<>>
    OBVIOUS
  <2>2. QED
    BY <2>1 DEF Init, Conservation, Held
<1>4. QED
  BY <1>1, <1>2, <1>3 DEF IInv

\* Every call, resumption and cancellation keeps it.
LEMMA NextPreserves == IInv /\ [Next]_vars => IInv'
<1> SUFFICES ASSUME IInv, [Next]_vars PROVE IInv'
  OBVIOUS
<1>1. ASSUME NEW t \in Task, NEW v \in Token, Put(t, v) PROVE IInv'
  BY <1>1, PutLoopPreserves DEF Put
<1>2. ASSUME NEW t \in Task, Get(t) PROVE IInv'
  BY <1>2, GetLoopPreserves DEF Get
<1>3. ASSUME NEW t \in Task, Resume(t) PROVE IInv'
  <2>1. CASE pc[t] = "putReady" /\ PutLoop(t, arg[t])
    <3>1. arg[t] \in Token
      BY <2>1 DEF IInv, TokensPresent, Putting
    <3>2. QED
      BY <2>1, <3>1, PutLoopPreserves
  <2>2. CASE pc[t] = "getReady" /\ GetLoop(t)
    BY <2>2, GetLoopPreserves
  <2>3. QED
    BY <1>3, <2>1, <2>2 DEF Resume
<1>4. ASSUME NEW t \in Task, Cancel(t) PROVE IInv'
  <2>1. /\ pc' = [pc EXCEPT ![t] = "idle"]
        /\ arg' = [arg EXCEPT ![t] = NoToken]
        /\ UNCHANGED <<value, full, arrived, drained, sent, rcvd>>
    BY <1>4 DEF Cancel
  <2>2. TypeOK'
    BY <2>1 DEF IInv, TypeOK, PC
  <2>3. EventsTrackSlot' /\ Conservation'
    BY <2>1 DEF IInv, EventsTrackSlot, Conservation, Held
  <2>4. TokensPresent'
    BY <2>1 DEF IInv, TypeOK, TokensPresent, Putting
  <2>5. NoLostWakeup'
    BY <2>1 DEF IInv, TypeOK, NoLostWakeup
  <2>6. QED
    BY <2>2, <2>3, <2>4, <2>5 DEF IInv
<1>5. ASSUME NEW v \in Token, TryPut(v) PROVE IInv'
  <2>1. pc \in [Task -> PC] /\ arg' \in [Task -> Token \cup {NoToken}]
    BY <1>5 DEF TryPut, IInv, TypeOK
  <2>2. QED
    BY <1>5, <2>1, PostPreserves DEF TryPut
<1>6. ASSUME TryGet PROVE IInv'
  <2>1. pc \in [Task -> PC]
    BY DEF IInv, TypeOK
  <2>2. QED
    BY <1>6, <2>1, TakePreserves DEF TryGet
<1>7. CASE UNCHANGED vars
  BY <1>7 DEF vars, IInv, TypeOK, EventsTrackSlot, TokensPresent, NoLostWakeup,
              Conservation, Held, Putting
<1>8. QED
  BY <1>1, <1>2, <1>3, <1>4, <1>5, <1>6, <1>7 DEF Next

\* So it holds throughout.
LEMMA Invariance == Spec => []IInv
BY InitEstablishes, NextPreserves, PTL DEF Spec

-----------------------------------------------------------------------------
\* The state of the runtime is always one the code's types allow.
THEOREM TypeCorrect == Spec => []TypeOK
<1>1. IInv => TypeOK
  BY DEF IInv
<1>2. QED
  BY <1>1, Invariance, PTL

\* For any number of tasks in get() and put(), none sleeps on a condition
\* that already holds.
THEOREM NoWakeupIsLost == Spec => []NoLostWakeup
<1>1. IInv => NoLostWakeup
  BY DEF IInv
<1>2. QED
  BY <1>1, Invariance, PTL

\* What was accepted is what was returned, in order, then the slot.
THEOREM TokensConserved == Spec => []Conservation
<1>1. IInv => Conservation
  BY DEF IInv
<1>2. QED
  BY <1>1, Invariance, PTL

-----------------------------------------------------------------------------
\* A successful try_put is an Accept of the abstract channel.
LEMMA PostAccepts ==
  ASSUME IInv, ~full, NEW v \in Token, NEW p, Post(p, v)
  PROVE  Chan!Accept(v)
<1>1. Held = <<>> /\ Held' = <<v>>
  BY DEF Post, Held
<1>2. Append(<<>>, v) = <<v>> /\ Len(<<>>) < 1
  OBVIOUS
<1>3. sent' = Append(sent, v) /\ UNCHANGED rcvd
  BY DEF Post
<1>4. QED
  BY <1>1, <1>2, <1>3 DEF Chan!Accept

\* A successful try_get is a Deliver.
LEMMA TakeDelivers ==
  ASSUME IInv, full, NEW p, Take(p)
  PROVE  Chan!Deliver
<1>1. Held = <<value>> /\ Held' = <<>>
  BY DEF Take, Held
<1>2. <<value>> # <<>> /\ Tail(<<value>>) = <<>> /\ Head(<<value>>) = value
  OBVIOUS
<1>3. rcvd' = Append(rcvd, value) /\ UNCHANGED sent
  BY DEF Take
<1>4. QED
  BY <1>1, <1>2, <1>3 DEF Chan!Deliver

\* A round of put()'s loop is an Accept, or it leaves the slot alone.
LEMMA PutLoopMaps ==
  ASSUME IInv, NEW t \in Task, NEW v \in Token, PutLoop(t, v)
  PROVE  [Chan!Next]_Chan!vars
<1>1. CASE ~full
  BY <1>1, PostAccepts DEF PutLoop, Chan!Next
<1>2. CASE full
  BY <1>2 DEF PutLoop, Chan!vars, Held
<1>3. QED
  BY <1>1, <1>2

\* A round of get()'s loop is a Deliver, or it leaves the slot alone.
LEMMA GetLoopMaps ==
  ASSUME IInv, NEW t \in Task, GetLoop(t)
  PROVE  [Chan!Next]_Chan!vars
<1>1. CASE full
  BY <1>1, TakeDelivers DEF GetLoop, Chan!Next
<1>2. CASE ~full
  BY <1>2 DEF GetLoop, Chan!vars, Held
<1>3. QED
  BY <1>1, <1>2

\* The asynchronous runtime implements the depth-1 channel.
THEOREM Refinement == Spec => ImplementsChannel
<1>1. Init => Chan!Init
  BY DEF Init, Chan!Init, Held
<1>2. IInv /\ [Next]_vars => [Chan!Next]_Chan!vars
  <2> SUFFICES ASSUME IInv, [Next]_vars PROVE [Chan!Next]_Chan!vars
    OBVIOUS
  <2>1. ASSUME NEW t \in Task, NEW v \in Token, Put(t, v)
        PROVE  [Chan!Next]_Chan!vars
    BY <2>1, PutLoopMaps DEF Put
  <2>2. ASSUME NEW t \in Task, Get(t) PROVE [Chan!Next]_Chan!vars
    BY <2>2, GetLoopMaps DEF Get
  <2>3. ASSUME NEW t \in Task, Resume(t) PROVE [Chan!Next]_Chan!vars
    <3>1. CASE pc[t] = "putReady" /\ PutLoop(t, arg[t])
      <4>1. arg[t] \in Token
        BY <3>1 DEF IInv, TokensPresent, Putting
      <4>2. QED
        BY <3>1, <4>1, PutLoopMaps
    <3>2. CASE pc[t] = "getReady" /\ GetLoop(t)
      BY <3>2, GetLoopMaps
    <3>3. QED
      BY <2>3, <3>1, <3>2 DEF Resume
  <2>4. ASSUME NEW t \in Task, Cancel(t) PROVE [Chan!Next]_Chan!vars
    BY <2>4 DEF Cancel, Chan!vars, Held
  <2>5. ASSUME NEW v \in Token, TryPut(v) PROVE [Chan!Next]_Chan!vars
    BY <2>5, PostAccepts DEF TryPut, Chan!Next
  <2>6. ASSUME TryGet PROVE [Chan!Next]_Chan!vars
    BY <2>6, TakeDelivers DEF TryGet, Chan!Next
  <2>7. CASE UNCHANGED vars
    BY <2>7 DEF vars, Chan!vars, Held
  <2>8. QED
    BY <2>1, <2>2, <2>3, <2>4, <2>5, <2>6, <2>7 DEF Next
<1>3. QED
  BY <1>1, <1>2, Invariance, PTL DEF Spec, ImplementsChannel, Chan!Spec
=============================================================================
