------------------------- MODULE NativeActivity_proofs -------------------------
(***************************************************************************)
(* The locks of a sv-native parallel are exclusive, and every step grants  *)
(* one, returns one or does neither: for every scenario, every number of   *)
(* threads, every set of pools and every capacity.                         *)
(***************************************************************************)
EXTENDS NativeActivity, TLAPS

\* The types that matter to the argument.
Typing == /\ prog \in [Thread -> Seq(Operation)]
          /\ at \in [Thread -> Nat \ {0}]
          /\ phase \in [Thread -> Phase]
          /\ k \in [Thread -> Nat]
          /\ DOMAIN id = Thread
          /\ lockSem \in [Instance -> Nat]

\* Where a thread is while it is inside a traversal: the ids it was given are
\* of its claims' pools, and it acquires and releases one of its claims.
Inside(t) == /\ ~Done(t)
             /\ Step(t).op = "do"
             /\ \A n \in DOMAIN Claims(t) : Res(t, n) \in Instance
             /\ phase[t] \in {"acquire", "mark", "release"} => Emitted(t) /\ k[t] \in DOMAIN Claims(t)
             /\ phase[t] = "mark" => Claim(t).kind = "lock"
Position == \A t \in Thread : phase[t] # "next" => Inside(t)

\* The semaphore of a locked instance is empty, of any other holds one token
\* at most.
Tokens == \A i \in Instance :
             /\ lockSem[i] <= 1
             /\ \A t \in Thread : \A n \in Locks(t) : Res(t, n) = i => lockSem[i] = 0

\* Between lock() and unlock() an instance has one owner.  The semaphore is
\* what makes it so: lock_held is assigned too late to.
LockExclusive ==
    \A t, u \in Thread : \A n \in Locks(t), m \in Locks(u) :
        Res(t, n) = Res(u, m) => t = u /\ n = m

LockInv == Typing /\ Position /\ Tokens /\ LockExclusive

-----------------------------------------------------------------------------
\* Nothing of thread u changes.
Same(u) == at'[u] = at[u] /\ phase'[u] = phase[u] /\ k'[u] = k[u] /\ id'[u] = id[u]

\* What a step of thread t does to the locks it holds: it keeps them, takes one
\* of an instance nobody holds, or returns one.  A thread that goes on to its
\* next operation holds none.
Fixed(t)   == \A n \in Locks(t)' : at'[t] = at[t] /\ Res(t, n)' = Res(t, n)
Retains(t) == Locks(t)' = Locks(t) /\ Fixed(t)
Takes(t)   == \E m : /\ m \notin Locks(t) /\ Locks(t)' = Locks(t) \cup {m}
                     /\ \A u \in Thread : \A n \in Locks(u) : Res(u, n) # Res(t, m)
                     /\ Fixed(t)
Returns(t) == \E m \in Locks(t) : Locks(t)' = Locks(t) \ {m} /\ Fixed(t)
Ledger(t)  == /\ prog' = prog /\ \A u \in Thread \ {t} : Same(u)
              /\ Retains(t) \/ Takes(t) \/ Returns(t)

\* A thread of which nothing changes holds what it held.
LEMMA Frame ==
  ASSUME NEW u \in Thread, prog' = prog, Same(u)
  PROVE  /\ Locks(u)' = Locks(u)
         /\ \A n : Res(u, n)' = Res(u, n)
         /\ (phase[u] # "next" => Inside(u)) => (phase[u] # "next" => Inside(u))'
<1>1. Done(u)' = Done(u) /\ Step(u)' = Step(u) /\ Claims(u)' = Claims(u) /\ Emitted(u)' = Emitted(u)
  BY DEF Same, Done, Step, Claims, Emitted
<1>2. \A n : Res(u, n)' = Res(u, n)
  BY <1>1 DEF Same, Res
<1>3. Passed(u)' = Passed(u)
  BY <1>1 DEF Same, Passed
<1>4. Locks(u)' = Locks(u)
  BY <1>1, <1>3 DEF Locks
<1>5. Claim(u)' = Claim(u)
  BY <1>1 DEF Same, Claim
<1>6. Inside(u)' = Inside(u)
  BY <1>1, <1>2, <1>5 DEF Same, Inside
<1>7. QED
  BY <1>2, <1>4, <1>6 DEF Same

\* A step that takes no lock and leaves the semaphores alone.
LEMMA Quiet ==
  ASSUME LockInv, NEW t \in Thread, prog' = prog, lockSem' = lockSem,
         \A u \in Thread \ {t} : Same(u),
         Locks(t)' \subseteq Locks(t),
         \A n \in Locks(t)' : Res(t, n)' = Res(t, n)
  PROVE  Tokens' /\ LockExclusive'
<1>1. \A u \in Thread : /\ Locks(u)' \subseteq Locks(u)
                        /\ \A n \in Locks(u)' : Res(u, n)' = Res(u, n)
  BY Frame
<1>2. Tokens'
  BY <1>1 DEF LockInv, Tokens
<1>3. LockExclusive'
  BY <1>1 DEF LockInv, LockExclusive
<1>4. QED
  BY <1>2, <1>3

\* The instances of declared pools.
LEMMA InstanceOf ==
  ASSUME NEW p \in Pool, NEW n \in Ids(p)
  PROVE  <<p, n>> \in Instance
BY DEF Instance

-----------------------------------------------------------------------------
\* Before the fork nothing is held and every semaphore has its token.
LEMMA InitLocks == Init => LockInv
<1> SUFFICES ASSUME Init PROVE LockInv
  OBVIOUS
<1>1. prog \in [Thread -> Seq(Operation)]
  BY ScenarioAssumption DEF Init
<1>2. Typing
  BY <1>1 DEF Init, New, Typing, Phase
<1>3. \A t \in Thread : phase[t] = "next"
  BY DEF Init
<1>4. \A t \in Thread : Locks(t) = {}
  BY <1>3 DEF Locks, Passed
<1>5. Position
  BY <1>3 DEF Position
<1>6. Tokens
  BY <1>4 DEF Tokens, Init, New
<1>7. LockExclusive
  BY <1>4 DEF LockExclusive
<1>8. QED
  BY <1>2, <1>5, <1>6, <1>7 DEF LockInv

-----------------------------------------------------------------------------
\* What the actions have in common.  A thread that is at an operation is not
\* done, and the operation is one of its program's.
LEMMA AtOperation ==
  ASSUME Typing, NEW t \in Thread, ~Done(t)
  PROVE  /\ Step(t) \in Operation
         /\ Claims(t) \in Seq([pool : Pool, field : Nat, kind : {"lock", "share"}])
         /\ DOMAIN Claims(t) = 1 .. Len(Claims(t)) /\ Len(Claims(t)) \in Nat
         /\ \A n \in DOMAIN Claims(t) : Claims(t)[n].pool \in Pool /\ Claims(t)[n].kind \in {"lock", "share"}
         /\ Emitted(t) => Len(Claims(t)) >= 1
<1>1. at[t] \in 1 .. Len(prog[t]) /\ prog[t] \in Seq(Operation)
  BY DEF Typing, Done
<1>2. Step(t) \in Operation
  BY <1>1 DEF Step
<1>3. Claims(t) \in Seq([pool : Pool, field : Nat, kind : {"lock", "share"}])
  BY <1>2 DEF Claims, Operation
<1>4. DOMAIN Claims(t) = 1 .. Len(Claims(t)) /\ Len(Claims(t)) \in Nat
  BY <1>3
<1>5. \A n \in DOMAIN Claims(t) : Claims(t)[n].pool \in Pool /\ Claims(t)[n].kind \in {"lock", "share"}
  <2> DEFINE R == [pool : Pool, field : Nat, kind : {"lock", "share"}]
  <2>1. \A c \in R : c.pool \in Pool /\ c.kind \in {"lock", "share"}
    OBVIOUS
  <2>2. Claims(t) \in Seq(R)
    BY <1>3
  <2> HIDE DEF R
  <2>3. \A n \in DOMAIN Claims(t) : Claims(t)[n] \in R
    BY <2>2
  <2>4. QED
    BY <2>1, <2>3
<1>6. Emitted(t) => Len(Claims(t)) >= 1
  BY <1>3 DEF Emitted
<1>7. QED
  BY <1>2, <1>3, <1>4, <1>5, <1>6

\* The other threads stay where they are, inside their traversals.
LEMMA Others ==
  ASSUME LockInv, prog' = prog, NEW t \in Thread,
         \A u \in Thread \ {t} : Same(u),
         phase'[t] # "next" => Inside(t)'
  PROVE  Position'
BY Frame DEF LockInv, Position

\* randomize() gives ids within the bounds of their pools, and nothing is
\* acquired yet.
LEMMA SolveLocks ==
  ASSUME LockInv, NEW t \in Thread, Solve(t)
  PROVE  LockInv' /\ Ledger(t)
<1> USE DEF LockInv
<1>1. PICK ids \in [DOMAIN Claims(t) -> UNION {Ids(p) : p \in Pool}] :
         /\ \A n \in DOMAIN Claims(t) : ids[n] \in Ids(Claims(t)[n].pool)
         /\ id' = [id EXCEPT ![t] = ids]
  BY DEF Solve
<1>2. /\ at' = at /\ prog' = prog /\ lockSem' = lockSem
      /\ k' = [k EXCEPT ![t] = 1]
      /\ phase' = [phase EXCEPT ![t] = IF Emitted(t) THEN "acquire" ELSE "body"]
      /\ ~Done(t) /\ Step(t).op = "do" /\ phase[t] = "next"
  BY DEF Solve, At, Goto, poolVars
<1>3. Typing'
  BY <1>1, <1>2 DEF Typing, Phase
<1>4. \A u \in Thread \ {t} : Same(u)
  BY <1>1, <1>2 DEF Same, Typing
<1>5. Claims(t)' = Claims(t) /\ Emitted(t)' = Emitted(t) /\ Done(t)' = Done(t) /\ Step(t)' = Step(t)
  BY <1>2 DEF Claims, Emitted, Done, Step
<1>6. phase'[t] = (IF Emitted(t) THEN "acquire" ELSE "body") /\ k'[t] = 1 /\ id'[t] = ids
  BY <1>1, <1>2 DEF Typing
<1>7. Locks(t)' = {}
  BY <1>5, <1>6, <1>2, AtOperation DEF Locks, Passed
<1>8. Inside(t)'
  <2>1. \A n \in DOMAIN Claims(t) : Claims(t)[n].pool \in Pool
    BY <1>2, AtOperation
  <2>2. \A n \in DOMAIN Claims(t) : Res(t, n)' \in Instance
    BY <1>1, <1>5, <1>6, <2>1, InstanceOf DEF Res
  <2>3. Emitted(t) => k'[t] \in DOMAIN Claims(t)
    BY <1>2, <1>6, AtOperation
  <2>4. QED
    BY <1>2, <1>5, <1>6, <2>2, <2>3 DEF Inside, Instance
<1>9. Position'
  BY <1>2, <1>4, <1>8, Others
<1>10. Tokens' /\ LockExclusive'
  BY <1>2, <1>4, <1>7, Quiet
<1>11. Ledger(t)
  <2>1. Locks(t) = {}
    BY <1>2 DEF Locks, Passed
  <2>2. QED
    BY <1>2, <1>4, <1>7, <2>1 DEF Ledger, Retains, Fixed
<1>12. QED
  BY <1>3, <1>9, <1>10, <1>11

\* lock() is granted: its instance was nobody's, and is now the thread's.
LEMMA LockLocks ==
  ASSUME LockInv, NEW t \in Thread, Lock(t)
  PROVE  LockInv' /\ Ledger(t)
<1> USE DEF LockInv
<1> DEFINE i == Res(t, k[t])
<1>1. /\ at' = at /\ prog' = prog /\ id' = id /\ k' = k
      /\ phase' = [phase EXCEPT ![t] = "mark"]
      /\ lockSem[i] > 0 /\ lockSem' = [lockSem EXCEPT ![i] = @ - 1]
      /\ ~Done(t) /\ phase[t] = "acquire" /\ Claim(t).kind = "lock"
  BY DEF Lock, At, Goto, LockGet
<1>2. Inside(t) /\ i \in Instance /\ k[t] \in DOMAIN Claims(t)
  BY <1>1 DEF Position, Inside
<1>3. Typing'
  BY <1>1, <1>2 DEF Typing, Phase
<1>4. \A u \in Thread \ {t} : Same(u)
  BY <1>1 DEF Same, Typing
<1>5. /\ Claims(t)' = Claims(t) /\ Emitted(t)' = Emitted(t) /\ Done(t)' = Done(t)
      /\ Step(t)' = Step(t) /\ Claim(t)' = Claim(t) /\ phase'[t] = "mark"
      /\ \A n : Res(t, n)' = Res(t, n)
  BY <1>1 DEF Claims, Emitted, Done, Step, Claim, Res, Typing
<1>6. Inside(t)'
  BY <1>1, <1>2, <1>5 DEF Inside, Instance
<1>7. Position'
  BY <1>1, <1>4, <1>6, Others
<1>8. Locks(t)' = Locks(t) \cup {k[t]}
  <2>1. Passed(t)' = Passed(t) \cup {k[t]}
    BY <1>1, <1>2, <1>5, AtOperation DEF Passed, Typing
  <2>2. QED
    BY <1>1, <1>5, <2>1 DEF Locks, Claim
<1>9. \A u \in Thread \ {t} : Locks(u)' = Locks(u) /\ \A n : Res(u, n)' = Res(u, n)
  BY <1>1, <1>4, Frame
<1>10. \A u \in Thread : \A n \in Locks(u) : Res(u, n) # i
  BY <1>1, <1>2 DEF Tokens
<1>11. Tokens'
  <2>1. lockSem[i] = 1 /\ lockSem'[i] = 0
    BY <1>1, <1>2 DEF Tokens, Typing
  <2>2. \A j \in Instance \ {i} : lockSem'[j] = lockSem[j]
    BY <1>1, <1>2 DEF Typing
  <2>3. SUFFICES ASSUME NEW j \in Instance
                 PROVE  /\ lockSem'[j] <= 1
                        /\ \A u \in Thread : \A n \in Locks(u)' : Res(u, n)' = j => lockSem'[j] = 0
    BY DEF Tokens, Instance
  <2>4. CASE j = i
    BY <2>1, <2>4
  <2>5. CASE j # i
    BY <1>5, <1>8, <1>9, <2>2, <2>5 DEF Tokens
  <2>6. QED
    BY <2>4, <2>5
<1>12. LockExclusive'
  BY <1>5, <1>8, <1>9, <1>10 DEF LockExclusive
<1>13. Ledger(t)
  <2>1. k[t] \notin Locks(t)
    BY <1>10
  <2>2. Takes(t)
    BY <1>1, <1>5, <1>8, <1>10, <2>1 DEF Takes, Fixed
  <2>3. QED
    BY <1>1, <1>4, <2>2 DEF Ledger
<1>14. QED
  BY <1>3, <1>7, <1>11, <1>12, <1>13

\* The next claim, or the body, after one that was acquired.
LEMMA AcquiredMoves ==
  ASSUME LockInv, NEW t \in Thread, phase[t] \in {"acquire", "mark"}, Acquired(t),
         prog' = prog, at' = at, id' = id
  PROVE  /\ phase' \in [Thread -> Phase] /\ k' \in [Thread -> Nat]
         /\ \A u \in Thread \ {t} : Same(u)
         /\ Inside(t)'
         /\ Passed(t)' = Passed(t) \cup {k[t]}
         /\ Claims(t)' = Claims(t)
         /\ \A n : Res(t, n)' = Res(t, n)
<1> USE DEF LockInv
<1>1. Inside(t) /\ Emitted(t) /\ k[t] \in DOMAIN Claims(t) /\ ~Done(t)
  BY DEF Position, Inside
<1>2. /\ Claims(t)' = Claims(t) /\ Emitted(t)' = Emitted(t) /\ Done(t)' = Done(t)
      /\ Step(t)' = Step(t) /\ \A n : Res(t, n)' = Res(t, n)
  BY DEF Claims, Emitted, Done, Step, Res
<1>3. k[t] \in 1 .. Len(Claims(t)) /\ DOMAIN Claims(t) = 1 .. Len(Claims(t)) /\ Len(Claims(t)) \in Nat
  BY <1>1, AtOperation
<1>4. CASE k[t] = Len(Claims(t))
  <2>1. phase' = [phase EXCEPT ![t] = "body"] /\ k' = k
    BY <1>4 DEF Acquired, Goto
  <2>2. phase'[t] = "body" /\ phase' \in [Thread -> Phase] /\ k' \in [Thread -> Nat]
    BY <2>1 DEF Typing, Phase
  <2>3. \A u \in Thread \ {t} : Same(u)
    BY <2>1 DEF Same, Typing
  <2>4. Inside(t)'
    BY <1>1, <1>2, <2>2 DEF Inside, Instance
  <2>5. Passed(t)' = Passed(t) \cup {k[t]}
    BY <1>1, <1>2, <1>3, <1>4, <2>2 DEF Passed
  <2>6. QED
    BY <1>2, <2>2, <2>3, <2>4, <2>5
<1>5. CASE k[t] # Len(Claims(t))
  <2>1. phase' = [phase EXCEPT ![t] = "acquire"] /\ k' = [k EXCEPT ![t] = @ + 1]
    BY <1>5 DEF Acquired, Goto
  <2>2. /\ phase'[t] = "acquire" /\ phase' \in [Thread -> Phase]
        /\ k'[t] = k[t] + 1 /\ k' \in [Thread -> Nat]
    BY <2>1 DEF Typing, Phase
  <2>3. \A u \in Thread \ {t} : Same(u)
    BY <2>1 DEF Same, Typing
  <2>4. Inside(t)'
    BY <1>1, <1>2, <1>3, <1>5, <2>2 DEF Inside, Instance
  <2>5. Passed(t)' = Passed(t) \cup {k[t]}
    BY <1>1, <1>2, <1>3, <1>5, <2>2 DEF Passed
  <2>6. QED
    BY <1>2, <2>2, <2>3, <2>4, <2>5
<1>6. QED
  BY <1>4, <1>5

\* lock() has set the flag; the lock was counted from its grant on.
LEMMA MarkLocks ==
  ASSUME LockInv, NEW t \in Thread, Mark(t)
  PROVE  LockInv' /\ Ledger(t)
<1> USE DEF LockInv
<1>1. /\ prog' = prog /\ at' = at /\ id' = id /\ lockSem' = lockSem
      /\ phase[t] = "mark" /\ Acquired(t)
  BY DEF Mark, At, LockMark
<1>2. /\ phase' \in [Thread -> Phase] /\ k' \in [Thread -> Nat]
      /\ \A u \in Thread \ {t} : Same(u)
      /\ Inside(t)' /\ Passed(t)' = Passed(t) \cup {k[t]} /\ Claims(t)' = Claims(t)
      /\ \A n : Res(t, n)' = Res(t, n)
  BY <1>1, AcquiredMoves
<1>3. Typing'
  BY <1>1, <1>2 DEF Typing
<1>4. Position'
  BY <1>1, <1>2, Others
<1>5. Locks(t)' = Locks(t)
  <2>1. k[t] \in Passed(t)
    BY <1>1, AtOperation DEF Position, Inside, Passed, Typing
  <2>2. QED
    BY <1>2, <2>1 DEF Locks
<1>6. Tokens' /\ LockExclusive'
  BY <1>1, <1>2, <1>5, Quiet
<1>7. Ledger(t)
  BY <1>1, <1>2, <1>5 DEF Ledger, Retains, Fixed
<1>8. QED
  BY <1>3, <1>4, <1>6, <1>7

\* A claim for sharing is not a lock, granted or not.
LEMMA ShareLocks ==
  ASSUME LockInv, NEW t \in Thread, Share(t)
  PROVE  LockInv' /\ Ledger(t)
<1> USE DEF LockInv
<1>1. /\ prog' = prog /\ at' = at /\ id' = id /\ lockSem' = lockSem
      /\ phase[t] = "acquire" /\ Acquired(t) /\ Claim(t).kind = "share"
  BY DEF Share, At, TryShare
<1>2. /\ phase' \in [Thread -> Phase] /\ k' \in [Thread -> Nat]
      /\ \A u \in Thread \ {t} : Same(u)
      /\ Inside(t)' /\ Passed(t)' = Passed(t) \cup {k[t]} /\ Claims(t)' = Claims(t)
      /\ \A n : Res(t, n)' = Res(t, n)
  BY <1>1, AcquiredMoves
<1>3. Typing'
  BY <1>1, <1>2 DEF Typing
<1>4. Position'
  BY <1>1, <1>2, Others
<1>5. Locks(t)' = Locks(t)
  BY <1>1, <1>2 DEF Locks, Claim
<1>6. Tokens' /\ LockExclusive'
  BY <1>1, <1>2, <1>5, Quiet
<1>7. Ledger(t)
  BY <1>1, <1>2, <1>5 DEF Ledger, Retains, Fixed
<1>8. QED
  BY <1>3, <1>4, <1>6, <1>7

\* A thread that goes on to its next operation holds nothing.
LEMMA Advanced ==
  ASSUME LockInv, NEW t \in Thread, Advance(t), prog' = prog, id' = id, k' = k
  PROVE  /\ at' \in [Thread -> Nat \ {0}] /\ phase' \in [Thread -> Phase]
         /\ \A u \in Thread \ {t} : Same(u)
         /\ Position' /\ Locks(t)' = {}
<1> USE DEF LockInv
<1>1. at' = [at EXCEPT ![t] = @ + 1] /\ phase' = [phase EXCEPT ![t] = "next"]
  BY DEF Advance, Goto
<1>2. at' \in [Thread -> Nat \ {0}] /\ phase' \in [Thread -> Phase] /\ phase'[t] = "next"
  BY <1>1 DEF Typing, Phase
<1>3. \A u \in Thread \ {t} : Same(u)
  BY <1>1 DEF Same, Typing
<1>4. Position'
  BY <1>2, <1>3, Others
<1>5. Locks(t)' = {}
  BY <1>2 DEF Locks, Passed
<1>6. QED
  BY <1>2, <1>3, <1>4, <1>5

\* body() returns and everything it held is still to be released.
LEMMA BodyLocks ==
  ASSUME LockInv, NEW t \in Thread, Body(t)
  PROVE  LockInv' /\ Ledger(t)
<1> USE DEF LockInv
<1>1. /\ prog' = prog /\ id' = id /\ lockSem' = lockSem
      /\ phase[t] = "body" /\ ~Done(t)
  BY DEF Body, At, poolVars
<1>2. CASE Emitted(t)
  <2>1. at' = at /\ phase' = [phase EXCEPT ![t] = "release"] /\ k' = [k EXCEPT ![t] = Len(Claims(t))]
    BY <1>2 DEF Body, Goto
  <2>2. Len(Claims(t)) \in Nat /\ Len(Claims(t)) \in DOMAIN Claims(t) /\ DOMAIN Claims(t) = 1 .. Len(Claims(t))
    BY <1>1, <1>2, AtOperation
  <2>3. Typing' /\ phase'[t] = "release" /\ k'[t] = Len(Claims(t))
    BY <1>1, <2>1, <2>2 DEF Typing, Phase
  <2>4. \A u \in Thread \ {t} : Same(u)
    BY <1>1, <2>1 DEF Same, Typing
  <2>5. /\ Claims(t)' = Claims(t) /\ Emitted(t)' = Emitted(t) /\ Done(t)' = Done(t)
        /\ Step(t)' = Step(t) /\ \A n : Res(t, n)' = Res(t, n)
    BY <1>1, <2>1 DEF Claims, Emitted, Done, Step, Res
  <2>6. Inside(t)'
    BY <1>1, <1>2, <2>2, <2>3, <2>5 DEF Position, Inside, Instance
  <2>7. Position'
    BY <1>1, <2>4, <2>6, Others
  <2>8. Locks(t)' = Locks(t)
    BY <1>1, <1>2, <2>2, <2>3, <2>5 DEF Locks, Passed
  <2>9. Tokens' /\ LockExclusive'
    BY <1>1, <2>4, <2>5, <2>8, Quiet
  <2>10. Ledger(t)
    BY <1>1, <2>1, <2>4, <2>5, <2>8 DEF Ledger, Retains, Fixed
  <2>11. QED
    BY <2>3, <2>7, <2>9, <2>10
<1>3. CASE ~Emitted(t)
  <2>1. Advance(t) /\ k' = k
    BY <1>3 DEF Body
  <2>2. /\ at' \in [Thread -> Nat \ {0}] /\ phase' \in [Thread -> Phase]
        /\ \A u \in Thread \ {t} : Same(u)
        /\ Position' /\ Locks(t)' = {}
    BY <1>1, <2>1, Advanced
  <2>3. Typing'
    BY <1>1, <2>1, <2>2 DEF Typing
  <2>4. Tokens' /\ LockExclusive'
    BY <1>1, <2>2, Quiet
  <2>5. Locks(t) = {}
    BY <1>1, <1>3 DEF Locks, Passed
  <2>6. Ledger(t)
    BY <1>1, <2>2, <2>5 DEF Ledger, Retains, Fixed
  <2>7. QED
    BY <2>2, <2>3, <2>4, <2>6
<1>4. QED
  BY <1>2, <1>3

\* Where a release statement leaves the thread: the claim it released is no
\* longer among those it holds, and no claim is added.
LEMMA ReleaseMoves ==
  ASSUME LockInv, NEW t \in Thread, Release(t)
  PROVE  /\ prog' = prog /\ id' = id
         /\ at' \in [Thread -> Nat \ {0}] /\ phase' \in [Thread -> Phase] /\ k' \in [Thread -> Nat]
         /\ \A u \in Thread \ {t} : Same(u)
         /\ Position'
         /\ Locks(t)' = Locks(t) \ {k[t]}
         /\ Fixed(t)
<1> USE DEF LockInv
<1>1. prog' = prog /\ id' = id /\ phase[t] = "release" /\ ~Done(t)
  BY DEF Release, At
<1>2. Inside(t) /\ k[t] \in 1 .. Len(Claims(t)) /\ DOMAIN Claims(t) = 1 .. Len(Claims(t)) /\ Len(Claims(t)) \in Nat
  BY <1>1, AtOperation DEF Position, Inside
<1>3. CASE k[t] = 1
  <2>1. Advance(t) /\ k' = k
    BY <1>3 DEF Release
  <2>2. /\ at' \in [Thread -> Nat \ {0}] /\ phase' \in [Thread -> Phase]
        /\ \A u \in Thread \ {t} : Same(u)
        /\ Position' /\ Locks(t)' = {}
    BY <1>1, <2>1, Advanced
  <2>3. k' \in [Thread -> Nat]
    BY <2>1 DEF Typing
  <2>4. Locks(t) \ {k[t]} = {}
    BY <1>1, <1>2, <1>3 DEF Locks, Passed
  <2>5. QED
    BY <1>1, <2>2, <2>3, <2>4 DEF Fixed
<1>4. CASE k[t] # 1
  <2>1. at' = at /\ phase' = phase /\ k' = [k EXCEPT ![t] = @ - 1]
    BY <1>4 DEF Release
  <2>2. k'[t] = k[t] - 1 /\ k'[t] \in 1 .. Len(Claims(t)) /\ k' \in [Thread -> Nat]
    BY <1>2, <1>4, <2>1 DEF Typing
  <2>3. \A u \in Thread \ {t} : Same(u)
    BY <1>1, <2>1 DEF Same, Typing
  <2>4. /\ Claims(t)' = Claims(t) /\ Emitted(t)' = Emitted(t) /\ Done(t)' = Done(t)
        /\ Step(t)' = Step(t) /\ \A n : Res(t, n)' = Res(t, n)
    BY <1>1, <2>1 DEF Claims, Emitted, Done, Step, Res
  <2>5. Inside(t)'
    BY <1>1, <1>2, <2>1, <2>2, <2>4 DEF Inside, Instance
  <2>6. Position'
    BY <1>1, <2>3, <2>5, Others
  <2>7. Passed(t)' = Passed(t) \ {k[t]}
    BY <1>1, <1>2, <2>1, <2>2, <2>4 DEF Passed
  <2>8. Locks(t)' = Locks(t) \ {k[t]}
    BY <2>4, <2>7 DEF Locks
  <2>9. QED
    BY <1>1, <2>1, <2>2, <2>3, <2>4, <2>6, <2>8 DEF Typing, Fixed
<1>5. QED
  BY <1>3, <1>4

\* unlock() gives back the one token of an instance that nobody else holds;
\* unshare() touches no semaphore.
LEMMA ReleaseLocks ==
  ASSUME LockInv, NEW t \in Thread, Release(t)
  PROVE  LockInv' /\ Ledger(t)
<1> USE DEF LockInv
<1> DEFINE i == Res(t, k[t])
<1>1. /\ prog' = prog /\ id' = id
      /\ at' \in [Thread -> Nat \ {0}] /\ phase' \in [Thread -> Phase] /\ k' \in [Thread -> Nat]
      /\ \A u \in Thread \ {t} : Same(u)
      /\ Position'
      /\ Locks(t)' = Locks(t) \ {k[t]} /\ Fixed(t)
      /\ \A n \in Locks(t)' : Res(t, n)' = Res(t, n)
  BY ReleaseMoves DEF Fixed
<1>2. phase[t] = "release" /\ ~Done(t) /\ Inside(t) /\ i \in Instance /\ k[t] \in DOMAIN Claims(t)
  BY DEF Release, At, Position, Inside
<1>3. CASE Claim(t).kind = "lock"
  <2>1. lockSem' = [lockSem EXCEPT ![i] = @ + 1]
    BY <1>3 DEF Release, Unlock
  <2>2. k[t] \in Locks(t)
    BY <1>2, <1>3, AtOperation DEF Locks, Passed, Claim, Typing
  <2>3. lockSem[i] = 0 /\ lockSem'[i] = 1
    BY <1>2, <2>1, <2>2 DEF Tokens, Typing
  <2>4. \A j \in Instance \ {i} : lockSem'[j] = lockSem[j]
    BY <1>2, <2>1 DEF Typing
  <2>5. Typing'
    BY <1>1, <1>2, <2>1 DEF Typing
  <2>6. \A u \in Thread \ {t} : Locks(u)' = Locks(u) /\ \A n : Res(u, n)' = Res(u, n)
    BY <1>1, Frame
  <2>7. \A u \in Thread : \A n \in Locks(u)' : n \in Locks(u) /\ Res(u, n)' = Res(u, n) /\ Res(u, n) # i
    BY <1>1, <2>2, <2>6 DEF LockExclusive
  <2>8. Tokens'
    <3>1. SUFFICES ASSUME NEW j \in Instance
                   PROVE  /\ lockSem'[j] <= 1
                          /\ \A u \in Thread : \A n \in Locks(u)' : Res(u, n)' = j => lockSem'[j] = 0
      BY DEF Tokens, Instance
    <3>2. CASE j = i
      BY <2>3, <2>7, <3>2
    <3>3. CASE j # i
      BY <2>4, <2>7, <3>3 DEF Tokens
    <3>4. QED
      BY <3>2, <3>3
  <2>9. LockExclusive'
    BY <2>7 DEF LockExclusive
  <2>10. Ledger(t)
    BY <1>1, <2>2 DEF Ledger, Returns
  <2>11. QED
    BY <1>1, <2>5, <2>8, <2>9, <2>10
<1>4. CASE Claim(t).kind # "lock"
  <2>1. lockSem' = lockSem
    BY <1>4 DEF Release, Unshare
  <2>2. Typing'
    BY <1>1, <2>1 DEF Typing
  <2>3. Tokens' /\ LockExclusive'
    BY <1>1, <2>1, Quiet
  <2>4. k[t] \notin Locks(t)
    BY <1>4 DEF Locks, Claim
  <2>5. Ledger(t)
    BY <1>1, <2>4 DEF Ledger, Retains
  <2>6. QED
    BY <1>1, <2>2, <2>3, <2>5
<1>5. QED
  BY <1>3, <1>4

\* The statements of an atomic block touch no pool.
LEMMA AtomicLocks ==
  ASSUME LockInv, NEW t \in Thread, EnterAtomic(t) \/ LeaveAtomic(t)
  PROVE  LockInv' /\ Ledger(t)
<1> USE DEF LockInv
<1>1. prog' = prog /\ id' = id /\ k' = k /\ lockSem' = lockSem /\ Advance(t)
  BY DEF EnterAtomic, LeaveAtomic, poolVars
<1>2. /\ at' \in [Thread -> Nat \ {0}] /\ phase' \in [Thread -> Phase]
      /\ \A u \in Thread \ {t} : Same(u)
      /\ Position' /\ Locks(t)' = {}
  BY <1>1, Advanced
<1>3. Typing'
  BY <1>1, <1>2 DEF Typing
<1>4. Tokens' /\ LockExclusive'
  BY <1>1, <1>2, Quiet
<1>5. Locks(t) = {}
  BY DEF EnterAtomic, LeaveAtomic, At, Locks, Passed
<1>6. Ledger(t)
  BY <1>1, <1>2, <1>5 DEF Ledger, Retains, Fixed
<1>7. QED
  BY <1>2, <1>3, <1>4, <1>6

-----------------------------------------------------------------------------
\* Every step of every thread keeps the invariant.
LEMMA NextLocks == LockInv /\ [Next]_vars => LockInv'
<1> SUFFICES ASSUME LockInv, [Next]_vars PROVE LockInv'
  OBVIOUS
<1>1. ASSUME NEW t \in Thread, Run(t) PROVE LockInv'
  BY <1>1, SolveLocks, LockLocks, MarkLocks, ShareLocks, BodyLocks, ReleaseLocks, AtomicLocks DEF Run
<1>2. CASE UNCHANGED vars
  <2>1. prog' = prog /\ at' = at /\ phase' = phase /\ k' = k /\ id' = id /\ lockSem' = lockSem
    BY <1>2 DEF vars, poolVars, threadVars
  <2>2. \A u \in Thread : Same(u)
    BY <2>1 DEF Same
  <2>3. \A u \in Thread : Locks(u)' = Locks(u) /\ \A n : Res(u, n)' = Res(u, n)
    BY <2>1, <2>2, Frame
  <2>4. Typing'
    BY <2>1 DEF LockInv, Typing
  <2>5. Position'
    BY <2>1, <2>2, Frame DEF LockInv, Position
  <2>6. Tokens' /\ LockExclusive'
    BY <2>1, <2>3 DEF LockInv, Tokens, LockExclusive
  <2>7. QED
    BY <2>4, <2>5, <2>6 DEF LockInv
<1>3. QED
  BY <1>1, <1>2 DEF Next

\* So it holds throughout.
LEMMA LockInvariance == Spec => []LockInv
BY InitLocks, NextLocks, PTL DEF Spec

\* Between lock() and unlock() an instance has one owner, in every scenario,
\* whatever ids the solver picks and however the threads interleave.
THEOREM LocksAreExclusive == Spec => []LockExclusive
<1>1. LockInv => LockExclusive
  BY DEF LockInv
<1>2. QED
  BY <1>1, LockInvariance, PTL

-----------------------------------------------------------------------------
(* The allocator. *)

\* The grant of claim n of thread t.
GrantOf(t, n) == [by |-> <<t, at[t], n>>, of |-> Res(t, n), kind |-> "lock"]

\* The grants that are out are those of the locks the threads hold, before a
\* step and after it.
LEMMA GrantsAre ==
  /\ \A g : g \in LockGrants <=> \E t \in Thread : \E n \in Locks(t) : g = GrantOf(t, n)
  /\ \A g : g \in LockGrants' <=> \E t \in Thread : \E n \in Locks(t)' : g = GrantOf(t, n)'
<1> DEFINE Out == UNION {{t} \X Locks(t) : t \in Thread}
           G(s) == [by |-> <<s[1], at[s[1]], s[2]>>, of |-> Res(s[1], s[2]), kind |-> "lock"]
<1>1. ASSUME NEW g
      PROVE  g \in LockGrants <=> \E t \in Thread : \E n \in Locks(t) : g = GrantOf(t, n)
  <2>1. g \in LockGrants <=> \E s \in Out : g = G(s)
    BY DEF LockGrants
  <2>2. \A t, n : G(<<t, n>>) = GrantOf(t, n)
    BY DEF GrantOf
  <2>3. \A s : s \in Out <=> \E t \in Thread : \E n \in Locks(t) : s = <<t, n>>
    OBVIOUS
  <2> HIDE DEF G, Out
  <2>4. ASSUME g \in LockGrants PROVE \E t \in Thread : \E n \in Locks(t) : g = GrantOf(t, n)
    <3>1. PICK s \in Out : g = G(s)
      BY <2>1, <2>4
    <3>2. PICK t, n : t \in Thread /\ n \in Locks(t) /\ s = <<t, n>>
      BY <2>3
    <3>3. QED
      BY <2>2, <3>1, <3>2
  <2>5. ASSUME NEW t \in Thread, NEW n \in Locks(t), g = GrantOf(t, n) PROVE g \in LockGrants
    <3>1. <<t, n>> \in Out
      BY <2>3
    <3>2. QED
      BY <2>1, <2>2, <2>5, <3>1
  <2>6. QED
    BY <2>4, <2>5
<1>2. ASSUME NEW g
      PROVE  g \in LockGrants' <=> \E t \in Thread : \E n \in Locks(t)' : g = GrantOf(t, n)'
  <2>1. g \in LockGrants' <=> \E s \in Out' : g = G(s)'
    BY DEF LockGrants
  <2>2. \A t, n : G(<<t, n>>)' = GrantOf(t, n)'
    BY DEF GrantOf
  <2>3. \A s : s \in Out' <=> \E t \in Thread : \E n \in Locks(t)' : s = <<t, n>>
    OBVIOUS
  <2> HIDE DEF G, Out
  <2>4. ASSUME g \in LockGrants' PROVE \E t \in Thread : \E n \in Locks(t)' : g = GrantOf(t, n)'
    <3>1. PICK s \in Out' : g = G(s)'
      BY <2>1, <2>4
    <3>2. PICK t, n : t \in Thread /\ n \in Locks(t)' /\ s = <<t, n>>
      BY <2>3
    <3>3. QED
      BY <2>2, <3>1, <3>2
  <2>5. ASSUME NEW t \in Thread, NEW n \in Locks(t)', g = GrantOf(t, n)' PROVE g \in LockGrants'
    <3>1. <<t, n>> \in Out'
      BY <2>3
    <3>2. QED
      BY <2>1, <2>2, <2>5, <3>1
  <2>6. QED
    BY <2>4, <2>5
<1>3. QED
  BY <1>1, <1>2

\* A step that takes a lock is a grant of the abstract allocator, one that
\* returns a lock a return, and every other step a stutter.
LEMMA LedgerIs ==
  ASSUME NEW t \in Thread, Ledger(t)
  PROVE  Pools!Next \/ LockGrants' = LockGrants
<1>1. \A u \in Thread \ {t} : at'[u] = at[u] /\ Locks(u)' = Locks(u) /\ \A n : Res(u, n)' = Res(u, n)
  BY Frame DEF Ledger, Same
<1>2. \A u \in Thread : \A n \in Locks(u)' : at'[u] = at[u] /\ (Res(u, n)' = Res(u, n))
  BY <1>1 DEF Ledger, Retains, Takes, Returns, Fixed
<1>3. \A u \in Thread : \A n \in Locks(u)' : GrantOf(u, n)' = GrantOf(u, n)
  BY <1>2 DEF GrantOf
<1>4. ASSUME NEW h PROVE h \in LockGrants' <=> \E u \in Thread : \E n \in Locks(u)' : h = GrantOf(u, n)
  <2>1. h \in LockGrants' <=> \E u \in Thread : \E n \in Locks(u)' : h = GrantOf(u, n)'
    BY GrantsAre
  <2>2. QED
    BY <1>3, <2>1
<1>5. \A u, v \in Thread : \A n, m : GrantOf(u, n) = GrantOf(v, m) => u = v /\ n = m
  <2> SUFFICES ASSUME NEW u \in Thread, NEW v \in Thread, NEW n, NEW m, GrantOf(u, n) = GrantOf(v, m)
               PROVE  u = v /\ n = m
    OBVIOUS
  <2>1. GrantOf(u, n).by = <<u, at[u], n>> /\ GrantOf(v, m).by = <<v, at[v], m>>
    BY DEF GrantOf
  <2>2. QED
    BY <2>1
<1>6. CASE Retains(t)
  <2>1. \A u \in Thread : Locks(u)' = Locks(u)
    BY <1>1, <1>6 DEF Retains
  <2>2. \A h : h \in LockGrants' <=> h \in LockGrants
    BY <1>4, <2>1, GrantsAre
  <2>3. QED
    BY <2>2
<1>7. CASE Takes(t)
  <2>1. PICK m : /\ m \notin Locks(t) /\ Locks(t)' = Locks(t) \cup {m}
                 /\ \A u \in Thread : \A n \in Locks(u) : Res(u, n) # Res(t, m)
    BY <1>7 DEF Takes
  <2>2. PICK g : g = GrantOf(t, m)
    OBVIOUS
  <2>3. \A h : h \in LockGrants' <=> h \in LockGrants \/ h = g
    BY <1>1, <1>4, <2>1, <2>2, GrantsAre
  <2>4. LockGrants' = LockGrants \cup {g}
    BY <2>3
  <2>5. ASSUME NEW h \in LockGrants PROVE h.by # g.by /\ h.of # g.of
    <3>1. PICK u \in Thread : \E n \in Locks(u) : h = GrantOf(u, n)
      BY GrantsAre
    <3>2. PICK n \in Locks(u) : h = GrantOf(u, n)
      BY <3>1
    <3>3. /\ h.by = <<u, at[u], n>> /\ h.of = Res(u, n)
          /\ g.by = <<t, at[t], m>> /\ g.of = Res(t, m)
      BY <2>2, <3>2 DEF GrantOf
    <3>4. QED
      BY <2>1, <3>2, <3>3
  <2>6. Pools!Grant(g) /\ g \in LockGrants'
    BY <2>4, <2>5 DEF Pools!Grant
  <2>7. QED
    BY <2>6 DEF Pools!Next
<1>8. CASE Returns(t)
  <2>1. PICK m \in Locks(t) : Locks(t)' = Locks(t) \ {m}
    BY <1>8 DEF Returns
  <2>2. PICK g : g = GrantOf(t, m)
    OBVIOUS
  <2>3. \A h : h \in LockGrants' <=> h \in LockGrants /\ h # g
    BY <1>1, <1>4, <1>5, <2>1, <2>2, GrantsAre
  <2>4. g \in LockGrants /\ LockGrants' = LockGrants \ {g}
    BY <2>1, <2>2, <2>3, GrantsAre
  <2>5. QED
    BY <2>4 DEF Pools!Next, Pools!Return
<1>9. QED
  BY <1>6, <1>7, <1>8 DEF Ledger

\* The locks of a sv-native fork implement the allocator, for every scenario,
\* number of threads, set of pools and capacity: each step grants a lock of an
\* instance nobody holds, returns one, or does neither.
THEOREM LocksRefinement == Spec => ImplementsAllocator
<1>1. Init => Pools!Init
  <2> SUFFICES ASSUME Init PROVE LockGrants = {}
    BY DEF Pools!Init
  <2>1. \A t \in Thread : Locks(t) = {}
    BY DEF Init, Locks, Passed
  <2>2. QED
    BY <2>1, GrantsAre
<1>2. LockInv /\ [Next]_vars => [Pools!Next]_LockGrants
  <2> SUFFICES ASSUME LockInv, [Next]_vars PROVE Pools!Next \/ LockGrants' = LockGrants
    OBVIOUS
  <2>1. ASSUME NEW t \in Thread, Run(t) PROVE Ledger(t)
    BY <2>1, SolveLocks, LockLocks, MarkLocks, ShareLocks, BodyLocks, ReleaseLocks, AtomicLocks DEF Run
  <2>2. CASE UNCHANGED vars
    BY <2>2 DEF vars, poolVars, threadVars, LockGrants, Locks, Passed, Res, Claims, Step, Emitted
  <2>3. QED
    BY <2>1, <2>2, LedgerIs DEF Next
<1>3. QED
  BY <1>1, <1>2, LockInvariance, PTL DEF Spec, ImplementsAllocator, Pools!Spec
=============================================================================
