--------------------------- MODULE NativeJoin_proofs ---------------------------
(***************************************************************************)
(* What a sv-native parallel leaves behind at its join, its atomic blocks, *)
(* and that it is never stuck before the join: for every scenario, every   *)
(* number of threads, every set of pools and every capacity.  The locks    *)
(* are those of NativeActivity_proofs.                                     *)
(***************************************************************************)
EXTENDS NativeActivity_proofs, FiniteSetTheorems, WellFoundedInduction

\* The types that LockInv leaves out.
Rest == /\ prog \in {Program(scn) : scn \in Scenario}
        /\ lockHeld \in [Instance -> BOOLEAN]
        /\ shareCount \in [Instance -> Nat]
        /\ granted \in [Thread -> SUBSET Nat]
        /\ atomicSem \in Nat
        /\ \A t \in Thread : phase[t] = "body" => k[t] \in DOMAIN Claims(t) \cup {1}

\* A raised flag and an empty semaphore are some thread's lock.
Owned(i) == \E t \in Thread : \E n \in Locks(t) : Res(t, n) = i
Flags == \A i \in Instance : lockHeld[i] \/ lockSem[i] = 0 => Owned(i)

\* A granted share is a claim the thread has passed and not yet released.
Shares(t) == {n \in Passed(t) : Claims(t)[n].kind = "share"}
Granted == \A t \in Thread : granted[t] \subseteq Shares(t)

\* The thread has passed the get of an atomic block, not yet the put.
Block(t) == at[t] - 1 \in DOMAIN prog[t] /\ Opens(prog[t][at[t] - 1])
Gate == Wrapped => /\ atomicSem <= 1
                   /\ \A t \in Thread : Block(t) => atomicSem = 0
                   /\ \A t, u \in Thread : Block(t) /\ Block(u) => t = u

\* The semaphore of the component counts the gets and puts that were passed,
\* wrapped or not.
Gone(o) == {s \in Places(prog, o) : s[2] < at[s[1]]}
Balance == atomicSem + Cardinality(Gone("get")) = 1 + Cardinality(Gone("put"))

JoinInv == LockInv /\ Rest /\ Flags /\ Granted /\ SharesCovered /\ Gate /\ Balance

-----------------------------------------------------------------------------
\* What thread t had passed before the step and has passed after it, still with
\* the same claims and ids.
Keeps(t) == \A n \in Passed(t) \cap Passed(t)' : Res(t, n)' = Res(t, n) /\ Claims(t)[n]' = Claims(t)[n]

\* Nothing of a thread that does not move changes.
LEMMA Still ==
  ASSUME NEW u \in Thread, prog' = prog, Same(u)
  PROVE  /\ Passed(u)' = Passed(u) /\ Locks(u)' = Locks(u) /\ Shares(u)' = Shares(u) /\ Keeps(u)
         /\ Claims(u)' = Claims(u) /\ \A n : Res(u, n)' = Res(u, n)
<1>1. Done(u)' = Done(u) /\ Step(u)' = Step(u) /\ Claims(u)' = Claims(u) /\ Emitted(u)' = Emitted(u)
  BY DEF Same, Done, Step, Claims, Emitted
<1>2. \A n : Res(u, n)' = Res(u, n)
  BY <1>1 DEF Same, Res
<1>3. Passed(u)' = Passed(u)
  BY <1>1 DEF Same, Passed
<1>4. Locks(u)' = Locks(u) /\ Shares(u)' = Shares(u)
  BY <1>1, <1>3 DEF Locks, Shares
<1>5. \A n : Claims(u)[n]' = Claims(u)[n]
  BY <1>1
<1>6. Keeps(u)
  BY <1>2, <1>5 DEF Keeps
<1>7. QED
  BY <1>1, <1>2, <1>3, <1>4, <1>6

\* A thread that is between operations has passed nothing.
LEMMA NextHoldsNothing ==
  ASSUME NEW t, phase[t] = "next"
  PROVE  Passed(t) = {} /\ Locks(t) = {} /\ Shares(t) = {}
BY DEF Passed, Locks, Shares

\* randomize(): nothing passed before or after.
LEMMA SolveMoves ==
  ASSUME LockInv, NEW t \in Thread, Solve(t)
  PROVE  /\ prog' = prog /\ (\A u \in Thread \ {t} : Same(u)) /\ at' = at
         /\ Passed(t) = {} /\ Passed(t)' = {} /\ Claims(t)' = Claims(t)
         /\ k'[t] = 1
<1> USE DEF LockInv
<1>1. PICK ids : id' = [id EXCEPT ![t] = ids]
  BY DEF Solve
<1>2. /\ at' = at /\ prog' = prog
      /\ k' = [k EXCEPT ![t] = 1]
      /\ phase' = [phase EXCEPT ![t] = IF Emitted(t) THEN "acquire" ELSE "body"]
      /\ ~Done(t) /\ phase[t] = "next"
  BY DEF Solve, At, Goto
<1>3. \A u \in Thread \ {t} : Same(u)
  BY <1>1, <1>2 DEF Same, Typing
<1>4. Claims(t)' = Claims(t) /\ Emitted(t)' = Emitted(t)
  BY <1>2 DEF Claims, Emitted, Step
<1>5. phase'[t] = (IF Emitted(t) THEN "acquire" ELSE "body") /\ k'[t] = 1
  BY <1>2 DEF Typing
<1>6. Passed(t)' = {}
  BY <1>2, <1>4, <1>5, AtOperation DEF Passed
<1>7. QED
  BY <1>2, <1>3, <1>4, <1>5, <1>6, NextHoldsNothing

\* lock() is granted: the claim it is at is passed.
LEMMA LockMoves ==
  ASSUME LockInv, NEW t \in Thread, Lock(t)
  PROVE  /\ prog' = prog /\ (\A u \in Thread \ {t} : Same(u)) /\ at' = at
         /\ phase[t] = "acquire" /\ Claim(t).kind = "lock" /\ Res(t, k[t]) \in Instance
         /\ Passed(t)' = Passed(t) \cup {k[t]} /\ k[t] \notin Passed(t)
         /\ Claims(t)' = Claims(t) /\ (\A n : Res(t, n)' = Res(t, n))
         /\ phase'[t] = "mark"
<1> USE DEF LockInv
<1>1. /\ at' = at /\ prog' = prog /\ id' = id /\ k' = k
      /\ phase' = [phase EXCEPT ![t] = "mark"]
      /\ ~Done(t) /\ phase[t] = "acquire" /\ Claim(t).kind = "lock"
  BY DEF Lock, At, Goto, LockGet
<1>2. Inside(t) /\ Res(t, k[t]) \in Instance /\ k[t] \in DOMAIN Claims(t)
  BY <1>1 DEF Position, Inside
<1>3. \A u \in Thread \ {t} : Same(u)
  BY <1>1 DEF Same, Typing
<1>4. /\ Claims(t)' = Claims(t) /\ phase'[t] = "mark"
      /\ \A n : Res(t, n)' = Res(t, n)
  BY <1>1 DEF Claims, Step, Res, Typing
<1>5. Passed(t)' = Passed(t) \cup {k[t]} /\ k[t] \notin Passed(t)
  BY <1>1, <1>2, <1>4, AtOperation DEF Passed, Typing
<1>6. QED
  BY <1>1, <1>2, <1>3, <1>4, <1>5

\* body() returns: what was passed is so still.
LEMMA BodyMoves ==
  ASSUME LockInv, NEW t \in Thread, Body(t)
  PROVE  /\ prog' = prog /\ (\A u \in Thread \ {t} : Same(u))
         /\ Passed(t)' = Passed(t) /\ Keeps(t)
         /\ phase'[t] \in {"next", "release"} /\ phase[t] = "body" /\ ~Done(t) /\ Step(t).op = "do"
         /\ at' = at \/ at' = [at EXCEPT ![t] = @ + 1]
<1> USE DEF LockInv
<1>1. prog' = prog /\ id' = id /\ phase[t] = "body" /\ ~Done(t) /\ Step(t).op = "do"
  BY DEF Body, At
<1>2. CASE Emitted(t)
  <2>1. at' = at /\ phase' = [phase EXCEPT ![t] = "release"] /\ k' = [k EXCEPT ![t] = Len(Claims(t))]
    BY <1>2 DEF Body, Goto
  <2>2. Len(Claims(t)) \in Nat /\ DOMAIN Claims(t) = 1 .. Len(Claims(t))
    BY <1>1, AtOperation
  <2>3. phase'[t] = "release" /\ k'[t] = Len(Claims(t))
    BY <2>1 DEF Typing
  <2>4. \A u \in Thread \ {t} : Same(u)
    BY <1>1, <2>1 DEF Same, Typing
  <2>5. Claims(t)' = Claims(t) /\ \A n : Res(t, n)' = Res(t, n)
    BY <1>1, <2>1 DEF Claims, Step, Res
  <2>6. Passed(t)' = Passed(t)
    BY <1>1, <1>2, <2>2, <2>3, <2>5 DEF Passed
  <2>7. Keeps(t)
    BY <2>5 DEF Keeps
  <2>8. QED
    BY <1>1, <2>1, <2>3, <2>4, <2>6, <2>7
<1>3. CASE ~Emitted(t)
  <2>1. at' = [at EXCEPT ![t] = @ + 1] /\ phase' = [phase EXCEPT ![t] = "next"] /\ k' = k
    BY <1>3 DEF Body, Advance, Goto
  <2>2. phase'[t] = "next" /\ \A u \in Thread \ {t} : Same(u)
    BY <1>1, <2>1 DEF Same, Typing
  <2>3. Passed(t) = {} /\ Passed(t)' = {}
    BY <1>1, <1>3, <2>2 DEF Passed
  <2>4. QED
    BY <1>1, <2>1, <2>2, <2>3 DEF Keeps
<1>4. QED
  BY <1>2, <1>3

\* A release statement: the claim it is at is no longer passed.
LEMMA ReleasePasses ==
  ASSUME LockInv, NEW t \in Thread, Release(t)
  PROVE  /\ prog' = prog /\ (\A u \in Thread \ {t} : Same(u))
         /\ phase[t] = "release" /\ ~Done(t) /\ Step(t).op = "do"
         /\ k[t] \in Passed(t) /\ Res(t, k[t]) \in Instance
         /\ Passed(t)' = Passed(t) \ {k[t]} /\ Keeps(t)
         /\ phase'[t] \in {"next", "release"}
         /\ at' = at \/ at' = [at EXCEPT ![t] = @ + 1]
<1> USE DEF LockInv
<1>1. prog' = prog /\ id' = id /\ phase[t] = "release" /\ ~Done(t) /\ Step(t).op = "do"
  BY DEF Release, At
<1>2. /\ Inside(t) /\ k[t] \in 1 .. Len(Claims(t)) /\ DOMAIN Claims(t) = 1 .. Len(Claims(t))
      /\ Len(Claims(t)) \in Nat /\ Res(t, k[t]) \in Instance
  BY <1>1, AtOperation DEF Position, Inside
<1>3. Passed(t) = 1 .. k[t] /\ k[t] \in Passed(t)
  BY <1>1, <1>2 DEF Passed
<1>4. \A u \in Thread \ {t} : Same(u)
  BY ReleaseMoves
<1>5. CASE k[t] = 1
  <2>1. at' = [at EXCEPT ![t] = @ + 1] /\ phase' = [phase EXCEPT ![t] = "next"]
    BY <1>5 DEF Release, Advance, Goto
  <2>2. phase'[t] = "next"
    BY <2>1 DEF Typing
  <2>3. Passed(t)' = {}
    BY <2>2 DEF Passed
  <2>4. Passed(t) \ {k[t]} = {}
    BY <1>3, <1>5
  <2>5. QED
    BY <1>1, <1>2, <1>3, <1>4, <2>1, <2>2, <2>3, <2>4 DEF Keeps
<1>6. CASE k[t] # 1
  <2>1. at' = at /\ phase' = phase /\ k' = [k EXCEPT ![t] = @ - 1]
    BY <1>6 DEF Release
  <2>2. k'[t] = k[t] - 1
    BY <2>1 DEF Typing
  <2>3. Claims(t)' = Claims(t) /\ \A n : Res(t, n)' = Res(t, n)
    BY <1>1, <2>1 DEF Claims, Step, Res
  <2>4. Passed(t)' = 1 .. k[t] - 1
    <3>1. phase'[t] = "release"
      BY <1>1, <2>1
    <3>2. Passed(t)' = {n \in DOMAIN Claims(t) : n <= k[t] - 1}
      BY <2>2, <2>3, <3>1 DEF Passed
    <3>3. QED
      BY <1>2, <3>2
  <2>5. 1 .. k[t] - 1 = (1 .. k[t]) \ {k[t]}
    BY <1>2
  <2>6. Keeps(t)
    BY <2>3 DEF Keeps
  <2>7. QED
    BY <1>1, <1>2, <1>3, <1>4, <2>1, <2>4, <2>5, <2>6
<1>7. QED
  BY <1>5, <1>6

\* The two statements of an atomic block: nothing passed before or after.
LEMMA AtomicMoves ==
  ASSUME LockInv, NEW t \in Thread, EnterAtomic(t) \/ LeaveAtomic(t)
  PROVE  /\ prog' = prog /\ (\A u \in Thread \ {t} : Same(u))
         /\ Passed(t) = {} /\ Passed(t)' = {} /\ phase'[t] = "next" /\ ~Done(t)
         /\ at' = [at EXCEPT ![t] = @ + 1]
<1> USE DEF LockInv
<1>1. /\ prog' = prog /\ id' = id /\ k' = k /\ phase[t] = "next" /\ ~Done(t)
      /\ at' = [at EXCEPT ![t] = @ + 1] /\ phase' = [phase EXCEPT ![t] = "next"]
  BY DEF EnterAtomic, LeaveAtomic, At, Advance, Goto
<1>2. phase'[t] = "next" /\ \A u \in Thread \ {t} : Same(u)
  BY <1>1 DEF Same, Typing
<1>3. Passed(t) = {} /\ Passed(t)' = {}
  BY <1>1, <1>2 DEF Passed
<1>4. QED
  BY <1>1, <1>2, <1>3

\* An acquire statement that does not wait, or has waited: on to the next.
LEMMA AcquirePasses ==
  ASSUME LockInv, NEW t \in Thread, Mark(t) \/ Share(t)
  PROVE  /\ prog' = prog /\ (\A u \in Thread \ {t} : Same(u)) /\ at' = at
         /\ Res(t, k[t]) \in Instance
         /\ Passed(t)' = Passed(t) \cup {k[t]} /\ Claims(t)' = Claims(t)
         /\ (\A n : Res(t, n)' = Res(t, n))
         /\ Share(t) => k[t] \notin Passed(t) /\ Claim(t).kind = "share"
         /\ Mark(t) => k[t] \in Passed(t) /\ Claim(t).kind = "lock"
         /\ phase'[t] = "body" => k'[t] \in DOMAIN Claims(t)
<1> USE DEF LockInv
<1>1. /\ prog' = prog /\ at' = at /\ id' = id /\ Acquired(t) /\ ~Done(t)
      /\ (Share(t) => phase[t] = "acquire" /\ Claim(t).kind = "share")
      /\ (Mark(t) => phase[t] = "mark")
  BY DEF Mark, Share, At
<1>2. /\ phase' \in [Thread -> Phase] /\ k' \in [Thread -> Nat]
      /\ \A u \in Thread \ {t} : Same(u)
      /\ Passed(t)' = Passed(t) \cup {k[t]} /\ Claims(t)' = Claims(t)
      /\ \A n : Res(t, n)' = Res(t, n)
  BY <1>1, AcquiredMoves
<1>3. Inside(t) /\ k[t] \in DOMAIN Claims(t) /\ DOMAIN Claims(t) = 1 .. Len(Claims(t)) /\ Res(t, k[t]) \in Instance
      /\ (Mark(t) => Claim(t).kind = "lock")
  BY <1>1, AtOperation DEF Position, Inside
<1>4. Share(t) => k[t] \notin Passed(t)
  BY <1>1, <1>3 DEF Passed
<1>5. Mark(t) => k[t] \in Passed(t)
  BY <1>1, <1>3 DEF Passed
<1>6. phase'[t] = "body" => k'[t] \in DOMAIN Claims(t)
  <2>1. CASE k[t] = Len(Claims(t))
    <3>1. k' = k
      BY <1>1, <2>1 DEF Acquired
    <3>2. QED
      BY <1>3, <3>1
  <2>2. CASE k[t] # Len(Claims(t))
    <3>1. phase' = [phase EXCEPT ![t] = "acquire"]
      BY <1>1, <2>2 DEF Acquired, Goto
    <3>2. phase'[t] = "acquire"
      BY <3>1 DEF Typing
    <3>3. QED
      BY <3>2
  <2>3. QED
    BY <2>1, <2>2
<1>7. QED
  BY <1>1, <1>2, <1>3, <1>4, <1>5, <1>6

-----------------------------------------------------------------------------
\* A thread that loses no lock keeps every instance its owner.
LEMMA OwnersKept ==
  ASSUME NEW t \in Thread, prog' = prog, \A u \in Thread \ {t} : Same(u),
         Locks(t) \subseteq Locks(t)', \A n \in Locks(t) : Res(t, n)' = Res(t, n)
  PROVE  \A i : Owned(i) => Owned(i)'
<1> SUFFICES ASSUME NEW i, Owned(i) PROVE Owned(i)'
  OBVIOUS
<1>1. PICK u \in Thread : \E n \in Locks(u) : Res(u, n) = i
  BY DEF Owned
<1>2. PICK n \in Locks(u) : Res(u, n) = i
  BY <1>1
<1>3. n \in Locks(u)' /\ Res(u, n)' = Res(u, n)
  BY Still
<1>4. \E m \in Locks(u)' : Res(u, m)' = i
  BY <1>2, <1>3
<1>5. QED
  BY <1>4 DEF Owned

\* Locks after a step that passes claim n, or keeps what was passed.
LEMMA LocksAfter ==
  ASSUME NEW t, Keeps(t), Passed(t)' = Passed(t)
  PROVE  /\ Locks(t)' = Locks(t) /\ Shares(t)' = Shares(t)
         /\ \A n \in Passed(t) : Res(t, n)' = Res(t, n)
BY DEF Keeps, Locks, Shares

\* Every step keeps flags and semaphores accounted for.
LEMMA FlagsKept ==
  ASSUME LockInv, Rest, Flags, [Next]_vars
  PROVE  Flags'
<1>0. lockHeld \in [Instance -> BOOLEAN] /\ lockSem \in [Instance -> Nat]
  BY DEF LockInv, Typing, Rest
<1>1. ASSUME NEW t \in Thread, prog' = prog, \A u \in Thread \ {t} : Same(u),
             Locks(t) \subseteq Locks(t)', \A n \in Locks(t) : Res(t, n)' = Res(t, n),
             lockHeld' = lockHeld, lockSem' = lockSem
      PROVE  Flags'
  <2>1. \A i \in Instance : lockHeld'[i] \/ lockSem'[i] = 0 => Owned(i)'
    BY <1>1, OwnersKept DEF Flags
  <2>2. QED
    BY <2>1 DEF Flags, Instance
<1>2. ASSUME NEW t \in Thread, Solve(t) \/ EnterAtomic(t) \/ LeaveAtomic(t) PROVE Flags'
  <2>1. /\ prog' = prog /\ (\A u \in Thread \ {t} : Same(u)) /\ Passed(t) = {}
    BY <1>2, SolveMoves, AtomicMoves
  <2>2. lockHeld' = lockHeld /\ lockSem' = lockSem /\ Locks(t) = {}
    BY <1>2, <2>1 DEF Solve, EnterAtomic, LeaveAtomic, poolVars, Locks
  <2>3. QED
    BY <1>1, <2>1, <2>2
<1>3. ASSUME NEW t \in Thread, Lock(t) PROVE Flags'
  <2>1. PICK n : n = k[t]
    OBVIOUS
  <2>2. PICK i : i = Res(t, n)
    OBVIOUS
  <2>3. /\ prog' = prog /\ (\A u \in Thread \ {t} : Same(u)) /\ Claim(t).kind = "lock" /\ i \in Instance
        /\ Passed(t)' = Passed(t) \cup {n} /\ Claims(t)' = Claims(t) /\ \A m : Res(t, m)' = Res(t, m)
    BY <1>3, <2>1, <2>2, LockMoves
  <2>4. Locks(t)' = Locks(t) \cup {n}
    BY <2>1, <2>3 DEF Locks, Claim
  <2>5. lockHeld' = lockHeld /\ lockSem' = [lockSem EXCEPT ![i] = @ - 1]
    BY <1>3, <2>1, <2>2 DEF Lock, LockGet
  <2>6. Owned(i)'
    BY <2>2, <2>3, <2>4 DEF Owned
  <2>7. \A j \in Instance \ {i} : lockSem'[j] = lockSem[j]
    BY <1>0, <2>5
  <2>8. \A j : Owned(j) => Owned(j)'
    BY <2>3, <2>4, OwnersKept
  <2>9. \A j \in Instance : lockHeld'[j] \/ lockSem'[j] = 0 => Owned(j)'
    <3> TAKE j \in Instance
    <3>1. CASE j = i
      BY <2>6, <3>1
    <3>2. CASE j # i
      BY <2>5, <2>7, <2>8, <3>2 DEF Flags
    <3>3. QED
      BY <3>1, <3>2
  <2>10. QED
    BY <2>9 DEF Flags, Instance
<1>4. ASSUME NEW t \in Thread, Mark(t) PROVE Flags'
  <2>1. PICK n : n = k[t]
    OBVIOUS
  <2>2. PICK i : i = Res(t, n)
    OBVIOUS
  <2>3. /\ prog' = prog /\ (\A u \in Thread \ {t} : Same(u)) /\ Claim(t).kind = "lock" /\ i \in Instance
        /\ Passed(t)' = Passed(t) /\ n \in Passed(t) /\ Claims(t)' = Claims(t) /\ \A m : Res(t, m)' = Res(t, m)
    BY <1>4, <2>1, <2>2, AcquirePasses
  <2>4. Locks(t)' = Locks(t) /\ n \in Locks(t)
    BY <2>1, <2>3 DEF Locks, Claim
  <2>5. lockSem' = lockSem /\ lockHeld' = [lockHeld EXCEPT ![i] = TRUE]
    BY <1>4, <2>1, <2>2 DEF Mark, LockMark
  <2>6. Owned(i)'
    BY <2>2, <2>3, <2>4 DEF Owned
  <2>7. \A j \in Instance \ {i} : lockHeld'[j] <=> lockHeld[j]
    BY <1>0, <2>5
  <2>8. \A j : Owned(j) => Owned(j)'
    BY <2>3, <2>4, OwnersKept
  <2>9. \A j \in Instance : lockHeld'[j] \/ lockSem'[j] = 0 => Owned(j)'
    <3> TAKE j \in Instance
    <3>1. CASE j = i
      BY <2>6, <3>1
    <3>2. CASE j # i
      BY <2>5, <2>7, <2>8, <3>2 DEF Flags
    <3>3. QED
      BY <3>1, <3>2
  <2>10. QED
    BY <2>9 DEF Flags, Instance
<1>5. ASSUME NEW t \in Thread, Share(t) PROVE Flags'
  <2>1. /\ prog' = prog /\ (\A u \in Thread \ {t} : Same(u))
        /\ Passed(t)' = Passed(t) \cup {k[t]} /\ Claims(t)' = Claims(t) /\ \A n : Res(t, n)' = Res(t, n)
    BY <1>5, AcquirePasses
  <2>2. Locks(t) \subseteq Locks(t)'
    BY <2>1 DEF Locks
  <2>3. lockHeld' = lockHeld /\ lockSem' = lockSem
    BY <1>5 DEF Share, TryShare
  <2>4. QED
    BY <1>1, <2>1, <2>2, <2>3
<1>6. ASSUME NEW t \in Thread, Body(t) PROVE Flags'
  <2>1. /\ prog' = prog /\ (\A u \in Thread \ {t} : Same(u)) /\ Passed(t)' = Passed(t) /\ Keeps(t)
    BY <1>6, BodyMoves
  <2>2. Locks(t)' = Locks(t) /\ \A n \in Locks(t) : Res(t, n)' = Res(t, n)
    BY <2>1, LocksAfter DEF Locks
  <2>3. lockHeld' = lockHeld /\ lockSem' = lockSem
    BY <1>6 DEF Body, poolVars
  <2>4. QED
    BY <1>1, <2>1, <2>2, <2>3
<1>7. ASSUME NEW t \in Thread, Release(t) PROVE Flags'
  <2>1. PICK n : n = k[t]
    OBVIOUS
  <2>2. PICK i : i = Res(t, n)
    OBVIOUS
  <2>3. /\ prog' = prog /\ (\A u \in Thread \ {t} : Same(u)) /\ i \in Instance
        /\ n \in Passed(t) /\ Passed(t)' = Passed(t) \ {n} /\ Keeps(t)
    BY <1>7, <2>1, <2>2, ReleasePasses
  <2>4. Locks(t)' = Locks(t) \ {n} /\ \A m \in Locks(t)' : Res(t, m)' = Res(t, m)
    BY <2>3 DEF Keeps, Locks
  <2>5. CASE Claim(t).kind = "lock"
    <3>1. lockHeld' = [lockHeld EXCEPT ![i] = FALSE] /\ lockSem' = [lockSem EXCEPT ![i] = @ + 1]
      BY <1>7, <2>1, <2>2, <2>5 DEF Release, Unlock
    <3>2. ~lockHeld'[i] /\ lockSem'[i] # 0
      BY <1>0, <2>3, <3>1
    <3>3. \A j \in Instance \ {i} : (lockHeld'[j] <=> lockHeld[j]) /\ lockSem'[j] = lockSem[j]
      BY <1>0, <3>1
    <3>4. ASSUME NEW j \in Instance \ {i}, Owned(j) PROVE Owned(j)'
      <4>1. PICK u \in Thread : \E m \in Locks(u) : Res(u, m) = j
        BY <3>4 DEF Owned
      <4>2. PICK m \in Locks(u) : Res(u, m) = j
        BY <4>1
      <4>3. m \in Locks(u)' /\ Res(u, m)' = Res(u, m)
        <5>1. CASE u = t
          BY <2>2, <2>4, <3>4, <4>2, <5>1
        <5>2. CASE u # t
          BY <2>3, <5>2, Still
        <5>3. QED
          BY <5>1, <5>2
      <4>4. \E o \in Locks(u)' : Res(u, o)' = j
        BY <4>2, <4>3
      <4>5. QED
        BY <4>4 DEF Owned
    <3>5. \A j \in Instance : lockHeld'[j] \/ lockSem'[j] = 0 => Owned(j)'
      <4> TAKE j \in Instance
      <4>1. CASE j = i
        BY <3>2, <4>1
      <4>2. CASE j # i
        BY <3>3, <3>4, <4>2 DEF Flags
      <4>3. QED
        BY <4>1, <4>2
    <3>6. QED
      BY <3>5 DEF Flags, Instance
  <2>6. CASE Claim(t).kind # "lock"
    <3>1. n \notin Locks(t)
      BY <2>1, <2>6 DEF Locks, Claim
    <3>2. lockHeld' = lockHeld /\ lockSem' = lockSem
      BY <1>7, <2>6 DEF Release, Unshare
    <3>3. Locks(t) \subseteq Locks(t)' /\ \A m \in Locks(t) : Res(t, m)' = Res(t, m)
      BY <2>4, <3>1
    <3>4. QED
      BY <1>1, <2>3, <3>2, <3>3
  <2>7. QED
    BY <2>5, <2>6
<1>8. CASE UNCHANGED vars
  <2>1. prog' = prog /\ lockHeld' = lockHeld /\ lockSem' = lockSem /\ \A u \in Thread : Same(u)
    BY <1>8 DEF vars, poolVars, threadVars, Same
  <2>2. \A i \in Instance : Owned(i) => Owned(i)'
    BY <2>1, Still DEF Owned
  <2>3. \A i \in Instance : lockHeld'[i] \/ lockSem'[i] = 0 => Owned(i)'
    BY <2>1, <2>2 DEF Flags
  <2>4. QED
    BY <2>3 DEF Flags, Instance
<1>9. QED
  BY <1>2, <1>3, <1>4, <1>5, <1>6, <1>7, <1>8 DEF Next, Run

-----------------------------------------------------------------------------
\* Every step keeps the granted shares among the claims passed.
LEMMA GrantedKept ==
  ASSUME LockInv, Rest, Granted, [Next]_vars
  PROVE  Granted' /\ granted' \in [Thread -> SUBSET Nat]
<1>0. granted \in [Thread -> SUBSET Nat]
  BY DEF Rest
<1>1. ASSUME NEW t \in Thread, prog' = prog, \A u \in Thread \ {t} : Same(u),
             NEW g, granted' = [granted EXCEPT ![t] = g], g \subseteq Shares(t)', g \subseteq Nat
      PROVE  Granted' /\ granted' \in [Thread -> SUBSET Nat]
  <2>1. granted' \in [Thread -> SUBSET Nat] /\ granted'[t] = g /\ \A u \in Thread \ {t} : granted'[u] = granted[u]
    BY <1>0, <1>1
  <2>2. \A u \in Thread \ {t} : granted'[u] \subseteq Shares(u)'
    BY <1>1, <2>1, Still DEF Granted
  <2>3. \A u \in Thread : granted'[u] \subseteq Shares(u)'
    BY <1>1, <2>1, <2>2
  <2>4. QED
    BY <2>1, <2>3 DEF Granted
<1>2. ASSUME NEW t \in Thread, prog' = prog, \A u \in Thread \ {t} : Same(u),
             granted' = granted, Shares(t) \subseteq Shares(t)'
      PROVE  Granted' /\ granted' \in [Thread -> SUBSET Nat]
  <2>1. granted' = [granted EXCEPT ![t] = granted[t]]
    BY <1>0, <1>2
  <2>2. granted[t] \subseteq Shares(t)' /\ granted[t] \subseteq Nat
    BY <1>0, <1>2 DEF Granted
  <2>3. QED
    BY <1>1, <1>2, <2>1, <2>2
<1>3. ASSUME NEW t \in Thread, Solve(t) PROVE Granted' /\ granted' \in [Thread -> SUBSET Nat]
  <2>1. prog' = prog /\ (\A u \in Thread \ {t} : Same(u)) /\ granted' = [granted EXCEPT ![t] = {}]
    BY <1>3, SolveMoves DEF Solve
  <2>2. PICK g : g = {}
    OBVIOUS
  <2>3. granted' = [granted EXCEPT ![t] = g] /\ g \subseteq Shares(t)' /\ g \subseteq Nat
    BY <2>1, <2>2
  <2>4. QED
    BY <1>1, <2>1, <2>3
<1>4. ASSUME NEW t \in Thread, EnterAtomic(t) \/ LeaveAtomic(t)
      PROVE  Granted' /\ granted' \in [Thread -> SUBSET Nat]
  <2>1. prog' = prog /\ (\A u \in Thread \ {t} : Same(u)) /\ granted' = granted /\ Passed(t) = {}
    BY <1>4, AtomicMoves DEF EnterAtomic, LeaveAtomic
  <2>2. Shares(t) = {}
    BY <2>1 DEF Shares
  <2>3. QED
    BY <1>2, <2>1, <2>2
<1>5. ASSUME NEW t \in Thread, Lock(t) \/ Mark(t)
      PROVE  Granted' /\ granted' \in [Thread -> SUBSET Nat]
  <2>1. /\ prog' = prog /\ (\A u \in Thread \ {t} : Same(u)) /\ granted' = granted
        /\ Passed(t) \subseteq Passed(t)' /\ Claims(t)' = Claims(t)
    BY <1>5, LockMoves, AcquirePasses DEF Lock, Mark
  <2>2. Shares(t) \subseteq Shares(t)'
    BY <2>1 DEF Shares
  <2>3. QED
    BY <1>2, <2>1, <2>2
<1>6. ASSUME NEW t \in Thread, Body(t) PROVE Granted' /\ granted' \in [Thread -> SUBSET Nat]
  <2>1. prog' = prog /\ (\A u \in Thread \ {t} : Same(u)) /\ granted' = granted /\ Shares(t)' = Shares(t)
    BY <1>6, BodyMoves, LocksAfter DEF Body
  <2>2. QED
    BY <1>2, <2>1
<1>7. ASSUME NEW t \in Thread, Share(t) PROVE Granted' /\ granted' \in [Thread -> SUBSET Nat]
  <2>1. PICK n : n = k[t]
    OBVIOUS
  <2>2. /\ prog' = prog /\ (\A u \in Thread \ {t} : Same(u))
        /\ Passed(t)' = Passed(t) \cup {n} /\ Claims(t)' = Claims(t) /\ Claim(t).kind = "share"
    BY <1>7, <2>1, AcquirePasses
  <2>3. n \in Nat
    BY <2>1 DEF LockInv, Typing
  <2>4. Shares(t)' = Shares(t) \cup {n}
    BY <2>1, <2>2 DEF Shares, Claim
  <2>5. PICK g : /\ granted' = [granted EXCEPT ![t] = g]
                 /\ g \subseteq granted[t] \cup {n}
    BY <1>7, <2>1 DEF Share
  <2>6. g \subseteq Shares(t)' /\ g \subseteq Nat
    BY <1>0, <2>3, <2>4, <2>5 DEF Granted
  <2>7. QED
    BY <1>1, <2>2, <2>5, <2>6
<1>8. ASSUME NEW t \in Thread, Release(t) PROVE Granted' /\ granted' \in [Thread -> SUBSET Nat]
  <2>1. PICK n : n = k[t]
    OBVIOUS
  <2>2. /\ prog' = prog /\ (\A u \in Thread \ {t} : Same(u)) /\ Passed(t)' = Passed(t) \ {n} /\ Keeps(t)
    BY <1>8, <2>1, ReleasePasses
  <2>3. Shares(t)' = Shares(t) \ {n}
    BY <2>2 DEF Shares, Keeps
  <2>4. PICK g : granted' = [granted EXCEPT ![t] = g] /\ g = granted[t] \ {n}
    BY <1>8, <2>1 DEF Release
  <2>5. g \subseteq Shares(t)' /\ g \subseteq Nat
    BY <1>0, <2>3, <2>4 DEF Granted
  <2>6. QED
    BY <1>1, <2>2, <2>4, <2>5
<1>9. CASE UNCHANGED vars
  <2>1. prog' = prog /\ granted' = granted /\ \A u \in Thread : Same(u)
    BY <1>9 DEF vars, threadVars, Same
  <2>2. \A u \in Thread : Shares(u)' = Shares(u)
    BY <2>1, Still
  <2>3. QED
    BY <1>0, <2>1, <2>2 DEF Granted
<1>10. QED
  BY <1>3, <1>4, <1>5, <1>6, <1>7, <1>8, <1>9 DEF Next, Run

\* The shares of an instance that are out, before and after a step.
LEMMA SharerIs ==
  ASSUME Granted, NEW i
  PROVE  \A s : s \in Sharers(i) <=> \E u \in Thread : \E n \in granted[u] : s = <<u, n>> /\ Res(u, n) = i
<1>1. \A u \in Thread : \A n \in granted[u] : phase[u] # "next"
  BY NextHoldsNothing DEF Granted
<1>2. \A s : s \in UNION {{u} \X granted[u] : u \in Thread} <=> \E u \in Thread : \E n \in granted[u] : s = <<u, n>>
  OBVIOUS
<1>3. QED
  BY <1>1, <1>2 DEF Sharers
\* The same of the state after the step.
LEMMA SharerIsNext ==
  ASSUME Granted', NEW i
  PROVE  \A s : s \in Sharers(i)' <=> \E u \in Thread : \E n \in granted'[u] : s = <<u, n>> /\ Res(u, n)' = i
<1>1. \A u \in Thread : \A n \in granted'[u] : phase'[u] # "next"
  <2>1. \A u : phase'[u] = "next" => Shares(u)' = {}
    BY DEF Shares, Passed
  <2>2. QED
    BY <2>1 DEF Granted
<1>2. \A s : s \in UNION {{u} \X granted'[u] : u \in Thread} <=> \E u \in Thread : \E n \in granted'[u] : s = <<u, n>>
  OBVIOUS
<1>3. QED
  BY <1>1, <1>2 DEF Sharers

\* There are finitely many of them.
LEMMA SharersFinite ==
  ASSUME LockInv, Granted, NEW i
  PROVE  IsFiniteSet(Sharers(i))
<1> DEFINE F == [u \in Thread |-> {u} \X granted[u]]
           S == {{u} \X granted[u] : u \in Thread}
<1>1. ASSUME NEW u \in Thread PROVE IsFiniteSet(granted[u])
  <2>1. CASE phase[u] = "next"
    <3>1. granted[u] = {}
      BY <2>1, NextHoldsNothing DEF Granted
    <3>2. QED
      BY <3>1, FS_EmptySet
  <2>2. CASE phase[u] # "next"
    <3>1. ~Done(u) /\ granted[u] \subseteq DOMAIN Claims(u)
      BY <2>2 DEF Granted, Shares, Passed, LockInv, Position, Inside
    <3>2. DOMAIN Claims(u) = 1 .. Len(Claims(u)) /\ 1 \in Int /\ Len(Claims(u)) \in Int
      BY <3>1, AtOperation DEF LockInv
    <3>3. IsFiniteSet(DOMAIN Claims(u))
      BY <3>2, FS_Interval
    <3>4. QED
      BY <3>1, <3>3, FS_Subset
  <2>3. QED
    BY <2>1, <2>2
<1>2. \A T \in S : IsFiniteSet(T)
  <2>1. ASSUME NEW u \in Thread PROVE IsFiniteSet({u} \X granted[u])
    BY <1>1, FS_Singleton, FS_Product
  <2>2. QED
    BY <2>1
<1>3. F \in Surjection(Thread, S)
  BY DEF Surjection
<1> HIDE DEF F
<1>4. IsFiniteSet(S)
  BY <1>3, ThreadAssumption, FS_Surjection
<1>5. IsFiniteSet(UNION S)
  BY <1>2, <1>4, FS_UNION
<1>6. Sharers(i) \subseteq UNION S
  BY DEF Sharers
<1>7. QED
  BY <1>5, <1>6, FS_Subset

\* A granted try_share() adds one sharer of its instance, a release takes one
\* away if its claim was granted, and no other step does either.
LEMMA SharesKept ==
  ASSUME LockInv, Rest, Granted, SharesCovered, [Next]_vars
  PROVE  SharesCovered' /\ shareCount' \in [Instance -> Nat]
<1>0. /\ shareCount \in [Instance -> Nat] /\ granted \in [Thread -> SUBSET Nat] /\ Granted'
  BY GrantedKept DEF Rest
<1>1. \A i \in Instance : IsFiniteSet(Sharers(i)) /\ Cardinality(Sharers(i)) \in Nat
  BY SharersFinite, FS_CardinalityType
<1>2. ASSUME NEW t \in Thread, prog' = prog, \A u \in Thread \ {t} : Same(u), granted' = granted,
             \A n \in granted[t] : Res(t, n)' = Res(t, n), shareCount' = shareCount
      PROVE  SharesCovered' /\ shareCount' \in [Instance -> Nat]
  <2>1. \A u \in Thread : \A n \in granted[u] : Res(u, n)' = Res(u, n)
    BY <1>2, Still
  <2>2. \A i \in Instance : Sharers(i)' = Sharers(i)
    <3> TAKE i \in Instance
    <3>1. \A s : s \in Sharers(i)' <=> s \in Sharers(i)
      BY <1>0, <1>2, <2>1, SharerIs, SharerIsNext
    <3>2. QED
      BY <3>1
  <2>3. QED
    BY <1>0, <1>2, <2>2 DEF SharesCovered, Instance
<1>3. ASSUME NEW t \in Thread, Solve(t) \/ EnterAtomic(t) \/ LeaveAtomic(t)
      PROVE  SharesCovered' /\ shareCount' \in [Instance -> Nat]
  <2>1. prog' = prog /\ (\A u \in Thread \ {t} : Same(u)) /\ Passed(t) = {} /\ shareCount' = shareCount
    BY <1>3, SolveMoves, AtomicMoves DEF Solve, EnterAtomic, LeaveAtomic, poolVars
  <2>2. granted[t] = {}
    BY <2>1 DEF Granted, Shares
  <2>3. granted' = granted
    <3>1. Solve(t) => granted' = [granted EXCEPT ![t] = {}]
      BY DEF Solve
    <3>2. QED
      BY <1>0, <1>3, <2>2, <3>1 DEF EnterAtomic, LeaveAtomic
  <2>4. QED
    BY <1>2, <2>1, <2>2, <2>3
<1>4. ASSUME NEW t \in Thread, Lock(t) \/ Mark(t)
      PROVE  SharesCovered' /\ shareCount' \in [Instance -> Nat]
  <2>1. /\ prog' = prog /\ (\A u \in Thread \ {t} : Same(u)) /\ granted' = granted
        /\ \A n : Res(t, n)' = Res(t, n)
    BY <1>4, LockMoves, AcquirePasses DEF Lock, Mark
  <2>2. shareCount' = shareCount
    BY <1>4 DEF Lock, LockGet, Mark, LockMark
  <2>3. QED
    BY <1>2, <2>1, <2>2
<1>5. ASSUME NEW t \in Thread, Body(t)
      PROVE  SharesCovered' /\ shareCount' \in [Instance -> Nat]
  <2>1. /\ prog' = prog /\ (\A u \in Thread \ {t} : Same(u)) /\ granted' = granted
        /\ \A n \in Passed(t) : Res(t, n)' = Res(t, n)
    BY <1>5, BodyMoves, LocksAfter DEF Body
  <2>2. shareCount' = shareCount /\ granted[t] \subseteq Passed(t)
    BY <1>5 DEF Body, poolVars, Granted, Shares
  <2>3. QED
    BY <1>2, <2>1, <2>2
<1>6. ASSUME NEW t \in Thread, Share(t)
      PROVE  SharesCovered' /\ shareCount' \in [Instance -> Nat]
  <2>1. PICK n : n = k[t]
    OBVIOUS
  <2>2. PICK i : i = Res(t, n)
    OBVIOUS
  <2>3. /\ prog' = prog /\ (\A u \in Thread \ {t} : Same(u)) /\ i \in Instance
        /\ (\A m : Res(t, m)' = Res(t, m)) /\ n \notin Passed(t)
    BY <1>6, <2>1, <2>2, AcquirePasses
  <2>4. \A u \in Thread : \A m : Res(u, m)' = Res(u, m)
    BY <2>3, Still
  <2>5. CASE CanShare(i)
    <3>1. shareCount' = [shareCount EXCEPT ![i] = @ + 1] /\ granted' = [granted EXCEPT ![t] = granted[t] \cup {n}]
      BY <1>6, <2>1, <2>2, <2>5 DEF Share, TryShare
    <3>2. \A u \in Thread : granted'[u] = IF u = t THEN granted[t] \cup {n} ELSE granted[u]
      BY <1>0, <3>1
    <3>3. ASSUME NEW j \in Instance
          PROVE  Sharers(j)' = IF j = i THEN Sharers(j) \cup {<<t, n>>} ELSE Sharers(j)
      <4>1. \A s : s \in Sharers(j)' <=> s \in Sharers(j) \/ (j = i /\ s = <<t, n>>)
        BY <1>0, <2>2, <2>4, <3>2, SharerIs, SharerIsNext
      <4>2. QED
        BY <4>1
    <3>4. <<t, n>> \notin Sharers(i)
      <4>1. n \notin granted[t]
        BY <2>3 DEF Granted, Shares
      <4>2. QED
        BY <4>1, SharerIs
    <3>5. Cardinality(Sharers(i)') = Cardinality(Sharers(i)) + 1
      BY <1>1, <2>3, <3>3, <3>4, FS_AddElement
    <3>6. \A j \in Instance : shareCount'[j] <= Cardinality(Sharers(j)')
      <4> TAKE j \in Instance
      <4>1. CASE j = i
        BY <1>0, <1>1, <2>3, <3>1, <3>5, <4>1 DEF SharesCovered
      <4>2. CASE j # i
        BY <1>0, <3>1, <3>3, <4>2 DEF SharesCovered
      <4>3. QED
        BY <4>1, <4>2
    <3>7. shareCount' \in [Instance -> Nat]
      BY <1>0, <2>3, <3>1
    <3>8. QED
      BY <3>6, <3>7 DEF SharesCovered, Instance
  <2>6. CASE ~CanShare(i)
    <3>1. shareCount' = [shareCount EXCEPT ![i] = @] /\ granted' = [granted EXCEPT ![t] = granted[t]]
      BY <1>6, <2>1, <2>2, <2>6 DEF Share, TryShare
    <3>2. shareCount' = shareCount /\ granted' = granted
      BY <1>0, <3>1
    <3>3. QED
      BY <1>2, <2>3, <3>2
  <2>7. QED
    BY <2>5, <2>6
<1>7. ASSUME NEW t \in Thread, Release(t)
      PROVE  SharesCovered' /\ shareCount' \in [Instance -> Nat]
  <2>1. PICK n : n = k[t]
    OBVIOUS
  <2>2. PICK i : i = Res(t, n)
    OBVIOUS
  <2>3. /\ prog' = prog /\ (\A u \in Thread \ {t} : Same(u)) /\ i \in Instance
        /\ Passed(t)' = Passed(t) \ {n} /\ Keeps(t)
    BY <1>7, <2>1, <2>2, ReleasePasses
  <2>4. granted' = [granted EXCEPT ![t] = granted[t] \ {n}]
    BY <1>7, <2>1 DEF Release
  <2>5. \A u \in Thread : granted'[u] = IF u = t THEN granted[t] \ {n} ELSE granted[u]
    BY <1>0, <2>4
  <2>6. \A m \in granted[t] \ {n} : Res(t, m)' = Res(t, m)
    BY <2>3 DEF Granted, Shares, Keeps
  <2>7. \A u \in Thread \ {t} : \A m : Res(u, m)' = Res(u, m)
    BY <2>3, Still
  <2>8. ASSUME NEW j \in Instance PROVE Sharers(j)' = Sharers(j) \ {<<t, n>>}
    <3>1. \A s : s \in Sharers(j)' <=> s \in Sharers(j) /\ s # <<t, n>>
      BY <1>0, <2>5, <2>6, <2>7, SharerIs, SharerIsNext
    <3>2. QED
      BY <3>1
  <2>9. \A j \in Instance \ {i} : Sharers(j)' = Sharers(j)
    <3>1. \A j \in Instance \ {i} : <<t, n>> \notin Sharers(j)
      BY <2>2, SharerIs
    <3>2. QED
      BY <2>8, <3>1
  <2>10. CASE Claim(t).kind = "lock"
    <3>1. shareCount' = shareCount
      BY <1>7, <2>10 DEF Release, Unlock
    <3>2. n \notin granted[t]
      BY <2>1, <2>10 DEF Granted, Shares, Claim
    <3>3. \A j \in Instance : Sharers(j)' = Sharers(j)
      <4>1. \A j \in Instance : <<t, n>> \notin Sharers(j)
        BY <3>2, SharerIs
      <4>2. QED
        BY <2>8, <4>1
    <3>4. QED
      BY <1>0, <3>1, <3>3 DEF SharesCovered, Instance
  <2>11. CASE Claim(t).kind # "lock"
    <3>1. shareCount' = [shareCount EXCEPT ![i] = IF @ > 0 THEN @ - 1 ELSE @]
      BY <1>7, <2>1, <2>2, <2>11 DEF Release, Unshare
    <3>2. shareCount'[i] = IF shareCount[i] > 0 THEN shareCount[i] - 1 ELSE shareCount[i]
      BY <1>0, <2>3, <3>1
    <3>3. Cardinality(Sharers(i)') \in Nat /\ Cardinality(Sharers(i)') >= Cardinality(Sharers(i)) - 1
      <4> DEFINE C == Sharers(i)
      <4>1. IsFiniteSet(C) /\ Sharers(i)' = C \ {<<t, n>>} /\ Cardinality(C) \in Nat
        BY <1>1, <2>3, <2>8
      <4>2. Cardinality(C \ {<<t, n>>}) = IF <<t, n>> \in C THEN Cardinality(C) - 1 ELSE Cardinality(C)
        BY <4>1, FS_RemoveElement
      <4>3. Cardinality(C \ {<<t, n>>}) \in Nat
        BY <4>1, FS_RemoveElement, FS_CardinalityType
      <4> HIDE DEF C
      <4>4. Cardinality(C \ {<<t, n>>}) >= Cardinality(C) - 1
        BY <4>1, <4>2
      <4>5. QED
        BY <4>1, <4>3, <4>4 DEF C
    <3>4. \A j \in Instance : shareCount'[j] <= Cardinality(Sharers(j)')
      <4> TAKE j \in Instance
      <4>1. CASE j = i
        BY <1>0, <1>1, <2>3, <3>2, <3>3, <4>1 DEF SharesCovered
      <4>2. CASE j # i
        BY <1>0, <2>9, <3>1, <4>2 DEF SharesCovered
      <4>3. QED
        BY <4>1, <4>2
    <3>5. shareCount' \in [Instance -> Nat]
      BY <1>0, <2>3, <3>1
    <3>6. QED
      BY <3>4, <3>5 DEF SharesCovered, Instance
  <2>12. QED
    BY <2>10, <2>11
<1>8. CASE UNCHANGED vars
  <2>1. prog' = prog /\ granted' = granted /\ shareCount' = shareCount /\ \A u \in Thread : Same(u)
    BY <1>8 DEF vars, poolVars, threadVars, Same
  <2>2. CASE Thread = {}
    <3>1. \A i \in Instance : Sharers(i)' = Sharers(i)
      BY <2>2 DEF Sharers
    <3>2. QED
      BY <1>0, <2>1, <3>1 DEF SharesCovered, Instance
  <2>3. CASE Thread # {}
    <3>1. PICK t \in Thread : TRUE
      BY <2>3
    <3>2. \A n \in granted[t] : Res(t, n)' = Res(t, n)
      BY <2>1, Still
    <3>3. QED
      BY <1>2, <2>1, <3>2
  <2>4. QED
    BY <2>2, <2>3
<1>9. QED
  BY <1>3, <1>4, <1>5, <1>6, <1>7, <1>8 DEF Next, Run

-----------------------------------------------------------------------------
\* Where every program has its gets and puts: as many of the one as of the
\* other, and finitely many.
LEMMA PlacesFinite ==
  ASSUME LockInv, NEW o
  PROVE  IsFiniteSet(Places(prog, o))
<1> DEFINE X(u) == {n \in DOMAIN prog[u] : prog[u][n].op = o}
           F == [u \in Thread |-> {u} \X X(u)]
           S == {{u} \X X(u) : u \in Thread}
<1>1. ASSUME NEW u \in Thread PROVE IsFiniteSet({u} \X X(u))
  <2>1. DOMAIN prog[u] = 1 .. Len(prog[u]) /\ 1 \in Int /\ Len(prog[u]) \in Int
    BY DEF LockInv, Typing
  <2>2. IsFiniteSet(DOMAIN prog[u]) /\ X(u) \subseteq DOMAIN prog[u]
    BY <2>1, FS_Interval
  <2> HIDE DEF X
  <2>3. IsFiniteSet(X(u))
    BY <2>2, FS_Subset
  <2>4. QED
    BY <2>3, FS_Singleton, FS_Product
<1> HIDE DEF X
<1>2. \A T \in S : IsFiniteSet(T)
  BY <1>1
<1>3. F \in Surjection(Thread, S)
  BY DEF Surjection
<1> HIDE DEF F
<1>4. IsFiniteSet(S)
  BY <1>3, ThreadAssumption, FS_Surjection
<1>5. IsFiniteSet(UNION S)
  BY <1>2, <1>4, FS_UNION
<1>6. QED
  BY <1>5 DEF Places, X

\* What has gone is a part of it.
LEMMA GoneIs ==
  ASSUME LockInv, NEW o
  PROVE  /\ IsFiniteSet(Gone(o)) /\ Cardinality(Gone(o)) \in Nat
         /\ \A u, n : <<u, n>> \in Gone(o) <=> u \in Thread /\ n \in DOMAIN prog[u] /\ prog[u][n].op = o /\ n < at[u]
         /\ \A s \in Gone(o) : s = <<s[1], s[2]>>
<1>1. Gone(o) \subseteq Places(prog, o) /\ IsFiniteSet(Places(prog, o))
  BY PlacesFinite DEF Gone
<1>2. IsFiniteSet(Gone(o)) /\ Cardinality(Gone(o)) \in Nat
  BY <1>1, FS_Subset, FS_CardinalityType
<1>3. \A s : s \in Places(prog, o) <=> \E u \in Thread : \E n \in DOMAIN prog[u] : s = <<u, n>> /\ prog[u][n].op = o
  BY DEF Places
<1>4. \A u, n : <<u, n>> \in Gone(o) <=> u \in Thread /\ n \in DOMAIN prog[u] /\ prog[u][n].op = o /\ n < at[u]
  BY <1>3 DEF Gone
<1>5. \A s \in Gone(o) : s = <<s[1], s[2]>>
  BY <1>1, <1>3
<1>6. QED
  BY <1>2, <1>4, <1>5
\* The same of the state after the step.
LEMMA GoneIsNext ==
  ASSUME prog' = prog, NEW o
  PROVE  /\ \A u, n : <<u, n>> \in Gone(o)' <=> u \in Thread /\ n \in DOMAIN prog[u] /\ prog[u][n].op = o /\ n < at'[u]
         /\ \A s \in Gone(o)' : s = <<s[1], s[2]>>
<1>1. \A s : s \in Places(prog, o) <=> \E u \in Thread : \E n \in DOMAIN prog[u] : s = <<u, n>> /\ prog[u][n].op = o
  BY DEF Places
<1>2. Gone(o)' = {s \in Places(prog, o) : s[2] < at'[s[1]]}
  BY DEF Gone, Places
<1>3. \A u, n : <<u, n>> \in Gone(o)' <=> u \in Thread /\ n \in DOMAIN prog[u] /\ prog[u][n].op = o /\ n < at'[u]
  BY <1>1, <1>2
<1>4. \A s \in Gone(o)' : s = <<s[1], s[2]>>
  BY <1>1, <1>2
<1>5. QED
  BY <1>3, <1>4

\* A thread that advances leaves behind the operation it was at.
LEMMA AdvanceIs ==
  ASSUME LockInv, NEW t \in Thread, ~Done(t), prog' = prog, at' = [at EXCEPT ![t] = @ + 1]
  PROVE  /\ at[t] \in DOMAIN prog[t] /\ at'[t] = at[t] + 1 /\ Step(t) = prog[t][at[t]]
         /\ \A u \in Thread \ {t} : at'[u] = at[u] /\ (Block(u)' <=> Block(u))
         /\ Block(t)' <=> Opens(Step(t))
         /\ \A o : /\ Step(t).op = o => Gone(o)' = Gone(o) \cup {<<t, at[t]>>} /\ <<t, at[t]>> \notin Gone(o)
                   /\ Step(t).op # o => Gone(o)' = Gone(o)
<1>1. at[t] \in 1 .. Len(prog[t]) /\ DOMAIN prog[t] = 1 .. Len(prog[t]) /\ at[t] \in Nat \ {0}
  BY DEF LockInv, Typing, Done
<1>2. at'[t] = at[t] + 1 /\ (\A u \in Thread \ {t} : at'[u] = at[u]) /\ at \in [Thread -> Nat \ {0}]
  BY DEF LockInv, Typing
<1>3. \A u \in Thread \ {t} : Block(u)' <=> Block(u)
  BY <1>2 DEF Block
<1>4. Block(t)' <=> Opens(Step(t))
  <2>1. at'[t] - 1 = at[t]
    BY <1>1, <1>2
  <2>2. QED
    BY <1>1, <2>1 DEF Block, Step
<1>5. ASSUME NEW o
      PROVE  /\ Step(t).op = o => Gone(o)' = Gone(o) \cup {<<t, at[t]>>} /\ <<t, at[t]>> \notin Gone(o)
             /\ Step(t).op # o => Gone(o)' = Gone(o)
  <2>1. \A u \in Thread : \A n \in DOMAIN prog[u] : n < at'[u] <=> n < at[u] \/ (u = t /\ n = at[t])
    <3> TAKE u \in Thread
    <3> TAKE n \in DOMAIN prog[u]
    <3>1. n \in Nat
      BY DEF LockInv, Typing
    <3>2. CASE u = t
      BY <1>1, <1>2, <3>1, <3>2
    <3>3. CASE u # t
      BY <1>2, <3>3
    <3>4. QED
      BY <3>2, <3>3
  <2>2. \A u, n : <<u, n>> \in Gone(o)' <=> <<u, n>> \in Gone(o) \/ (u = t /\ n = at[t] /\ Step(t).op = o)
    <3>1. \A u, n : <<u, n>> \in Gone(o) <=> u \in Thread /\ n \in DOMAIN prog[u] /\ prog[u][n].op = o /\ n < at[u]
      BY GoneIs
    <3>2. \A u, n : <<u, n>> \in Gone(o)' <=> u \in Thread /\ n \in DOMAIN prog[u] /\ prog[u][n].op = o /\ n < at'[u]
      BY GoneIsNext
    <3>3. at[t] \in DOMAIN prog[t] /\ Step(t).op = prog[t][at[t]].op
      BY <1>1 DEF Step
    <3>4. \A u, n : <<u, n>> \in Gone(o)' <=>
                      \/ u \in Thread /\ n \in DOMAIN prog[u] /\ prog[u][n].op = o /\ n < at[u]
                      \/ u = t /\ n = at[t] /\ Step(t).op = o
      BY <2>1, <3>2, <3>3
    <3>5. QED
      BY <3>1, <3>4
  <2>3. \A s : s \in Gone(o)' <=> s \in Gone(o) \/ (s = <<t, at[t]>> /\ Step(t).op = o)
    BY <2>2, GoneIs, GoneIsNext
  <2>4. <<t, at[t]>> \notin Gone(o)
    BY <1>1, GoneIs
  <2>5. QED
    BY <2>3, <2>4
<1>6. QED
  BY <1>1, <1>2, <1>3, <1>4, <1>5 DEF Step

\* In a wrapped program the operation in front of one that closes opens, and
\* the one behind one that opens closes.
LEMMA WrappedIs ==
  ASSUME LockInv, Rest, Wrapped, NEW t \in Thread, ~Done(t)
  PROVE  Closes(Step(t)) <=> Block(t)
<1>1. at[t] \in DOMAIN prog[t] /\ DOMAIN prog[t] = 1 .. Len(prog[t]) /\ at[t] \in Nat
  BY DEF LockInv, Typing, Done
<1>2. Bracketed(prog[t])
  BY DEF Wrapped
<1>3. Closes(Step(t)) => Block(t)
  BY <1>1, <1>2 DEF Bracketed, Step, Block
<1>4. ASSUME Block(t) PROVE Closes(Step(t))
  <2>1. PICK n : n = at[t] - 1
    OBVIOUS
  <2>2. n \in DOMAIN prog[t] /\ Opens(prog[t][n]) /\ n + 1 = at[t]
    BY <1>1, <1>4, <2>1 DEF Block
  <2>3. Closes(prog[t][n + 1])
    BY <1>2, <2>2 DEF Bracketed
  <2>4. QED
    BY <2>2, <2>3 DEF Step
<1>5. QED
  BY <1>3, <1>4

\* Every step keeps the account of the atomic blocks.
LEMMA GateKept ==
  ASSUME LockInv, Rest, Gate, Balance, [Next]_vars
  PROVE  Gate' /\ Balance' /\ atomicSem' \in Nat
<1>0. /\ atomicSem \in Nat /\ Cardinality(Gone("get")) \in Nat /\ Cardinality(Gone("put")) \in Nat
      /\ IsFiniteSet(Gone("get")) /\ IsFiniteSet(Gone("put"))
  BY GoneIs DEF Rest
<1>1. CASE prog' = prog /\ at' = at /\ atomicSem' = atomicSem
  <2>1. \A u : Block(u)' <=> Block(u)
    BY <1>1 DEF Block
  <2>2. Gone("get")' = Gone("get") /\ Gone("put")' = Gone("put") /\ (Wrapped' <=> Wrapped)
    BY <1>1 DEF Gone, Places, Wrapped
  <2>3. QED
    BY <1>0, <1>1, <2>1, <2>2 DEF Gate, Balance
<1>2. ASSUME NEW t \in Thread, ~Done(t), Step(t).op = "do", prog' = prog,
             at' = [at EXCEPT ![t] = @ + 1], atomicSem' = atomicSem
      PROVE  Gate' /\ Balance' /\ atomicSem' \in Nat
  <2>1. Gone("get")' = Gone("get") /\ Gone("put")' = Gone("put") /\ (Wrapped' <=> Wrapped)
    BY <1>2, AdvanceIs DEF Wrapped
  <2>2. Wrapped => \A u \in Thread : Block(u)' <=> Block(u)
    BY <1>2, AdvanceIs, WrappedIs DEF Opens, Closes
  <2>3. QED
    BY <1>0, <1>2, <2>1, <2>2 DEF Gate, Balance
<1>3. ASSUME NEW t \in Thread, EnterAtomic(t)
      PROVE  Gate' /\ Balance' /\ atomicSem' \in Nat
  <2>1. /\ prog' = prog /\ ~Done(t) /\ at' = [at EXCEPT ![t] = @ + 1] /\ Step(t).op = "get"
        /\ atomicSem > 0 /\ atomicSem' = atomicSem - 1
    BY <1>3, AtomicMoves DEF EnterAtomic, At
  <2>2. /\ Gone("get")' = Gone("get") \cup {<<t, at[t]>>} /\ <<t, at[t]>> \notin Gone("get")
        /\ Gone("put")' = Gone("put") /\ (Wrapped' <=> Wrapped)
        /\ \A u \in Thread \ {t} : Block(u)' <=> Block(u)
    BY <2>1, AdvanceIs DEF Wrapped
  <2>3. Cardinality(Gone("get")') = Cardinality(Gone("get")) + 1
    BY <1>0, <2>2, FS_AddElement
  <2>4. Balance'
    BY <1>0, <2>1, <2>2, <2>3 DEF Balance
  <2>5. Gate'
    BY <1>0, <2>1, <2>2 DEF Gate
  <2>6. QED
    BY <1>0, <2>1, <2>4, <2>5
<1>4. ASSUME NEW t \in Thread, LeaveAtomic(t)
      PROVE  Gate' /\ Balance' /\ atomicSem' \in Nat
  <2>1. /\ prog' = prog /\ ~Done(t) /\ at' = [at EXCEPT ![t] = @ + 1] /\ Step(t).op = "put"
        /\ atomicSem' = atomicSem + 1
    BY <1>4, AtomicMoves DEF LeaveAtomic, At
  <2>2. /\ Gone("put")' = Gone("put") \cup {<<t, at[t]>>} /\ <<t, at[t]>> \notin Gone("put")
        /\ Gone("get")' = Gone("get") /\ (Wrapped' <=> Wrapped)
        /\ \A u \in Thread \ {t} : Block(u)' <=> Block(u)
        /\ Block(t)' <=> Opens(Step(t))
    BY <2>1, AdvanceIs DEF Wrapped
  <2>3. Cardinality(Gone("put")') = Cardinality(Gone("put")) + 1
    BY <1>0, <2>2, FS_AddElement
  <2>4. Balance'
    BY <1>0, <2>1, <2>2, <2>3 DEF Balance
  <2>5. ~Opens(Step(t))
    <3>1. PICK scn \in Scenario : prog = Program(scn)
      BY DEF Rest
    <3>2. at[t] \in DOMAIN prog[t] /\ Step(t) = prog[t][at[t]]
      BY <2>1, AdvanceIs
    <3>3. Step(t).atomic => Step(t).op = "do"
      BY <3>1, <3>2, AtomicAssumption
    <3>4. QED
      BY <2>1, <3>3 DEF Opens
  <2>6. Wrapped => Block(t)
    BY <2>1, WrappedIs DEF Closes
  <2>7. Gate'
    BY <1>0, <2>1, <2>2, <2>5, <2>6 DEF Gate
  <2>8. QED
    BY <1>0, <2>1, <2>4, <2>7
<1>5. ASSUME NEW t \in Thread, Solve(t) \/ Lock(t) \/ Mark(t) \/ Share(t)
      PROVE  Gate' /\ Balance' /\ atomicSem' \in Nat
  BY <1>1, <1>5 DEF Solve, Lock, Mark, Share
<1>6. ASSUME NEW t \in Thread, Body(t) \/ Release(t)
      PROVE  Gate' /\ Balance' /\ atomicSem' \in Nat
  <2>1. /\ prog' = prog /\ ~Done(t) /\ Step(t).op = "do"
        /\ at' = at \/ at' = [at EXCEPT ![t] = @ + 1]
    BY <1>6, BodyMoves, ReleasePasses
  <2>2. atomicSem' = atomicSem
    BY <1>6 DEF Body, Release
  <2>3. QED
    BY <1>1, <1>2, <2>1, <2>2
<1>7. CASE UNCHANGED vars
  BY <1>1, <1>7 DEF vars, threadVars
<1>8. QED
  BY <1>3, <1>4, <1>5, <1>6, <1>7 DEF Next, Run

-----------------------------------------------------------------------------
\* Before the fork the pools are as they were built.
LEMMA InitJoin == Init => JoinInv
<1> SUFFICES ASSUME Init PROVE JoinInv
  OBVIOUS
<1>1. LockInv
  BY InitLocks
<1>2. \A t \in Thread : phase[t] = "next" /\ at[t] = 1 /\ granted[t] = {}
  BY DEF Init
<1>3. Rest
  BY <1>2 DEF Rest, Init, New
<1>4. Flags
  BY DEF Flags, Init, New
<1>5. Granted
  BY <1>2 DEF Granted
<1>6. SharesCovered
  <2>1. \A i : Sharers(i) = {}
    BY <1>2 DEF Sharers
  <2>2. \A i \in Instance : Cardinality(Sharers(i)) = 0
    BY <2>1, FS_EmptySet
  <2>3. \A i \in Instance : shareCount[i] = 0
    BY DEF Init, New
  <2>4. QED
    BY <2>2, <2>3 DEF SharesCovered
<1>7. Gate
  <2>1. \A t \in Thread : ~Block(t)
    <3> TAKE t \in Thread
    <3>1. at[t] - 1 = 0 /\ 0 \notin DOMAIN prog[t]
      BY <1>1, <1>2 DEF LockInv, Typing
    <3>2. QED
      BY <3>1 DEF Block
  <2>2. QED
    BY <2>1 DEF Gate, Init
<1>8. Balance
  <2>1. ASSUME NEW o PROVE Gone(o) = {}
    <3>1. \A u, n : <<u, n>> \notin Gone(o)
      <4> SUFFICES ASSUME NEW u, NEW n, <<u, n>> \in Gone(o) PROVE FALSE
        OBVIOUS
      <4>1. u \in Thread /\ n \in DOMAIN prog[u] /\ n < at[u]
        BY <1>1, GoneIs
      <4>2. n \in 1 .. Len(prog[u]) /\ at[u] = 1
        BY <1>1, <1>2, <4>1 DEF LockInv, Typing
      <4>3. QED
        BY <4>1, <4>2
    <3>2. QED
      BY <1>1, <3>1, GoneIs
  <2>2. QED
    BY <2>1, FS_EmptySet DEF Balance, Init
<1>9. QED
  BY <1>1, <1>3, <1>4, <1>5, <1>6, <1>7, <1>8 DEF JoinInv

\* Every step keeps the types.
LEMMA RestKept ==
  ASSUME JoinInv, [Next]_vars
  PROVE  Rest'
<1> USE DEF JoinInv
<1>1. /\ shareCount' \in [Instance -> Nat] /\ granted' \in [Thread -> SUBSET Nat] /\ atomicSem' \in Nat
  BY SharesKept, GrantedKept, GateKept
<1>2. prog' = prog
  BY DEF Next, Run, Solve, Lock, Mark, Share, Body, Release, EnterAtomic, LeaveAtomic, vars
<1>3. lockHeld' \in [Instance -> BOOLEAN]
  <2>1. lockHeld \in [Instance -> BOOLEAN]
    BY DEF Rest
  <2>2. \A i : [lockHeld EXCEPT ![i] = TRUE] \in [Instance -> BOOLEAN] /\ [lockHeld EXCEPT ![i] = FALSE] \in [Instance -> BOOLEAN]
    BY <2>1
  <2>3. ASSUME NEW t \in Thread, Run(t) PROVE lockHeld' \in [Instance -> BOOLEAN]
    BY <2>1, <2>2, <2>3 DEF Run, Solve, Lock, LockGet, Mark, LockMark, Share, TryShare, Body, Release, Unlock, Unshare,
                            EnterAtomic, LeaveAtomic, poolVars
  <2>4. QED
    BY <2>1, <2>3 DEF Next, vars, poolVars
<1>4. ASSUME NEW t \in Thread, \A u \in Thread \ {t} : Same(u),
             phase'[t] = "body" => k'[t] \in DOMAIN Claims(t)' \cup {1}
      PROVE  \A u \in Thread : phase'[u] = "body" => k'[u] \in DOMAIN Claims(u)' \cup {1}
  <2>1. \A u \in Thread \ {t} : Claims(u)' = Claims(u) /\ phase'[u] = phase[u] /\ k'[u] = k[u]
    BY <1>2, <1>4, Still DEF Same
  <2>2. \A u \in Thread \ {t} : phase'[u] = "body" => k'[u] \in DOMAIN Claims(u)' \cup {1}
    BY <2>1 DEF Rest
  <2>3. QED
    BY <1>4, <2>2
<1>5. \A u \in Thread : phase'[u] = "body" => k'[u] \in DOMAIN Claims(u)' \cup {1}
  <2>1. ASSUME NEW t \in Thread, Solve(t)
        PROVE  \A u \in Thread : phase'[u] = "body" => k'[u] \in DOMAIN Claims(u)' \cup {1}
    BY <1>4, <2>1, SolveMoves
  <2>2. ASSUME NEW t \in Thread, Lock(t)
        PROVE  \A u \in Thread : phase'[u] = "body" => k'[u] \in DOMAIN Claims(u)' \cup {1}
    BY <1>4, <2>2, LockMoves
  <2>3. ASSUME NEW t \in Thread, Mark(t) \/ Share(t)
        PROVE  \A u \in Thread : phase'[u] = "body" => k'[u] \in DOMAIN Claims(u)' \cup {1}
    <3>1. phase'[t] = "body" => k'[t] \in DOMAIN Claims(t)'
      BY <2>3, AcquirePasses
    <3>2. QED
      BY <1>4, <2>3, <3>1, AcquirePasses
  <2>4. ASSUME NEW t \in Thread, Body(t)
        PROVE  \A u \in Thread : phase'[u] = "body" => k'[u] \in DOMAIN Claims(u)' \cup {1}
    BY <1>4, <2>4, BodyMoves
  <2>5. ASSUME NEW t \in Thread, Release(t)
        PROVE  \A u \in Thread : phase'[u] = "body" => k'[u] \in DOMAIN Claims(u)' \cup {1}
    BY <1>4, <2>5, ReleasePasses
  <2>6. ASSUME NEW t \in Thread, EnterAtomic(t) \/ LeaveAtomic(t)
        PROVE  \A u \in Thread : phase'[u] = "body" => k'[u] \in DOMAIN Claims(u)' \cup {1}
    BY <1>4, <2>6, AtomicMoves
  <2>7. CASE UNCHANGED vars
    BY <2>7 DEF vars, threadVars, Rest, Claims, Step
  <2>8. QED
    BY <2>1, <2>2, <2>3, <2>4, <2>5, <2>6, <2>7 DEF Next, Run
<1>6. prog' \in {Program(scn) : scn \in Scenario}
  BY <1>2 DEF Rest
<1>7. QED
  BY <1>1, <1>3, <1>5, <1>6 DEF Rest, Instance, Ids

\* Every step keeps the invariant.
LEMMA NextJoin == JoinInv /\ [Next]_vars => JoinInv'
<1> SUFFICES ASSUME JoinInv, [Next]_vars PROVE JoinInv'
  OBVIOUS
<1>1. Rest'
  BY RestKept
<1>2. LockInv /\ Rest /\ Flags /\ Granted /\ SharesCovered /\ Gate /\ Balance
  BY DEF JoinInv
<1>3. LockInv'
  BY <1>2, NextLocks
<1>4. Flags' /\ Granted' /\ SharesCovered' /\ Gate' /\ Balance'
  BY <1>2, FlagsKept, GrantedKept, SharesKept, GateKept
<1>5. QED
  BY <1>1, <1>3, <1>4 DEF JoinInv

\* So it holds throughout.
LEMMA JoinInvariance == Spec => []JoinInv
BY InitJoin, NextJoin, PTL DEF Spec

\* What it says when every thread is done: nothing is owned or shared, and
\* the gets and puts that have gone are all there are.
LEMMA DoneReleases == JoinInv /\ AllDone => AllFree
<1> SUFFICES ASSUME JoinInv, \A t \in Thread : Done(t)
             PROVE  /\ \A i \in Instance : ~lockHeld[i] /\ shareCount[i] = 0 /\ lockSem[i] = 1
                    /\ atomicSem = 1
  BY DEF AllDone, AllFree
<1> USE DEF JoinInv
<1>1. \A t \in Thread : phase[t] = "next"
  BY DEF LockInv, Position, Inside
<1>2. \A t \in Thread : Locks(t) = {} /\ granted[t] = {}
  BY <1>1, NextHoldsNothing DEF Granted
<1>3. ASSUME NEW i \in Instance PROVE ~lockHeld[i] /\ lockSem[i] = 1
  <2>1. ~Owned(i)
    BY <1>2 DEF Owned
  <2>2. lockSem[i] \in Nat /\ lockSem[i] # 0 /\ lockSem[i] <= 1 /\ ~lockHeld[i]
    BY <1>3, <2>1 DEF Flags, LockInv, Tokens, Typing
  <2>3. QED
    BY <2>2
<1>4. ASSUME NEW i \in Instance PROVE shareCount[i] = 0
  <2>1. Sharers(i) = {}
    BY <1>2 DEF Sharers
  <2>2. Cardinality(Sharers(i)) = 0
    BY <2>1, FS_EmptySet
  <2>3. shareCount[i] \in Nat /\ shareCount[i] <= 0
    BY <1>4, <2>2 DEF SharesCovered, Rest
  <2>4. QED
    BY <2>3
<1>5. ASSUME NEW o PROVE Gone(o) = Places(prog, o)
  <2>1. \A t \in Thread : \A n \in DOMAIN prog[t] : n < at[t]
    BY DEF Done, LockInv, Typing
  <2>2. \A s \in Places(prog, o) : s[1] \in Thread /\ s[2] \in DOMAIN prog[s[1]]
    BY DEF Places
  <2>3. QED
    BY <2>1, <2>2 DEF Gone
<1>6. Cardinality(Places(prog, "get")) = Cardinality(Places(prog, "put"))
  BY AtomicAssumption DEF Rest
<1>7. atomicSem = 1
  BY <1>5, <1>6, GoneIs DEF Balance, Rest
<1>8. QED
  BY <1>3, <1>4, <1>7

\* What it says of two atomic blocks.
LEMMA GateSerial == JoinInv => WrappedAtomicSerial
<1> SUFFICES ASSUME JoinInv, Wrapped, NEW t \in Thread, NEW u \in Thread, InAtomic(t), InAtomic(u)
             PROVE  t = u
  BY DEF WrappedAtomicSerial, AtomicSerial
<1>1. Block(t) /\ Block(u)
  BY WrappedIs DEF JoinInv, InAtomic, Closes
<1>2. QED
  BY <1>1 DEF JoinInv, Gate

-----------------------------------------------------------------------------
\* Every reachable state is well typed: no counter or semaphore of a pool, nor
\* the semaphore of the component, goes below zero.
THEOREM TypeCorrect == Spec => []TypeOK
<1>1. JoinInv => TypeOK
  <2> SUFFICES ASSUME JoinInv PROVE TypeOK
    OBVIOUS
  <2> USE DEF JoinInv
  <2>1. \A t \in Thread : phase[t] # "next" => ~Done(t) /\ k[t] \in DOMAIN Claims(t) \cup {1}
    BY DEF LockInv, Position, Inside, Typing, Phase, Rest
  <2>2. QED
    BY <2>1 DEF TypeOK, LockInv, Typing, Rest
<1>2. QED
  BY <1>1, JoinInvariance, PTL

\* A pool's share count never exceeds the shares that try_share() granted and
\* that are not yet given back, although a refused claim is given back too.
THEOREM SharesAreCovered == Spec => []SharesCovered
<1>1. JoinInv => SharesCovered
  BY DEF JoinInv
<1>2. QED
  BY <1>1, JoinInvariance, PTL

\* Atomic blocks that stand in sequences are never run in two threads at once.
THEOREM AtomicBlocksAreSerial == Spec => []WrappedAtomicSerial
BY GateSerial, JoinInvariance, PTL

-----------------------------------------------------------------------------
(* Sorting *)

\* A set of finite sets that has one which contains no other of them.
HasLeast(X) == \E T \in X : \A U \in X : U \subseteq T => U = T

\* The subsets of a finite set: of any set of them.
LEMMA LeastSubset ==
  ASSUME NEW S, IsFiniteSet(S), NEW X \in SUBSET SUBSET S, X # {}
  PROVE  HasLeast(X)
<1>1. IsWellFoundedOn(StrictSubsetOrdering(S), FiniteSubsetsOf(S))
  BY FS_StrictSubsetOrderingWellFounded
<1>2. X \subseteq FiniteSubsetsOf(S)
  BY FS_FiniteSubsetsOfFinite
<1>3. PICK T \in X : \A U \in X : ~ (<<U, T>> \in StrictSubsetOrdering(S))
  BY <1>1, <1>2, WFMin
<1>4. ASSUME NEW U \in X, U \subseteq T PROVE U = T
  <2>1. <<U, T>> \in (SUBSET S) \X (SUBSET S)
    OBVIOUS
  <2>2. QED
    BY <1>3, <1>4, <2>1 DEF StrictSubsetOrdering
<1>5. QED
  BY <1>4 DEF HasLeast

\* A finite set of integers has a largest.
LEMMA Largest ==
  ASSUME NEW S, IsFiniteSet(S), S \subseteq Int, S # {}
  PROVE  \E m \in S : \A n \in S : n <= m
<1> DEFINE X == {T \in SUBSET S : T # {} /\ \A m \in T : \E n \in T : m < n}
<1> SUFFICES ASSUME X # {} PROVE FALSE
  <2>1. S \notin X
    OBVIOUS
  <2>2. QED
    BY <2>1
<1>1. PICK T \in X : \A U \in X : U \subseteq T => U = T
  <2>1. X \in SUBSET SUBSET S
    OBVIOUS
  <2> HIDE DEF X
  <2>2. HasLeast(X)
    BY <2>1, LeastSubset
  <2>3. QED
    BY <2>2 DEF HasLeast
<1>2. PICK m \in T : TRUE
  OBVIOUS
<1>3. PICK n \in T : m < n
  OBVIOUS
<1>4. T \ {m} \notin X
  BY <1>1, <1>2
<1>5. PICK l \in T \ {m} : \A j \in T \ {m} : ~ (l < j)
  BY <1>3, <1>4
<1>6. ~ (l < m)
  BY <1>3, <1>5
<1>7. QED
  BY <1>5, <1>6

\* What a sorted list of claims is, and the claims that can be sorted: the
\* fields of an action have names of their own.
InOrder(s) == \A m, n \in DOMAIN s : m < n => Before(s[m], s[n])
Sortable(cs) == /\ IsFiniteSet(cs)
                /\ \A c \in cs : c.pool \in Int /\ c.field \in Int
                /\ \A c, d \in cs : c.field = d.field => c = d

\* The values a function takes on a finite set are finitely many.
LEMMA FiniteImage ==
  ASSUME NEW S, IsFiniteSet(S), NEW f, DOMAIN f = S
  PROVE  IsFiniteSet({f[x] : x \in S})
<1>1. [x \in S |-> f[x]] \in Surjection(S, {f[x] : x \in S})
  BY DEF Surjection
<1>2. QED
  BY <1>1, FS_Surjection

\* One of them comes after all the others.
LEMMA LastClaim ==
  ASSUME NEW cs, Sortable(cs), cs # {}
  PROVE  \E m \in cs : \A c \in cs \ {m} : Before(c, m)
<1>0. PICK pool : pool = [c \in cs |-> c.pool]
  OBVIOUS
<1> DEFINE P == {pool[d] : d \in cs}
<1>1. IsFiniteSet(P)
  <2>1. IsFiniteSet(cs) /\ DOMAIN pool = cs
    BY <1>0 DEF Sortable
  <2>2. QED
    BY <2>1, FiniteImage
<1>2. P \subseteq Int /\ P # {}
  BY <1>0 DEF Sortable
<1>3. PICK p \in P : \A q \in P : q <= p
  <2> HIDE DEF P
  <2>1. QED
    BY <1>1, <1>2, Largest
<1> DEFINE T == {c \in cs : c.pool = p}
<1>4. IsFiniteSet(T) /\ T # {}
  BY <1>0, FS_Subset DEF Sortable
<1>11. PICK field : field = [c \in T |-> c.field]
  OBVIOUS
<1> DEFINE F == {field[d] : d \in T}
<1>5. IsFiniteSet(F)
  <2>1. DOMAIN field = T
    BY <1>11
  <2> HIDE DEF T
  <2>2. QED
    BY <1>4, <2>1, FiniteImage
<1>6. F \subseteq Int /\ F # {}
  <2>1. \A d \in T : field[d] \in Int
    BY <1>11 DEF Sortable
  <2>2. PICK d \in T : TRUE
    BY <1>4
  <2>3. QED
    BY <2>1, <2>2
<1>7. PICK f \in F : \A g \in F : g <= f
  <2> HIDE DEF F
  <2>1. QED
    BY <1>5, <1>6, Largest
<1>8. PICK m \in T : m.field = f
  BY <1>11
<1>9. ASSUME NEW c \in cs \ {m} PROVE Before(c, m)
  <2>1. c.pool \in P /\ c.pool \in Int /\ c.field \in Int /\ m.field \in Int /\ m.pool = p /\ p \in Int
    BY <1>0 DEF Sortable
  <2>2. c.pool <= p
    BY <1>3, <2>1
  <2>3. c.field # m.field
    BY <1>9 DEF Sortable
  <2>4. c.pool = p => c.field <= f
    BY <1>7, <1>11
  <2>5. QED
    BY <1>8, <2>1, <2>2, <2>3, <2>4 DEF Before
<1>10. QED
  BY <1>9

\* SortedClaims() is sorted.
LEMMA SortedIsSorted ==
  ASSUME NEW cs, Sortable(cs)
  PROVE  SortedClaims(cs) \in [1 .. Cardinality(cs) -> cs] /\ InOrder(SortedClaims(cs))
<1> DEFINE Sorts(T) == \E s \in [1 .. Cardinality(T) -> T] : InOrder(s)
           X == {T \in SUBSET cs : ~Sorts(T)}
<1>1. X = {}
  <2> SUFFICES ASSUME X # {} PROVE FALSE
    OBVIOUS
  <2>1. PICK T \in X : \A U \in X : U \subseteq T => U = T
    <3>1. X \in SUBSET SUBSET cs
      OBVIOUS
    <3> HIDE DEF X
    <3>2. HasLeast(X)
      BY <3>1, LeastSubset DEF Sortable
    <3>3. QED
      BY <3>2 DEF HasLeast
  <2>2. IsFiniteSet(T) /\ Sortable(T) /\ T \subseteq cs /\ ~Sorts(T)
    BY FS_Subset DEF Sortable
  <2>3. T # {}
    <3> SUFFICES ASSUME T = {} PROVE FALSE
      OBVIOUS
    <3>1. Cardinality(T) = 0 /\ 1 .. 0 = {}
      BY FS_EmptySet
    <3>2. <<>> \in [1 .. Cardinality(T) -> T] /\ InOrder(<<>>)
      BY <3>1 DEF InOrder
    <3>3. QED
      BY <2>2, <3>2
  <2>4. PICK m \in T : \A c \in T \ {m} : Before(c, m)
    BY <2>2, <2>3, LastClaim
  <2>5. T \ {m} \subseteq cs /\ T \ {m} # T
    BY <2>2
  <2>6. Sorts(T \ {m})
    BY <2>1, <2>5
  <2>7. PICK N \in Nat : N = Cardinality(T)
    BY <2>2, FS_CardinalityType
  <2>8. Cardinality(T \ {m}) = N - 1 /\ N >= 1
    BY <2>2, <2>3, <2>7, FS_RemoveElement, FS_EmptySet
  <2>9. PICK s \in [1 .. N - 1 -> T \ {m}] : InOrder(s)
    BY <2>6, <2>8
  <2> DEFINE r == [n \in 1 .. N |-> IF n < N THEN s[n] ELSE m]
  <2>10. r \in [1 .. N -> T]
    BY <2>8
  <2>11. ASSUME NEW a \in 1 .. N, NEW b \in 1 .. N, a < b PROVE Before(r[a], r[b])
    <3>1. a \in 1 .. N - 1 /\ r[a] = s[a]
      BY <2>11
    <3>2. CASE b = N
      BY <2>4, <2>9, <3>1, <3>2
    <3>3. CASE b # N
      <4>1. b \in 1 .. N - 1 /\ r[b] = s[b]
        BY <3>3
      <4>2. QED
        BY <2>9, <2>11, <3>1, <4>1 DEF InOrder
    <3>4. QED
      BY <3>2, <3>3
  <2>12. InOrder(r)
    BY <2>11 DEF InOrder
  <2> HIDE DEF r
  <2>13. QED
    BY <2>2, <2>7, <2>10, <2>12
<1>2. Sorts(cs)
  <2> HIDE DEF Sorts
  <2>1. QED
    BY <1>1
<1>3. QED
  BY <1>2 DEF SortedClaims, InOrder

-----------------------------------------------------------------------------
(* Nothing waits for ever *)

\* The claims of the operation a thread is at are sorted, so that what it waits
\* for is behind what it has passed; of two instances it locks, in a larger pool.
LEMMA ClaimsAreSorted ==
  ASSUME LockInv, Rest, NEW t \in Thread, ~Done(t)
  PROVE  /\ InOrder(Claims(t))
         /\ \A n \in DOMAIN Claims(t) : Claims(t)[n].pool \in Int /\ Claims(t)[n].field \in Int
<1>1. PICK scn \in Scenario : prog = Program(scn)
  BY DEF Rest
<1>2. at[t] \in DOMAIN prog[t] /\ Step(t) = prog[t][at[t]]
  BY DEF LockInv, Typing, Done, Step
<1>3. PICK cs : cs = Claims(t)
  OBVIOUS
<1>4. cs = SortedClaims(Range(cs)) /\ \A c, d \in Range(cs) : c.field = d.field => c = d
  BY <1>1, <1>2, <1>3, ClaimsAssumption DEF Claims
<1>5. cs \in Seq([pool : Pool, field : Nat, kind : {"lock", "share"}]) /\ DOMAIN cs = 1 .. Len(cs) /\ Len(cs) \in Nat
  BY <1>3, AtOperation DEF LockInv
<1>6. \A n \in DOMAIN cs : cs[n].pool \in Int /\ cs[n].field \in Int
  <2> DEFINE R == [pool : Pool, field : Nat, kind : {"lock", "share"}]
  <2>1. \A c \in R : c.pool \in Pool /\ c.field \in Nat
    OBVIOUS
  <2>2. cs \in Seq(R)
    BY <1>5
  <2> HIDE DEF R
  <2>3. \A n \in DOMAIN cs : cs[n] \in R
    BY <2>2
  <2>4. \A n \in DOMAIN cs : cs[n].pool \in Pool /\ cs[n].field \in Nat
    BY <2>1, <2>3
  <2>5. \A p \in Pool : p \in Int
    BY PoolAssumption
  <2>6. QED
    BY <2>4, <2>5
<1>7. Sortable(Range(cs))
  <2>1. IsFiniteSet(DOMAIN cs)
    <3>1. 1 \in Int /\ Len(cs) \in Int
      BY <1>5
    <3>2. QED
      BY <1>5, <3>1, FS_Interval
  <2>2. IsFiniteSet(Range(cs))
    BY <2>1, FiniteImage DEF Range
  <2>3. QED
    BY <1>4, <1>6, <2>2 DEF Sortable, Range
<1>8. InOrder(cs)
  BY <1>4, <1>7, SortedIsSorted
<1>9. QED
  BY <1>3, <1>6, <1>8

\* The thread waits for a lock.
WaitsLock(t) == At(t, "do", "acquire") /\ Claim(t).kind = "lock" /\ lockSem[Res(t, k[t])] = 0

\* What it waits for belongs to a thread that, if it waits too, waits for an
\* instance of a larger pool.
LEMMA OwnerIsAhead ==
  ASSUME JoinInv, OneLockPerPool, NEW t \in Thread, WaitsLock(t)
  PROVE  \E u \in Thread : /\ ~Done(u)
                           /\ Waits(u) => WaitsLock(u) /\ Claim(t).pool < Claim(u).pool
<1> USE DEF JoinInv
<1> DEFINE i == Res(t, k[t])
<1>1. phase[t] = "acquire" /\ Inside(t) /\ k[t] \in DOMAIN Claims(t) /\ i \in Instance /\ lockSem[i] = 0
  BY DEF WaitsLock, At, LockInv, Position, Inside
<1>2. PICK u \in Thread : \E n \in Locks(u) : Res(u, n) = i
  BY <1>1 DEF Flags, Owned
<1>3. PICK n \in Locks(u) : Res(u, n) = i
  BY <1>2
<1>4. n \in Passed(u) /\ Claims(u)[n].kind = "lock" /\ phase[u] # "next" /\ n \in DOMAIN Claims(u)
  BY <1>3 DEF Locks, Passed
<1>5. Inside(u) /\ ~Done(u)
  BY <1>4 DEF LockInv, Position, Inside
<1>6. Claims(u)[n].pool = Claim(t).pool
  BY <1>3 DEF Res, Claim
<1>7. ASSUME Waits(u) PROVE WaitsLock(u) /\ Claim(t).pool < Claim(u).pool
  <2>1. WaitsLock(u)
    BY <1>4, <1>7 DEF Waits, WaitsLock, At
  <2>2. phase[u] = "acquire" /\ n < k[u] /\ k[u] \in DOMAIN Claims(u) /\ Claim(u).kind = "lock"
    BY <1>4, <1>5, <2>1 DEF WaitsLock, At, Passed, Inside
  <2>3. PICK m : m = k[u]
    OBVIOUS
  <2>4. Before(Claims(u)[n], Claims(u)[m])
    BY <1>4, <1>5, <2>2, <2>3, ClaimsAreSorted DEF InOrder
  <2>5. Claims(u)[n].pool # Claims(u)[m].pool
    <3>1. at[u] \in DOMAIN prog[u] /\ Claims(u) = prog[u][at[u]].claims
      BY <1>5 DEF LockInv, Typing, Done, Step, Claims
    <3>2. n \in Nat /\ m \in Nat /\ n # m
      BY <1>4, <1>5, <2>2, <2>3, AtOperation DEF LockInv
    <3>3. QED
      BY <1>4, <2>2, <2>3, <3>1, <3>2 DEF OneLockPerPool, Claim
  <2>6. Claims(u)[n].pool < Claims(u)[m].pool
    BY <2>4, <2>5 DEF Before
  <2>7. QED
    BY <1>6, <2>1, <2>3, <2>6 DEF Claim
<1>8. QED
  BY <1>5, <1>7

\* So if all wait that are not done, none waits for a lock.
LEMMA NoneWaitsLock ==
  ASSUME JoinInv, OneLockPerPool, \A t \in Thread : Done(t) \/ Waits(t)
  PROVE  \A t \in Thread : ~WaitsLock(t)
<1> DEFINE W == {t \in Thread : WaitsLock(t)}
<1> SUFFICES ASSUME W # {} PROVE FALSE
  OBVIOUS
<1>1. PICK pool : pool = [t \in W |-> Claim(t).pool]
  OBVIOUS
<1> DEFINE P == {pool[t] : t \in W}
<1>2. IsFiniteSet(P)
  <2>1. IsFiniteSet(W)
    BY ThreadAssumption, FS_Subset
  <2>2. DOMAIN pool = W
    BY <1>1
  <2> HIDE DEF W
  <2>3. QED
    BY <2>1, <2>2, FiniteImage
<1>3. \A t \in W : pool[t] \in Int
  <2> SUFFICES ASSUME NEW t \in W PROVE pool[t] \in Int
    OBVIOUS
  <2>1. phase[t] = "acquire" /\ Inside(t)
    BY DEF WaitsLock, At, JoinInv, LockInv, Position
  <2>2. k[t] \in DOMAIN Claims(t) /\ ~Done(t)
    BY <2>1 DEF Inside
  <2>3. Claims(t)[k[t]].pool \in Int
    BY <2>2, ClaimsAreSorted DEF JoinInv
  <2>4. QED
    BY <1>1, <2>3 DEF Claim
<1>4. P \subseteq Int /\ P # {}
  BY <1>3
<1>5. PICK p \in P : \A q \in P : q <= p
  <2> HIDE DEF P
  <2>1. QED
    BY <1>2, <1>4, Largest
<1>6. PICK t \in W : pool[t] = p
  OBVIOUS
<1>7. PICK u \in Thread : WaitsLock(u) /\ Claim(t).pool < Claim(u).pool
  BY OwnerIsAhead
<1>8. u \in W /\ pool[u] = Claim(u).pool /\ pool[t] = Claim(t).pool /\ pool[u] \in P
  BY <1>1, <1>7
<1>9. pool[u] <= p /\ pool[u] \in Int /\ p \in Int
  BY <1>3, <1>5, <1>6, <1>8
<1>10. QED
  BY <1>6, <1>7, <1>8, <1>9

\* The gets and puts that are still to come.
Left(o) == Places(prog, o) \ Gone(o)

LEMMA LeftIs ==
  ASSUME LockInv, NEW o
  PROVE  /\ Left(o) = {s \in Places(prog, o) : s[2] >= at[s[1]]}
         /\ \A u, n : <<u, n>> \in Left(o) <=> u \in Thread /\ n \in DOMAIN prog[u] /\ prog[u][n].op = o /\ n >= at[u]
         /\ \A s \in Left(o) : s = <<s[1], s[2]>>
         /\ IsFiniteSet(Left(o))
         /\ Cardinality(Left(o)) = Cardinality(Places(prog, o)) - Cardinality(Gone(o))
<1>1. \A s : s \in Places(prog, o) <=> \E u \in Thread : \E n \in DOMAIN prog[u] : s = <<u, n>> /\ prog[u][n].op = o
  BY DEF Places
<1>2. \A u \in Thread : at[u] \in Nat /\ \A n \in DOMAIN prog[u] : n \in Nat
  BY DEF LockInv, Typing
<1>3. Left(o) = {s \in Places(prog, o) : s[2] >= at[s[1]]}
  BY <1>1, <1>2 DEF Left, Gone
<1>4. \A u, n : <<u, n>> \in Left(o) <=> u \in Thread /\ n \in DOMAIN prog[u] /\ prog[u][n].op = o /\ n >= at[u]
  BY <1>1, <1>3
<1>5. \A s \in Left(o) : s = <<s[1], s[2]>>
  BY <1>1, <1>3
<1>6. IsFiniteSet(Left(o)) /\ Cardinality(Left(o)) = Cardinality(Places(prog, o)) - Cardinality(Gone(o))
  <2>1. IsFiniteSet(Places(prog, o)) /\ Gone(o) \subseteq Places(prog, o)
    BY PlacesFinite DEF Gone
  <2>2. Places(prog, o) \cap Gone(o) = Gone(o)
    BY <2>1
  <2>3. /\ IsFiniteSet(Left(o))
        /\ Cardinality(Left(o)) = Cardinality(Places(prog, o)) - Cardinality(Places(prog, o) \cap Gone(o))
    BY <2>1, FS_Difference DEF Left
  <2>4. QED
    BY <2>2, <2>3
<1>7. QED
  BY <1>3, <1>4, <1>5, <1>6

\* If every thread that is not done waits for the component's semaphore, then
\* every put to come has a get of its own to come before it.
LEMMA PutsBehindGets ==
  ASSUME LockInv, Rest, \A t \in Thread : Done(t) \/ At(t, "get", "next")
  PROVE  Cardinality(Left("put")) <= Cardinality(Left("get"))
<1> DEFINE Ok(s, m) == /\ m \in Nat /\ m < s[2] /\ <<s[1], m>> \in Left("get")
                       /\ \A j \in m + 1 .. s[2] - 1 : prog[s[1]][j].op # "put"
<1>1. ASSUME NEW s \in Left("put") PROVE \E m : Ok(s, m)
  <2>1. PICK u, n : s = <<u, n>> /\ u = s[1] /\ n = s[2]
    BY LeftIs
  <2>2. u \in Thread /\ n \in DOMAIN prog[u] /\ prog[u][n].op = "put" /\ n >= at[u]
    BY <2>1, LeftIs
  <2>3. at[u] \in Nat \ {0} /\ DOMAIN prog[u] = 1 .. Len(prog[u]) /\ Len(prog[u]) \in Nat
    BY <2>2 DEF LockInv, Typing
  <2>4. ~Done(u)
    BY <2>2, <2>3 DEF Done
  <2>5. prog[u][at[u]].op = "get"
    BY <2>2, <2>4 DEF At, Step
  <2>6. at[u] < n /\ at[u] \in DOMAIN prog[u] /\ <<u, at[u]>> \in Left("get")
    BY <2>2, <2>3, <2>5, LeftIs
  <2>7. Follows(prog[u], n)
    <3>1. PICK scn \in Scenario : prog = Program(scn)
      BY DEF Rest
    <3>2. \A t \in Thread : \A j \in DOMAIN Program(scn)[t] :
              Program(scn)[t][j].op = "put" => Follows(Program(scn)[t], j)
      BY PutsAssumption
    <3>3. QED
      BY <2>2, <3>1, <3>2
  <2>8. PICK m \in 1 .. n - 1 : prog[u][m].op = "get" /\ \A j \in m + 1 .. n - 1 : prog[u][j].op # "put"
    BY <2>2, <2>3, <2>6, <2>7 DEF Follows
  <2>9. CASE m >= at[u]
    <3>1. <<u, m>> \in Left("get")
      BY <2>2, <2>3, <2>8, <2>9, LeftIs
    <3>2. Ok(s, m)
      BY <2>1, <2>2, <2>3, <2>8, <3>1
    <3>3. QED
      BY <3>2
  <2>10. CASE m < at[u]
    <3>1. \A j \in at[u] + 1 .. n - 1 : prog[u][j].op # "put"
      BY <2>2, <2>3, <2>8, <2>10
    <3>2. Ok(s, at[u])
      BY <2>1, <2>3, <2>6, <3>1
    <3>3. QED
      BY <3>2
  <2>11. QED
    BY <2>2, <2>3, <2>8, <2>9, <2>10
<1>2. PICK m : m = [s \in Left("put") |-> CHOOSE n : Ok(s, n)]
  OBVIOUS
<1>3. \A s \in Left("put") : Ok(s, m[s])
  <2> HIDE DEF Ok
  <2>1. QED
    BY <1>1, <1>2
<1>8. PICK get : get = [s \in Left("put") |-> <<s[1], m[s]>>]
  OBVIOUS
<1>4. get \in [Left("put") -> Left("get")]
  <2>1. \A s \in Left("put") : <<s[1], m[s]>> \in Left("get")
    BY <1>3
  <2>2. QED
    BY <1>8, <2>1
<1>5. ASSUME NEW s \in Left("put"), NEW r \in Left("put"), get[s] = get[r] PROVE s = r
  <2>1. s[1] = r[1] /\ m[s] = m[r]
    BY <1>5, <1>8
  <2>2. Ok(s, m[s]) /\ Ok(r, m[s])
    BY <1>3, <2>1
  <2>3. /\ s = <<s[1], s[2]>> /\ r = <<r[1], r[2]>>
        /\ s[2] \in Nat /\ r[2] \in Nat
        /\ prog[s[1]][s[2]].op = "put" /\ prog[r[1]][r[2]].op = "put"
    <3>1. \A q \in Left("put") : /\ q = <<q[1], q[2]>> /\ q[1] \in Thread
                                 /\ q[2] \in DOMAIN prog[q[1]] /\ prog[q[1]][q[2]].op = "put"
      BY LeftIs
    <3>2. \A u \in Thread : \A n \in DOMAIN prog[u] : n \in Nat
      BY DEF LockInv, Typing
    <3>3. QED
      BY <3>1, <3>2
  <2>4. ~ (s[2] < r[2])
    BY <2>1, <2>2, <2>3
  <2>5. ~ (r[2] < s[2])
    BY <2>1, <2>2, <2>3
  <2>6. s[2] = r[2]
    BY <2>3, <2>4, <2>5
  <2>7. QED
    BY <2>1, <2>3, <2>6
<1>6. get \in Injection(Left("put"), Left("get"))
  BY <1>4, <1>5 DEF Injection, IsInjective
<1>7. QED
  BY <1>6, LeftIs, FS_Injection

\* A fork always has a thread that can go on.
LEMMA NeverStuck == JoinInv => ForkNeverStuck
<1> SUFFICES ASSUME JoinInv, OneLockPerPool, \A t \in Thread : Done(t) \/ Waits(t), ~AllDone
             PROVE  FALSE
  BY DoneReleases DEF ForkNeverStuck
<1> USE DEF JoinInv
<1>1. \A t \in Thread : Done(t) \/ (At(t, "get", "next") /\ atomicSem = 0)
  BY NoneWaitsLock DEF Waits, WaitsLock
<1>2. atomicSem = 0
  BY <1>1 DEF AllDone
<1>3. Cardinality(Left("put")) <= Cardinality(Left("get"))
  BY <1>1, PutsBehindGets
<1>4. Cardinality(Places(prog, "get")) = Cardinality(Places(prog, "put"))
  BY AtomicAssumption DEF Rest
<1>5. /\ Cardinality(Gone("get")) \in Nat /\ Cardinality(Gone("put")) \in Nat
      /\ Cardinality(Places(prog, "get")) \in Nat
      /\ Cardinality(Left("get")) = Cardinality(Places(prog, "get")) - Cardinality(Gone("get"))
      /\ Cardinality(Left("put")) = Cardinality(Places(prog, "put")) - Cardinality(Gone("put"))
  BY GoneIs, LeftIs, PlacesFinite, FS_CardinalityType
<1>6. QED
  BY <1>2, <1>3, <1>4, <1>5 DEF Balance

\* A fork none of whose actions locks two instances of one pool never stops
\* before its join, and every fork leaves the pools and the semaphore of the
\* component as they were built: for any scenario, any number of threads and
\* any pools.
THEOREM ForksAreNeverStuck == Spec => []ForkNeverStuck
BY NeverStuck, JoinInvariance, PTL
=============================================================================
