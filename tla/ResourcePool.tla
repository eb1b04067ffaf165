---------------------------- MODULE ResourcePool ----------------------------
(***************************************************************************)
(* zsp_resource_pool of share/sv/zsp_rt_pkg.sv: the pools a generated      *)
(* SystemVerilog scenario claims resource instances from.  The functions   *)
(* of the class are atomic (SystemVerilog functions take no time); the     *)
(* task lock() is a semaphore get followed, in a later step of the thread  *)
(* that was granted it, by the assignment of lock_held.                    *)
(***************************************************************************)
EXTENDS Integers

CONSTANTS Pool,    \* the pools, ranked as the generator's names sort
          Cap      \* their sizes

ASSUME CapAssumption == Cap \in [Pool -> Nat \ {0}]

Ids(p) == 0 .. Cap[p] - 1
Instance == UNION {{p} \X Ids(p) : p \in Pool}

VARIABLES lockHeld, shareCount, lockSem

poolVars == <<lockHeld, shareCount, lockSem>>

\* new(pool_size)
New == /\ lockHeld = [i \in Instance |-> FALSE]
       /\ shareCount = [i \in Instance |-> 0]
       /\ lockSem = [i \in Instance |-> 1]

\* Faulty: force_lock's try_get, which does not wait.
LockGetForced(i) == /\ lockSem' = [lockSem EXCEPT ![i] = IF @ > 0 THEN @ - 1 ELSE 0]
                    /\ UNCHANGED <<lockHeld, shareCount>>

\* lock(id), first half: lock_sem[id].get(1) returns.
LockGet(i) == /\ lockSem[i] > 0
              /\ lockSem' = [lockSem EXCEPT ![i] = @ - 1]
              /\ UNCHANGED <<lockHeld, shareCount>>

\* lock(id), second half.
LockMark(i) == /\ lockHeld' = [lockHeld EXCEPT ![i] = TRUE]
               /\ UNCHANGED <<shareCount, lockSem>>

\* Faulty: the flag stays up.
UnlockSemOnly(i) == /\ lockSem' = [lockSem EXCEPT ![i] = @ + 1]
                    /\ UNCHANGED <<lockHeld, shareCount>>

Unlock(i) == /\ lockHeld' = [lockHeld EXCEPT ![i] = FALSE]
             /\ lockSem' = [lockSem EXCEPT ![i] = @ + 1]
             /\ UNCHANGED shareCount

\* Faulty: an instance that is shared can be locked.
CanLockShared(i) == ~lockHeld[i]

\* try_lock(id): whether it succeeds, and what it then does.
CanLock(i) == ~lockHeld[i] /\ shareCount[i] = 0
TryLock(i) == /\ lockHeld' = [lockHeld EXCEPT ![i] = CanLock(i) \/ @]
              /\ UNCHANGED <<shareCount, lockSem>>

\* Faulty: counts a refused claim too.
TryShareAlways(i) == /\ shareCount' = [shareCount EXCEPT ![i] = @ + 1]
                     /\ UNCHANGED <<lockHeld, lockSem>>

\* try_share(id), likewise.
CanShare(i) == ~lockHeld[i]
TryShare(i) == /\ shareCount' = [shareCount EXCEPT ![i] = IF CanShare(i) THEN @ + 1 ELSE @]
               /\ UNCHANGED <<lockHeld, lockSem>>

\* Faulty: not guarded against a claim that was refused.
UnshareUnguarded(i) == /\ shareCount' = [shareCount EXCEPT ![i] = @ - 1]
                       /\ UNCHANGED <<lockHeld, lockSem>>

Unshare(i) == /\ shareCount' = [shareCount EXCEPT ![i] = IF @ > 0 THEN @ - 1 ELSE @]
              /\ UNCHANGED <<lockHeld, lockSem>>

\* The first id in S, or -1.
FirstId(S) == IF S = {} THEN -1 ELSE CHOOSE n \in S : \A m \in S : n <= m

\* The ids claim() and claim_shared() return: the first instance the try
\* succeeds on.
ClaimId(p)       == FirstId({n \in Ids(p) : CanLock(<<p, n>>)})
ClaimSharedId(p) == FirstId({n \in Ids(p) : CanShare(<<p, n>>)})
=============================================================================
