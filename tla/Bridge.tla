-------------------------------- MODULE Bridge --------------------------------
(***************************************************************************)
(* The sv-dpi-bridge target running one action whose activity is a         *)
(* `parallel` of leaves that call blocking imports: the request mailbox of *)
(* share/c/zsp_bridge.c, the coroutines of the branches, and the           *)
(* trampoline task that targets/sw_tgt.py generates in SystemVerilog.      *)
(*                                                                         *)
(* A C function called from SystemVerilog runs to its end.  A thread of    *)
(* the simulator runs until it blocks, so the import tasks the trampoline  *)
(* forks run only while it waits - except that a simulator may start a     *)
(* forked thread at once (start = "eager") or, as IEEE 1800 9.3.2 has it,  *)
(* when its parent blocks (start = "lazy").  A DPI call that does not      *)
(* write an output may leave it alone or not (keeps).                      *)
(***************************************************************************)
EXTENDS Naturals, Sequences, FiniteSets

CONSTANTS Branch,    \* the leaves of the parallel
          Calls,     \* bound: blocking imports each leaf calls, in turn
          Starts     \* the simulators considered: a subset of {"eager", "lazy"}

ASSUME BranchAssumption == IsFiniteSet(Branch) /\ Branch # {}
ASSUME CallsAssumption  == Calls \in Nat
ASSUME StartsAssumption == Starts \subseteq {"eager", "lazy"}

VARIABLES start, keeps,        \* the simulator
          timed,               \* the branches whose import consumes time
          co, left,            \* the leaf coroutines; the calls each has left
          root, joined,        \* the forking coroutine and its zsp_par_block
          owner,               \* owner[r] is the coroutine that posted request r
          pending, active,     \* the mailbox
          pc, rid,             \* the trampoline and its local `rid`
          kid,                 \* the threads it forked
          outstanding,         \* its counter of them
          dispatched           \* history: how often each request's task was run

sim == <<start, keeps, timed>>
coro == <<co, left, root, joined>>
vars == <<sim, coro, owner, pending, active, pc, rid, kid, outstanding, dispatched>>

Req == 1 .. Calls * Cardinality(Branch)
NoReq == 0

Init == /\ start \in Starts /\ keeps \in BOOLEAN
        /\ timed \in SUBSET Branch
        /\ co = [b \in Branch |-> "unborn"]
        /\ left = [b \in Branch |-> Calls]
        /\ root = "ready" /\ joined = 0
        /\ owner = <<>> /\ pending = <<>> /\ active = {}
        /\ pc = "run" /\ rid = NoReq
        /\ kid = [c \in Req |-> [st |-> "none", rid |-> NoReq]]
        /\ outstanding = 0
        /\ dispatched = [r \in Req |-> 0]

Ready == root = "ready" \/ \E b \in Branch : co[b] = "ready"

-----------------------------------------------------------------------------
(* zsp_bridge_run: the ready coroutines, until none is ready.              *)

\* The fork task: creates the branch threads and suspends, or returns.
Root == /\ pc = "run" /\ root = "ready"
        /\ IF joined = 0
           THEN root' = "blocked" /\ co' = [b \in Branch |-> "ready"]
           ELSE root' = "returned" /\ UNCHANGED co
        /\ UNCHANGED <<sim, left, joined, owner, pending, active, pc, rid, kid,
                       outstanding, dispatched>>

\* Faulty: a request replaces the one that is pending.
PostOver(b) == /\ pc = "run" /\ co[b] = "ready" /\ left[b] > 0
               /\ owner' = Append(owner, b)
               /\ pending' = <<Len(owner')>>
               /\ co' = [co EXCEPT ![b] = "blocked"]
               /\ left' = [left EXCEPT ![b] = @ - 1]
               /\ UNCHANGED <<sim, root, joined, active, pc, rid, kid, outstanding, dispatched>>

\* zsp_bridge_post_request, from the import's sub-task.
Post(b) == /\ pc = "run" /\ co[b] = "ready" /\ left[b] > 0
           /\ owner' = Append(owner, b)
           /\ pending' = Append(pending, Len(owner'))
           /\ co' = [co EXCEPT ![b] = "blocked"]
           /\ left' = [left EXCEPT ![b] = @ - 1]
           /\ UNCHANGED <<sim, root, joined, active, pc, rid, kid, outstanding, dispatched>>

\* The leaf returns: zsp_par_block_done_one, and the join wakes the parent.
Return(b) == /\ pc = "run" /\ co[b] = "ready" /\ left[b] = 0
             /\ co' = [co EXCEPT ![b] = "returned"]
             /\ joined' = joined + 1
             /\ root' = IF joined' = Cardinality(Branch) THEN "ready" ELSE root
             /\ UNCHANGED <<sim, left, owner, pending, active, pc, rid, kid,
                            outstanding, dispatched>>

Quiescent == /\ pc = "run" /\ ~Ready
             /\ pc' = "drain"
             /\ UNCHANGED <<sim, coro, owner, pending, active, rid, kid, outstanding, dispatched>>

-----------------------------------------------------------------------------
(* The trampoline *)

Takes(r) == r # NoReq /\ owner[r] \in timed

\* Faulty: completes without taking the request off the active list.
CompleteKept(act, r) == /\ active' = act
                        /\ co' = IF r \in act THEN [co EXCEPT ![owner[r]] = "ready"] ELSE co

\* zsp_bridge_complete: an id that is not active is ignored.
Complete(act, r) == /\ active' = act \ {r}
                    /\ co' = IF r \in act THEN [co EXCEPT ![owner[r]] = "ready"] ELSE co

Dispatch(r) == dispatched' = IF r = NoReq THEN dispatched
                                          ELSE [dispatched EXCEPT ![r] = @ + 1]

Forked == {c \in Req : kid[c].st # "none"}
NewKid == Cardinality(Forked) + 1

\* Faulty: the thread is forked and not counted.
CountNone == outstanding' = outstanding

\* outstanding++
CountKid == outstanding' = outstanding + 1

\* next_request returns a request, and a thread is forked for it.  Started at
\* once, the thread copies rid and runs up to the end of a task that takes no
\* time; it then triggers `progress`, which nobody waits for.
Drain == /\ pc = "drain" /\ pending # <<>>
         /\ LET r == Head(pending)
            IN  /\ pending' = Tail(pending)
                /\ rid' = r
                /\ \/ /\ start = "lazy"
                      /\ active' = active \cup {r}
                      /\ kid' = [kid EXCEPT ![NewKid] = [st |-> "new", rid |-> NoReq]]
                      /\ CountKid
                      /\ UNCHANGED <<co, dispatched>>
                   \/ /\ start = "eager" /\ Takes(r)
                      /\ active' = active \cup {r}
                      /\ kid' = [kid EXCEPT ![NewKid] = [st |-> "running", rid |-> r]]
                      /\ CountKid
                      /\ Dispatch(r)
                      /\ UNCHANGED co
                   \/ /\ start = "eager" /\ ~Takes(r)
                      /\ kid' = [kid EXCEPT ![NewKid] = [st |-> "ended", rid |-> r]]
                      /\ Dispatch(r)
                      /\ Complete(active \cup {r}, r)
                      /\ UNCHANGED outstanding
         /\ UNCHANGED <<sim, left, root, joined, owner, pc>>

\* next_request returns 0.
Drained == /\ pc = "drain" /\ pending = <<>>
           /\ rid' \in IF keeps THEN {rid} ELSE {NoReq, rid}
           /\ pc' = "check"
           /\ UNCHANGED <<sim, coro, owner, pending, active, kid, outstanding, dispatched>>

BridgeDone == ~Ready /\ pending = <<>> /\ active = {}

\* Faulty: the counter alone decides.
CheckCounter == /\ pc = "check"
                /\ pc' = IF outstanding = 0 THEN "exited" ELSE "wait"
                /\ UNCHANGED <<sim, coro, owner, pending, active, rid, kid, outstanding, dispatched>>

\* if (zsp_bridge_done(b) && outstanding == 0) break; @progress;
Check == /\ pc = "check"
         /\ pc' = IF BridgeDone /\ outstanding = 0 THEN "exited" ELSE "wait"
         /\ UNCHANGED <<sim, coro, owner, pending, active, rid, kid, outstanding, dispatched>>

\* A thread started while the trampoline waits copies rid as it is by then.
Start(c) == /\ pc \in {"wait", "woken"} /\ kid[c].st = "new"
            /\ kid' = [kid EXCEPT ![c] = [st |-> "running", rid |-> rid]]
            /\ Dispatch(rid)
            /\ UNCHANGED <<sim, coro, owner, pending, active, pc, rid, outstanding>>

\* Faulty: the thread's copy is a static variable, shared by the threads.
EndStatic(c) == /\ pc \in {"wait", "woken"} /\ kid[c].st = "running"
                /\ kid' = [kid EXCEPT ![c].st = "ended"]
                /\ Complete(active, rid)
                /\ outstanding' = outstanding - 1
                /\ pc' = "woken"
                /\ UNCHANGED <<sim, left, root, joined, owner, pending, rid, dispatched>>

\* Its import task ends: complete, outstanding--, -> progress.
End(c) == /\ pc \in {"wait", "woken"} /\ kid[c].st = "running"
          /\ kid' = [kid EXCEPT ![c].st = "ended"]
          /\ Complete(active, kid[c].rid)
          /\ outstanding' = outstanding - 1
          /\ pc' = "woken"
          /\ UNCHANGED <<sim, left, root, joined, owner, pending, rid, dispatched>>

Wake == /\ pc = "woken" /\ pc' = "run"
        /\ UNCHANGED <<sim, coro, owner, pending, active, rid, kid, outstanding, dispatched>>

Trampoline == \/ Root \/ Quiescent \/ Drain \/ Drained \/ Check \/ Wake
              \/ \E b \in Branch : Post(b) \/ Return(b)

Next == \/ Trampoline
        \/ \E c \in Req : Start(c) \/ End(c)

Spec == Init /\ [][Next]_vars

\* The simulator runs its threads, and every import task of the testbench
\* ends.
FairSpec == Spec /\ WF_vars(Trampoline) /\ \A c \in Req : WF_vars(Start(c) \/ End(c))

-----------------------------------------------------------------------------
\* The mailbox holds requests that were posted, and the trampoline's counter of
\* running threads never goes negative.
TypeOK == /\ start \in Starts /\ keeps \in BOOLEAN /\ timed \subseteq Branch
          /\ co \in [Branch -> {"unborn", "ready", "blocked", "returned"}]
          /\ left \in [Branch -> 0 .. Calls]
          /\ root \in {"ready", "blocked", "returned"}
          /\ joined \in 0 .. Cardinality(Branch)
          /\ owner \in Seq(Branch) /\ Len(owner) <= Calls * Cardinality(Branch)
          /\ pending \in Seq(Req) /\ active \subseteq Req
          /\ pc \in {"run", "drain", "check", "wait", "woken", "exited"}
          /\ rid \in Req \cup {NoReq}
          /\ kid \in [Req -> [st : {"none", "new", "running", "ended"}, rid : Req \cup {NoReq}]]
          /\ outstanding \in Nat
          /\ dispatched \in [Req -> Nat]

InMailbox(r) == r \in active \/ \E n \in DOMAIN pending : pending[n] = r

\* A coroutine is suspended in an import exactly as long as one request of
\* its is in the mailbox: no answer reaches a coroutine that did not ask, none
\* is resumed twice, and none is left suspended without a request.
BlockedIffRequested ==
    \A b \in Branch :
        LET mine == {r \in DOMAIN owner : owner[r] = b /\ InMailbox(r)}
        IN  Cardinality(mine) = IF co[b] = "blocked" THEN 1 ELSE 0

\* pssc_run_action returns only when the action's coroutines have, nothing is
\* left in the mailbox and no forked thread is alive.
ExitIsClean == pc = "exited" =>
    /\ root = "returned" /\ \A b \in Branch : co[b] = "returned"
    /\ pending = <<>> /\ active = {}
    /\ \A c \in Req : kid[c].st \in {"none", "ended"}

\* A simulator that starts threads at once runs each request's import task
\* once, and every request taken from the mailbox has its own thread.
EachDispatchedOnce == start = "eager" =>
    /\ \A r \in Req : dispatched[r] <= 1
    /\ \A r \in active : \E c \in Req : kid[c] = [st |-> "running", rid |-> r]

\* There, and with imports that all consume time, the action returns.
ConcurrentImportsReturn == (start = "eager" /\ timed = Branch) ~> pc = "exited"

\* The trampoline "drains blocking import requests ... repeat until done":
\* the action returns on every simulator.
EveryActionReturns == <>(pc = "exited")
=============================================================================
