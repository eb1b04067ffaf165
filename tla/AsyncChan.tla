------------------------------ MODULE AsyncChan ------------------------------
(***************************************************************************)
(* The depth-1 channel of the asynchronous Python runtime,                 *)
(* share/py/pssc_rt_async.py: a value, a flag, and two events the tasks of *)
(* a generated model suspend on.  Everything between two awaits is one     *)
(* step, because the scheduler (asyncio or cocotb) is cooperative.         *)
(*                                                                         *)
(* A task that runs `await ev.wait()` is "blocked"; `ev.set()` resolves    *)
(* every blocked waiter, which is then "ready" and resumes at some later   *)
(* step, in whatever order the scheduler picks, whatever the event's flag  *)
(* is by then.  A task may be cancelled while it is suspended.             *)
(***************************************************************************)
EXTENDS Naturals, Sequences, FiniteSets

CONSTANTS Task,      \* the tasks that use the channel
          Token,     \* the values they post
          NoToken,   \* the slot's content before anything was posted
          MaxSent    \* bound: how many puts are started in a behaviour

ASSUME NoTokenAssumption == NoToken \notin Token
ASSUME TaskAssumption    == IsFiniteSet(Task)
ASSUME MaxSentAssumption == MaxSent \in Nat

VARIABLES value, full,        \* the slot
          arrived, drained,   \* the flags of the two events
          pc,                 \* where each task is
          arg,                \* the token a suspended put() still has to post
          sent, rcvd          \* history: tokens accepted, tokens returned

vars == <<value, full, arrived, drained, pc, arg, sent, rcvd>>

PC == {"idle", "getBlocked", "getReady", "putBlocked", "putReady"}

Getting(t) == pc[t] \in {"getBlocked", "getReady"}
Putting(t) == pc[t] \in {"putBlocked", "putReady"}

-----------------------------------------------------------------------------
Init == /\ value = NoToken
        /\ full = FALSE
        /\ arrived = FALSE
        /\ drained = FALSE
        /\ pc = [t \in Task |-> "idle"]
        /\ arg = [t \in Task |-> NoToken]
        /\ sent = <<>>
        /\ rcvd = <<>>

\* ev.set(): a no-op on an event that is set, else every waiter is resolved.
Wake(p, flag, blocked, ready) ==
    IF flag THEN p
            ELSE [t \in Task |-> IF p[t] = blocked THEN ready ELSE p[t]]

\* Faulty: the token is stored and `_arrived` is never set.
PostSilently(p, v) == /\ value' = v
                      /\ full' = TRUE
                      /\ drained' = FALSE
                      /\ pc' = p
                      /\ sent' = Append(sent, v)
                      /\ UNCHANGED <<arrived, rcvd>>

\* The body of a successful try_put, by a caller that leaves the tasks at p.
Post(p, v) == /\ value' = v
              /\ full' = TRUE
              /\ arrived' = TRUE
              /\ drained' = FALSE
              /\ pc' = Wake(p, arrived, "getBlocked", "getReady")
              /\ sent' = Append(sent, v)
              /\ UNCHANGED rcvd

\* The body of a successful try_get, by a caller that leaves the tasks at p.
Take(p) == /\ full' = FALSE
           /\ drained' = TRUE
           /\ arrived' = FALSE
           /\ pc' = Wake(p, drained, "putBlocked", "putReady")
           /\ rcvd' = Append(rcvd, value)
           /\ UNCHANGED <<value, sent>>

\* Faulty: the token is not kept across the suspension.
PutLoopForgetting(t, v) ==
    \/ /\ ~full
       /\ Post([pc EXCEPT ![t] = "idle"], v)
       /\ arg' = [arg EXCEPT ![t] = NoToken]
    \/ /\ full
       /\ drained' = FALSE
       /\ pc' = [pc EXCEPT ![t] = "putBlocked"]
       /\ UNCHANGED <<value, full, arrived, arg, sent, rcvd>>

\* The loop of put(), entered at the call and again at every resumption.
PutLoop(t, v) ==
    \/ /\ ~full
       /\ Post([pc EXCEPT ![t] = "idle"], v)
       /\ arg' = [arg EXCEPT ![t] = NoToken]
    \/ /\ full
       /\ drained' = FALSE
       /\ pc' = [pc EXCEPT ![t] = "putBlocked"]
       /\ arg' = [arg EXCEPT ![t] = v]
       /\ UNCHANGED <<value, full, arrived, sent, rcvd>>

\* The loop of get().
GetLoop(t) ==
    /\ \/ /\ full
          /\ Take([pc EXCEPT ![t] = "idle"])
       \/ /\ ~full
          /\ arrived' = FALSE
          /\ pc' = [pc EXCEPT ![t] = "getBlocked"]
          /\ UNCHANGED <<value, full, drained, sent, rcvd>>
    /\ UNCHANGED arg

-----------------------------------------------------------------------------
MayStartPut == Len(sent) + Cardinality({t \in Task : Putting(t)}) < MaxSent

Put(t, v)  == pc[t] = "idle" /\ MayStartPut /\ PutLoop(t, v)

\* Faulty: waits for an arrival before it looks at the slot.
GetWaitsFirst(t) == /\ pc[t] = "idle"
                    /\ arrived' = FALSE
                    /\ pc' = [pc EXCEPT ![t] = "getBlocked"]
                    /\ UNCHANGED <<value, full, drained, arg, sent, rcvd>>

Get(t)     == pc[t] = "idle" /\ GetLoop(t)

\* Faulty: `if` for `while`, so a woken task does not look at the slot again.
ResumeUnchecked(t) == \/ /\ pc[t] = "putReady"
                         /\ IF full THEN pc' = [pc EXCEPT ![t] = "idle"]
                                         /\ UNCHANGED <<value, full, arrived, drained, sent, rcvd>>
                                    ELSE Post([pc EXCEPT ![t] = "idle"], arg[t])
                         /\ arg' = [arg EXCEPT ![t] = NoToken]
                      \/ /\ pc[t] = "getReady"
                         /\ Take([pc EXCEPT ![t] = "idle"])
                         /\ UNCHANGED arg

Resume(t)  == \/ pc[t] = "putReady" /\ PutLoop(t, arg[t])
              \/ pc[t] = "getReady" /\ GetLoop(t)

\* The non-blocking ends, called from anywhere: another task, an interrupt
\* observer, a scheduler callback.  A refused call changes nothing.
TryPut(v) == /\ MayStartPut
             /\ ~full
             /\ Post(pc, v)
             /\ UNCHANGED arg

TryGet == full /\ Take(pc) /\ UNCHANGED arg

\* The scheduler throws CancelledError into a suspended task.
Cancel(t) == /\ pc[t] # "idle"
             /\ pc' = [pc EXCEPT ![t] = "idle"]
             /\ arg' = [arg EXCEPT ![t] = NoToken]
             /\ UNCHANGED <<value, full, arrived, drained, sent, rcvd>>

Next == \/ \E t \in Task, v \in Token : Put(t, v)
        \/ \E t \in Task : Get(t)
        \/ \E t \in Task : Resume(t)
        \/ \E t \in Task : Cancel(t)
        \/ \E v \in Token : TryPut(v)
        \/ TryGet

Spec == Init /\ [][Next]_vars

\* The scheduler runs every task that is ready: asyncio's and cocotb's queue
\* of ready tasks is drained in order.
FairSpec == Spec /\ \A t \in Task : WF_vars(Resume(t))

-----------------------------------------------------------------------------
\* The attributes of Chan1 hold what the code puts there: what is posted after
\* a suspension of put(), and what get() returns, is a token.
TypeOK == /\ value \in Token \cup {NoToken}
          /\ full \in BOOLEAN
          /\ arrived \in BOOLEAN
          /\ drained \in BOOLEAN
          /\ pc \in [Task -> PC]
          /\ arg \in [Task -> Token \cup {NoToken}]
          /\ sent \in Seq(Token)
          /\ rcvd \in Seq(Token)

\* No task sleeps on a condition that already holds: a blocked get() has
\* nothing to take and a blocked put() has no room.  This is what clearing
\* both events on every transition (try_put, try_get, and before each wait)
\* has to guarantee, for any number of waiters on either side.
NoLostWakeup == \A t \in Task : /\ pc[t] = "getBlocked" => ~full
                                /\ pc[t] = "putBlocked" => full

\* The token in the slot, as a queue.
Held == IF full THEN <<value>> ELSE <<>>

\* Nothing is lost, duplicated, reordered or invented by the two ends, however
\* the waiters are woken: what was accepted is what was returned, then Held.
Conservation == sent = rcvd \o Held

Chan == INSTANCE Channel WITH Depth <- 1, held <- Held
\* The runtime implements the channel the model declares.
ImplementsChannel == Chan!Spec

\* A token that is there while a task is in get() is taken, unless every such
\* task is cancelled, and room that is there while a task is in put() is used:
\* no woken task is put back to sleep beside a slot that is ready for it.
WaitersServed ==
    /\ (full /\ \E t \in Task : Getting(t)) ~> (~full \/ \A t \in Task : ~Getting(t))
    /\ (~full /\ \E t \in Task : Putting(t)) ~> (full \/ \A t \in Task : ~Putting(t))
=============================================================================
