------------------------------- MODULE Channel -------------------------------
(***************************************************************************)
(* What a PSS channel promises, whatever the target it is generated for:   *)
(* a bounded first-in first-out buffer.  A token that is accepted is       *)
(* delivered exactly once, in order, and nothing is delivered that was not *)
(* accepted.  The runtimes under share/ (Python, C, C++, SystemVerilog)    *)
(* implement `sync_pkg::channel_c<T, DEPTH>`; this is the specification    *)
(* they are compared with.                                                 *)
(***************************************************************************)
EXTENDS Naturals, Sequences

CONSTANTS Token,    \* the values a channel carries
          Depth     \* the capacity the model declares, at least 1

VARIABLES held,     \* accepted and not yet delivered, oldest first
          sent,     \* history: every token accepted
          rcvd      \* history: every token delivered

vars == <<held, sent, rcvd>>

Init == /\ held = <<>>
        /\ sent = <<>>
        /\ rcvd = <<>>

\* A producer's put() completes, or its try_put() returns true.
Accept(v) == /\ Len(held) < Depth
             /\ held' = Append(held, v)
             /\ sent' = Append(sent, v)
             /\ UNCHANGED rcvd

\* A consumer's get() completes, or its try_get() returns true.
Deliver == /\ held # <<>>
           /\ held' = Tail(held)
           /\ rcvd' = Append(rcvd, Head(held))
           /\ UNCHANGED sent

Next == Deliver \/ \E v \in Token : Accept(v)

Spec == Init /\ [][Next]_vars
=============================================================================
