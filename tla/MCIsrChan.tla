----------------------------- MODULE MCIsrChan -----------------------------
(* Two tokens, enough calls and interrupts for every pair to interleave. *)
EXTENDS IsrChan
CONSTANTS a, b
MCToken == {a, b}
=============================================================================
