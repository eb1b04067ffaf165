------------------------------ MODULE MCBridge ------------------------------
(* Three leaves that call two blocking imports each. *)
EXTENDS Bridge
CONSTANTS b1, b2, b3
MCBranch == {b1, b2, b3}
MCTwo == {b1, b2}
MCStarts == {"eager", "lazy"}
MCLazy == {"lazy"}
=============================================================================
