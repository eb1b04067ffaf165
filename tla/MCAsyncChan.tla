---------------------------- MODULE MCAsyncChan ----------------------------
(* Three tasks contend for one slot, two tokens tell deliveries apart. *)
EXTENDS AsyncChan
CONSTANTS t1, t2, t3, a, b
MCTask == {t1, t2, t3}
MCToken == {a, b}
=============================================================================
