---------------------------- MODULE MCFundsQueue ----------------------------
(* Small instances of FundsQueue for TLC. *)
EXTENDS FundsQueue, TLC

CONSTANTS r1, r2

MCAmt2 == (r1 :> 1) @@ (r2 :> 2)
=============================================================================
