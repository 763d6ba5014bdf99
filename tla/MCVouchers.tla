----------------------------- MODULE MCVouchers -----------------------------
(* Instances of Vouchers for TLC. *)
EXTENDS Vouchers

MCAmounts == 1..2
=============================================================================
