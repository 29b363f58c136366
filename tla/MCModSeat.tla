------------------------------ MODULE MCModSeat ------------------------------
(* Small instances of ModSeat for TLC. *)
EXTENDS ModSeat, TLC
=============================================================================
