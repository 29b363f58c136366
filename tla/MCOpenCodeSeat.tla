--------------------------- MODULE MCOpenCodeSeat ---------------------------
(* Small instances of OpenCodeSeat for TLC. *)
EXTENDS OpenCodeSeat
=============================================================================
