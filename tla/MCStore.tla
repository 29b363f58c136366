------------------------------- MODULE MCStore -------------------------------
(* A small instance of Store for TLC: one person and one worker. *)
EXTENDS Store, TLC
=============================================================================
