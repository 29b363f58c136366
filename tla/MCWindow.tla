------------------------------ MODULE MCWindow ------------------------------
(* Small instances of Window for TLC. *)
EXTENDS Window
=============================================================================
