------------------------------- MODULE MCHooks -------------------------------
(* Small instances of Hooks for TLC. *)
EXTENDS Hooks, TLC

CONSTANTS ann, bob, seat
MCOwner  == seat :> ann
MCLength == ann :> 1 @@ bob :> 2
=============================================================================
