------------------------------- MODULE MCRoom -------------------------------
(* Small instances of Room for TLC. *)
EXTENDS Room, TLC

\* Handles are interchangeable: nothing in Room orders or names one.
HandleSymmetry == Permutations(Agents)
=============================================================================
