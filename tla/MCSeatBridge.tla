---------------------------- MODULE MCSeatBridge ----------------------------
(* Small instances of SeatBridge for TLC. *)
EXTENDS SeatBridge
=============================================================================
