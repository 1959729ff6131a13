------------------------------ MODULE MCWakeup ------------------------------
(* Small instances of Wakeup for TLC. *)
EXTENDS Wakeup
=============================================================================
