---------------------------- MODULE MCSupervisor ----------------------------
(* Supervisor is instantiated for TLC by the configuration alone. *)
EXTENDS Supervisor
=============================================================================
