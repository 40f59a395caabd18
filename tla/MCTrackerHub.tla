---------------------------- MODULE MCTrackerHub ----------------------------
(* Instances of TrackerHub for TLC. *)
EXTENDS TrackerHub, TLC

=============================================================================
