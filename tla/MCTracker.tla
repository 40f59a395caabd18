------------------------------ MODULE MCTracker -----------------------------
(* Instances of Tracker for TLC: a1 and a2 bind one port in turn (or, with *)
(* SO_REUSEPORT, together), f is a container's socket on the same port,    *)
(* e an ephemeral one.                                                     *)
EXTENDS Tracker, TLC

CONSTANTS a1, a2, f, e, p, q
MCKeyOf == [s \in Sock |-> IF s = e THEN q ELSE p]
=============================================================================
