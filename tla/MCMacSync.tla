----------------------------- MODULE MCMacSync ------------------------------
(* An instance of MacSync for TLC: a listener of the Mac on port p, and     *)
(* port q, which the control socket has registered.                         *)
EXTENDS MacSync, TLC

CONSTANTS a1, p, q
OneListener == a1 :> p
=============================================================================
