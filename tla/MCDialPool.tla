----------------------------- MODULE MCDialPool -----------------------------
(* Instances of DialPool for TLC. *)
EXTENDS DialPool, TLC

=============================================================================
