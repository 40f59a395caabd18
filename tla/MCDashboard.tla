----------------------------- MODULE MCDashboard -----------------------------
(* The dashboard over a root and a user daemon. *)
EXTENDS Dashboard

MCDiscover == <<"root", "user">>
Symm == Permutations(Fetch)
=============================================================================
