------------------------------ MODULE MCMirror ------------------------------
(* Instances of Mirror for TLC: two addresses of one TCP port, one UDP     *)
(* port, one port on the skip-list, one address that is not mirrored.      *)
EXTENDS Mirror, TLC

CONSTANTS a1, a2, u1, s1, x1, tcp, udp, ssh
MCKeyOf == a1 :> tcp @@ a2 :> tcp @@ u1 :> udp @@ s1 :> ssh @@ x1 :> tcp
Symm == Permutations({a1, a2}) \cup Permutations(Id)
=============================================================================
