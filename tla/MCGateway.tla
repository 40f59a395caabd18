----------------------------- MODULE MCGateway -----------------------------
EXTENDS Gateway, TLC

Sym == Permutations(Bind) \cup Permutations(Stream)
=============================================================================
