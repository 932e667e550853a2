----------------------------- MODULE MCRequests -----------------------------
EXTENDS RequestsInv, TLC

Symmetry == Permutations(Request) \cup Permutations(Call)
=============================================================================
