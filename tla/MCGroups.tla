------------------------------ MODULE MCGroups ------------------------------
EXTENDS GroupsInv, TLC

Symmetry == Permutations(User) \cup Permutations(ConvId) \cup Permutations(Handler)
=============================================================================
