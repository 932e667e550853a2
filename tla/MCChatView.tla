------------------------------ MODULE MCChatView ------------------------------
EXTENDS ChatViewInv, TLC

Symmetry == Permutations(LoadCall) \cup Permutations(Conv)
=============================================================================
