------------------------------ MODULE MCAccounts ------------------------------
EXTENDS AccountsInv, TLC

Symmetry ==
    Permutations(User) \cup Permutations(Password) \cup Permutations(Device)
        \cup Permutations(KeyPair) \cup Permutations(Handler)
=============================================================================
