---------------------------- MODULE MCFriendship ----------------------------
EXTENDS FriendshipInv, TLC

\* Users and conversations are interchangeable, and so are requests.
Symmetry == Permutations(User) \cup Permutations(ConvId) \cup Permutations(Handler)
=============================================================================
