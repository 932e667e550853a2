----------------------------- MODULE KeyCustody -----------------------------
(***************************************************************************)
(* What encrypted groups promise about their keys, with no table, request  *)
(* or listing in sight.  Someone founds a group and encrypts its key for   *)
(* the first holders, himself among them.  From then on a holder, and only *)
(* a holder, can encrypt it for one more user at a time; a copy is never   *)
(* replaced or taken back.                                                 *)
(***************************************************************************)
CONSTANTS User, Group, NoKey

VARIABLES
    copy    \* copy[g][u]: whose client encrypted the key of g for u, or NoKey

Holders(g) == {u \in User : copy[g][u] # NoKey}

Init == copy = [g \in Group |-> [u \in User |-> NoKey]]

Found(g, founder, users) ==
    /\ Holders(g) = {}
    /\ founder \in users
    /\ copy' = [copy EXCEPT ![g] = [u \in User |-> IF u \in users THEN founder ELSE NoKey]]

Share(g, holder, u) ==
    /\ holder \in Holders(g)
    /\ u \notin Holders(g)
    /\ copy' = [copy EXCEPT ![g][u] = holder]

Next == \E g \in Group, u \in User :
    \/ \E users \in SUBSET User : Found(g, u, users)
    \/ \E v \in User : Share(g, u, v)

Spec == Init /\ [][Next]_copy
=============================================================================
