------------------------------- MODULE Consent -------------------------------
(***************************************************************************)
(* What the friendship service promises, with no handler, statement or     *)
(* failure in sight: one user asks, the asked user agrees, only then is a  *)
(* channel between the two opened, and only then is either told of it.     *)
(***************************************************************************)
EXTENDS Pairs

VARIABLES
    asked,      \* set of Pair: the first has asked the second
    agreed,     \* set of Pair: the second has agreed
    linked,     \* set of two-element sets of users that share a conversation
    told        \* set of <<user, two-element set>>: user knows of the link

vars == <<asked, agreed, linked, told>>

Init ==
    /\ asked = {}
    /\ agreed = {}
    /\ linked = {}
    /\ told = {}

Ask(p) ==
    /\ asked' = asked \cup {p}
    /\ UNCHANGED <<agreed, linked, told>>

Agree(p) ==
    /\ p \in asked
    /\ agreed' = agreed \cup {p}
    /\ UNCHANGED <<asked, linked, told>>

Link(p) ==
    /\ p \in agreed
    /\ linked' = linked \cup {Ends(p)}
    /\ UNCHANGED <<asked, agreed, told>>

Tell(u, pair) ==
    /\ pair \in linked
    /\ u \in pair
    /\ told' = told \cup {<<u, pair>>}
    /\ UNCHANGED <<asked, agreed, linked>>

Next ==
    \/ \E p \in Pair : Ask(p) \/ Agree(p) \/ Link(p)
    \/ \E u \in User, pair \in linked : Tell(u, pair)

Spec == Init /\ [][Next]_vars
=============================================================================
