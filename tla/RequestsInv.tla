----------------------------- MODULE RequestsInv -----------------------------
(***************************************************************************)
(* The inductive invariant of Requests: how many cards there can be, what  *)
(* protects the card of a request the user was told of, and who will take  *)
(* the card of an answered one away.                                       *)
(***************************************************************************)
EXTENDS Requests

\* A card stands for an event or for a row of the latest list.
CardsAreAsked ==
    \A r \in Request : coming[r] <= asks /\ friendRequests[r] + coming[r] <= asks + 1

\* The answer is known to be good only once it has come.
AnswersComeOnce == \A h \in Call : call[h].at = "answer" => ~call[h].ok

\* A handler that leaves the card of r alone: its list has it, its answer was
\* not asked of a card, or is not known to be good.
LeavesAlone(c, r) ==
    /\ c.at = "pending" => r \in c.rows
    /\ c.request = r => c.from = "dialog" \/ c.at = "answer" \/ (c.at = "answered" /\ ~c.ok)

DueIsSafe == \A r \in due : r \in Pending /\ \A h \in Call : LeavesAlone(call[h], r)

\* A handler that brings a card of r with a list it has already.
Brings(c, r) == c.at = "pending" /\ r \in c.rows

\* What could bring the card of an answered request back is known to be late.
LateIsAstray ==
    \A r \in Request \ Pending :
        /\ coming[r] > 0 => r \in astray
        /\ \A h \in Call : Brings(call[h], r) => r \in astray

\* A handler that will take the cards of r away.
Clears(c, r) ==
    /\ c.request = r
    /\ \/ c.at = "answered" /\ c.ok /\ (c.from = "card" \/ c.action = "accept")
       \/ c.at \in {"dashboard", "pending"}

AnsweredIsCleared ==
    \A r \in Request \ Pending :
        friendRequests[r] > 0 => r \in astray \/ \E h \in Call : Clears(call[h], r)

IInv ==
    /\ TypeOK
    /\ CardsAreAsked
    /\ AnswersComeOnce
    /\ DueIsSafe
    /\ ToldIsListed
    /\ LateIsAstray
    /\ AnsweredIsCleared
=============================================================================
