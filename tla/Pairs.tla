-------------------------------- MODULE Pairs --------------------------------
(***************************************************************************)
(* Two users and the friendship row between them.                          *)
(* A row of table friendships is unique per (requester_id, receiver_id)    *)
(* and is never deleted, so the ordered pair identifies the row.           *)
(***************************************************************************)
CONSTANT User

Pair == {p \in User \X User : p[1] # p[2]}

Requester(p) == p[1]
Receiver(p)  == p[2]

Reversed(p) == <<p[2], p[1]>>
Ends(p)     == {p[1], p[2]}
=============================================================================
