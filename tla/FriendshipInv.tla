---------------------------- MODULE FriendshipInv ----------------------------
(***************************************************************************)
(* The inductive invariant of Friendship: what the handlers in flight know *)
(* about the tables, stage by stage.                                       *)
(***************************************************************************)
EXTENDS Friendship

AfterAccept == {"findDirect", "createConv", "addParticipants",
                "notifyRequester", "notifyReceiver"}
Notifying == {"notifyRequester", "notifyReceiver"}

\* A request past its first write works on a row that exists; past the
\* accept, on one whose receiver agreed.
RowsInHand ==
    \A h \in Handler : job[h] # Idle =>
        /\ job[h].user \in Ends(job[h].row)
        /\ job[h].at # "create" => status[job[h].row] # "none"
        /\ job[h].at \in AfterAccept => job[h].row \in agreed

\* The conversation a request created stays its own and empty until the
\* request inserts the participants.
ConversationsInHand ==
    /\ \A h \in Handler : job[h].at = "addParticipants" =>
        /\ job[h].conv \in conversations
        /\ participants[job[h].conv] = {}
    /\ \A h \in Handler : job[h].at \in Notifying =>
        /\ job[h].conv \in conversations
        /\ participants[job[h].conv] = Ends(job[h].row)
    /\ \A g, h \in Handler :
        (/\ job[g].at = "addParticipants"
         /\ job[h].at = "addParticipants"
         /\ job[g].conv = job[h].conv) => g = h
    /\ \A c \in ConvId \ conversations : participants[c] = {}

AgreedRowsExist == \A p \in agreed : status[p] # "none"

\* What a request read about its row is still true when it writes, unless
\* another wrote the row in between.
ReadsInHand ==
    \A h \in Handler : h \notin stale =>
        /\ job[h].at \in {"accept", "reject"} => status[job[h].row] = "pending"
        /\ job[h].at = "reopen" => status[job[h].row] = "rejected"

\* While two users never asked each other at once, one that is about to insert
\* its row has no reversed one to fear, written or about to be.
AskedOneWay ==
    \A h \in Handler : (job[h].at = "create" /\ Ends(job[h].row) \notin crossed) =>
        /\ status[Reversed(job[h].row)] = "none"
        /\ \A g \in Handler :
            job[g].at = "create" => job[g].row # Reversed(job[h].row)

\* While no two accepts of a pair opened its conversation at once, the one
\* that is about to has nobody else's to fear.
OpeningInHand ==
    \A h \in Handler : \A p \in Pair :
        (Opening(h, Ends(p)) /\ Ends(p) \notin raced) =>
            /\ \A g \in Handler : Opening(g, Ends(p)) => g = h
            /\ DirectBetween(Ends(p)) = {}

\* Each part relates the requests in flight to the tables; none of the
\* properties is inductive without them.
IInv ==
    /\ TypeOK
    /\ RowsInHand
    /\ ConversationsInHand
    /\ AgreedRowsExist
    /\ ParticipantsAgreed
    /\ ToldOnlyOfUsableConversations
    /\ AgreedHaveConversation
    /\ ReadsInHand
    /\ AskedOneWay
    /\ OneRowUnlessCrossed
    /\ OpeningInHand
    /\ OneConversationUnlessRaced
=============================================================================
