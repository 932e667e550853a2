------------------------------ MODULE Friendship ------------------------------
(***************************************************************************)
(* Friend requests and the DIRECT conversations they open                  *)
(* (module/chat/business/friendship_business.go with its handler and       *)
(* store).  Each HTTP request is a goroutine of its own.  It issues SQL    *)
(* statements one at a time, outside any transaction, so the statements of *)
(* two requests interleave freely; a statement may fail, or the request's  *)
(* context may be cancelled, and the handler then returns at once, leaving *)
(* behind what its earlier statements wrote.  A publish that fails is only *)
(* logged.                                                                 *)
(*                                                                         *)
(* An action is the code from one statement to the next; a request that is *)
(* refused by a guard writes nothing and is not a step.                    *)
(***************************************************************************)
EXTENDS Pairs

CONSTANTS
    Handler,    \* the requests that may be in flight at the same time
    ConvId,     \* conversation ids: a bound on the conversations created
    NoConv      \* the conversation of a request that has created none

ASSUME NoConvAssumption == NoConv \notin ConvId

VARIABLES
    status,         \* friendships.status by row; "none" where no row exists
    conversations,  \* ids of the DIRECT rows of table conversations
    participants,   \* table participants: conversation id -> its users
    requestNotices,       \* NEW_FRIEND_REQUEST events delivered
    conversationNotices,  \* conversation_created events delivered
    job,            \* what each in-flight request is doing
    (* History: what happened, read by the properties only. *)
    agreed,         \* rows whose receiver's accept was written
    served,         \* rows whose accept was answered 200 OK
    crossed,        \* pairs whose users asked each other at once, no row existing
    stale,          \* requests whose row was written since they read it
    raced,          \* pairs for which two accepts opened a conversation at once
    cut             \* pairs for which an accept failed after it was written

tables  == <<status, conversations, participants>>
notices == <<requestNotices, conversationNotices>>
history == <<agreed, served, crossed, stale, raced, cut>>
vars    == <<tables, notices, job, history>>

-----------------------------------------------------------------------------
Status == {"none", "pending", "accepted", "rejected"}

\* The statement (or publish) an in-flight request issues next.
Statement == {"create", "reopen", "accept", "reject",
              "findDirect", "createConv", "addParticipants"}
\* What an accept still has to do once it is written.
Linking == {"findDirect", "createConv", "addParticipants"}
Publish == {"notifyTarget", "notifyRequester", "notifyReceiver"}

Idle == [at |-> "idle"]
Job == [at : Statement \cup Publish, user : User, row : Pair,
        conv : ConvId \cup {NoConv}]

RequestNotice == [to : User, row : Pair]
ConversationNotice == [to : User, conv : ConvId, peer : User]

TypeOK ==
    /\ status \in [Pair -> Status]
    /\ conversations \subseteq ConvId
    /\ participants \in [ConvId -> SUBSET User]
    /\ requestNotices \subseteq RequestNotice
    /\ conversationNotices \subseteq ConversationNotice
    /\ job \in [Handler -> Job \cup {Idle}]
    /\ agreed \subseteq Pair
    /\ served \subseteq Pair
    /\ crossed \subseteq SUBSET User
    /\ stale \subseteq Handler
    /\ raced \subseteq SUBSET User
    /\ cut \subseteq SUBSET User

Init ==
    /\ status = [p \in Pair |-> "none"]
    /\ conversations = {}
    /\ participants = [c \in ConvId |-> {}]
    /\ requestNotices = {}
    /\ conversationNotices = {}
    /\ job = [h \in Handler |-> Idle]
    /\ agreed = {}
    /\ served = {}
    /\ crossed = {}
    /\ stale = {}
    /\ raced = {}
    /\ cut = {}

-----------------------------------------------------------------------------
\* The rows between two users, in either direction.
RowsBetween(pair) == {p \in Pair : Ends(p) = pair /\ status[p] # "none"}

\* The DIRECT conversations both users participate in.
DirectBetween(pair) == {c \in conversations : pair \subseteq participants[c]}

WorksOn(h, pair) == job[h] # Idle /\ Ends(job[h].row) = pair

\* A request to insert the row while the other user's is about to insert its own.
Crossing(at, row) ==
    at = "create" /\ \E g \in Handler : job[g].at = "create" /\ job[g].row = Reversed(row)

Begin(h, at, user, row) ==
    /\ job[h] = Idle
    /\ job' = [job EXCEPT ![h] = [at |-> at, user |-> user, row |-> row,
                                  conv |-> NoConv]]
    /\ crossed' = crossed \cup {pair \in {Ends(row)} : Crossing(at, row)}
    /\ UNCHANGED <<stale, cut>>

Goto(h, at) == job' = [job EXCEPT ![h].at = at]
Return(h)   == job' = [job EXCEPT ![h] = Idle]

\* UPDATE ... WHERE id = ?: whatever the status has become since it was read.
\* Others that have read the row and not yet written it are stale from now on.
WriteStatus(h, st) ==
    /\ status' = [status EXCEPT ![job[h].row] = st]
    /\ stale' = (stale \cup {g \in Handler : /\ job[g].at \in {"reopen", "accept", "reject"}
                                            /\ job[g].row = job[h].row}) \ {h}

-----------------------------------------------------------------------------
\* Mutant: looks for a row in the direction of the request only.
RequestFriend_OneWay(h, u, v) ==
    /\ u # v
    /\ \/ /\ status[<<u, v>>] = "none"
          /\ Begin(h, "create", u, <<u, v>>)
       \/ /\ status[<<u, v>>] = "rejected"
          /\ Begin(h, "reopen", u, <<u, v>>)
    /\ UNCHANGED <<tables, notices, agreed, served, raced>>

(* POST /friendships/request.  Of two rows the query returns either        *)
(* (LIMIT 1, no order); a pending or accepted row refuses the request, a   *)
(* rejected one is reopened as it stands: requester and receiver stay the  *)
(* same, whoever asks now.                                                 *)
RequestFriend(h, u, v) ==
    /\ u # v
    /\ \/ /\ RowsBetween({u, v}) = {}
          /\ Begin(h, "create", u, <<u, v>>)
       \/ \E r \in RowsBetween({u, v}) :
            /\ status[r] = "rejected"
            /\ Begin(h, "reopen", u, r)
    /\ UNCHANGED <<tables, notices, agreed, served, raced>>

\* The unique constraint rejects a second row of the same direction: the
\* insert fails (StatementFails).  It does not see the reversed row.
CreateFriendship(h) ==
    /\ job[h].at = "create"
    /\ status[job[h].row] = "none"
    /\ WriteStatus(h, "pending")
    /\ Goto(h, "notifyTarget")
    /\ UNCHANGED <<conversations, participants, notices, agreed, served, crossed, raced, cut>>

ReopenFriendship(h) ==
    /\ job[h].at = "reopen"
    /\ WriteStatus(h, "pending")
    /\ Goto(h, "notifyTarget")
    /\ UNCHANGED <<conversations, participants, notices, agreed, served, crossed, raced, cut>>

\* The user named in the request, to whom the handler publishes: the other
\* end of the row.
Target(h) == CHOOSE v \in Ends(job[h].row) : v # job[h].user

NotifyTarget(h) ==
    /\ job[h].at = "notifyTarget"
    /\ requestNotices' \in {requestNotices,
            requestNotices \cup {[to |-> Target(h), row |-> job[h].row]}}
    /\ Return(h)
    /\ UNCHANGED <<tables, conversationNotices, history>>

-----------------------------------------------------------------------------
\* Mutant: does not check that the request is pending.
AcceptFriendRequest_AnyStatus(h, u, r) ==
    /\ Receiver(r) = u
    /\ status[r] # "none"
    /\ Begin(h, "accept", u, r)
    /\ UNCHANGED <<tables, notices, agreed, served, raced>>

\* Mutant: opens the conversation and forgets to write the status.
AcceptFriendRequest_NoWrite(h, u, r) ==
    /\ Receiver(r) = u
    /\ status[r] = "pending"
    /\ Begin(h, "findDirect", u, r)
    /\ UNCHANGED <<tables, notices, agreed, served, raced>>

(* POST /friendships/accept: read the row, check it, then write, whatever  *)
(* the row has become; then find or create the conversation.               *)
AcceptFriendRequest(h, u, r) ==
    /\ Receiver(r) = u
    /\ status[r] = "pending"
    /\ Begin(h, "accept", u, r)
    /\ UNCHANGED <<tables, notices, agreed, served, raced>>

WriteAccepted(h) ==
    /\ job[h].at = "accept"
    /\ WriteStatus(h, "accepted")
    /\ agreed' = agreed \cup {job[h].row}
    /\ Goto(h, "findDirect")
    /\ UNCHANGED <<conversations, participants, notices, served, crossed, raced, cut>>

\* A request that found no conversation and has not yet made its own visible:
\* another accept of the two users finds none either.
Opening(h, pair) ==
    WorksOn(h, pair) /\ job[h].at \in {"createConv", "addParticipants"}

\* Mutant: creates a conversation without looking for one.
FindDirect_Blind(h) ==
    /\ job[h].at = "findDirect"
    /\ Goto(h, "createConv")
    /\ UNCHANGED <<tables, notices, history>>

\* Mutant: takes a conversation without joining its participants.
FindDirect_AnyConversation(h) ==
    /\ job[h].at = "findDirect"
    /\ \/ /\ conversations = {}
          /\ Goto(h, "createConv")
          /\ UNCHANGED served
       \/ /\ conversations # {}
          /\ served' = served \cup {job[h].row}
          /\ Return(h)
    /\ UNCHANGED <<tables, notices, agreed, crossed, stale, raced, cut>>

\* An existing conversation ends the accept with 200 OK and no event.
FindDirect(h) ==
    LET pair == Ends(job[h].row) IN
    /\ job[h].at = "findDirect"
    /\ \/ /\ DirectBetween(pair) = {}
          /\ raced' = IF \E g \in Handler : Opening(g, pair)
                      THEN raced \cup {pair} ELSE raced
          /\ Goto(h, "createConv")
          /\ UNCHANGED served
       \/ /\ DirectBetween(pair) # {}
          /\ served' = served \cup {job[h].row}
          /\ Return(h)
          /\ UNCHANGED raced
    /\ UNCHANGED <<tables, notices, agreed, crossed, stale, cut>>

\* Mutant: announces the conversation before it has participants.
CreateConversation_Announced(h) ==
    /\ job[h].at = "createConv"
    /\ \E c \in ConvId \ conversations :
        /\ conversations' = conversations \cup {c}
        /\ job' = [job EXCEPT ![h].at = "notifyRequester", ![h].conv = c]
    /\ UNCHANGED <<status, participants, notices, history>>

CreateConversation(h) ==
    /\ job[h].at = "createConv"
    /\ \E c \in ConvId \ conversations :
        /\ conversations' = conversations \cup {c}
        /\ job' = [job EXCEPT ![h].at = "addParticipants", ![h].conv = c]
    /\ UNCHANGED <<status, participants, notices, history>>

\* One INSERT of both rows.
AddParticipants(h) ==
    /\ job[h].at = "addParticipants"
    /\ participants' = [participants EXCEPT ![job[h].conv] = Ends(job[h].row)]
    /\ Goto(h, "notifyRequester")
    /\ UNCHANGED <<status, conversations, notices, history>>

\* conversation_created, published to `to` about `peer`, or lost.
PublishConversationCreated(h, to, peer) ==
    conversationNotices' \in {conversationNotices,
        conversationNotices \cup {[to |-> to, conv |-> job[h].conv, peer |-> peer]}}

NotifyRequester(h) ==
    /\ job[h].at = "notifyRequester"
    /\ PublishConversationCreated(h, Requester(job[h].row), Receiver(job[h].row))
    /\ Goto(h, "notifyReceiver")
    /\ UNCHANGED <<tables, requestNotices, history>>

NotifyReceiver(h) ==
    /\ job[h].at = "notifyReceiver"
    /\ PublishConversationCreated(h, Receiver(job[h].row), Requester(job[h].row))
    /\ served' = served \cup {job[h].row}
    /\ Return(h)
    /\ UNCHANGED <<tables, requestNotices, agreed, crossed, stale, raced, cut>>

-----------------------------------------------------------------------------
\* POST /friendships/reject: the same read and checks, one write.
RejectFriendRequest(h, u, r) ==
    /\ Receiver(r) = u
    /\ status[r] = "pending"
    /\ Begin(h, "reject", u, r)
    /\ UNCHANGED <<tables, notices, agreed, served, raced>>

WriteRejected(h) ==
    /\ job[h].at = "reject"
    /\ WriteStatus(h, "rejected")
    /\ Return(h)
    /\ UNCHANGED <<conversations, participants, notices, agreed, served, crossed, raced, cut>>

\* A statement fails, the client goes away or the server stops: the handler
\* returns an error and undoes nothing.
StatementFails(h) ==
    /\ job[h].at \in Statement
    /\ Return(h)
    /\ stale' = stale \ {h}
    /\ cut' = cut \cup {pair \in {Ends(job[h].row)} : job[h].at \in Linking}
    /\ UNCHANGED <<tables, notices, agreed, served, crossed, raced>>

-----------------------------------------------------------------------------
Start(h) ==
    \/ \E u, v \in User : RequestFriend(h, u, v)
    \/ \E u \in User, r \in Pair :
        AcceptFriendRequest(h, u, r) \/ RejectFriendRequest(h, u, r)

Continue(h) ==
    \/ CreateFriendship(h) \/ ReopenFriendship(h) \/ NotifyTarget(h)
    \/ WriteAccepted(h) \/ FindDirect(h) \/ CreateConversation(h)
    \/ AddParticipants(h) \/ NotifyRequester(h) \/ NotifyReceiver(h)
    \/ WriteRejected(h) \/ StatementFails(h)

Next == \E h \in Handler : Start(h) \/ Continue(h)

Spec == Init /\ [][Next]_vars

-----------------------------------------------------------------------------
(***************************************************************************)
(* Safety                                                                  *)
(***************************************************************************)

\* A conversation_created event reaches a user only when the conversation
\* is fully usable: its participants are exactly that user and the named
\* peer, however the accept that made it interleaved or failed.
ToldOnlyOfUsableConversations ==
    \A n \in conversationNotices :
        /\ n.conv \in conversations
        /\ participants[n.conv] = {n.to, n.peer}

\* Two users of whom one agreed to the other's request share a conversation,
\* or one is on its way, or a statement failed between the accept and the
\* participants: an accept of either row, by whatever mixture of requests,
\* strands nobody otherwise.  And 200 OK to an accept means that they share one
\* now, even after an earlier failure.
AgreedHaveConversation ==
    /\ \A p \in served : DirectBetween(Ends(p)) # {}
    /\ \A p \in agreed :
        \/ DirectBetween(Ends(p)) # {}
        \/ \E h \in Handler : WorksOn(h, Ends(p)) /\ job[h].at \in Linking
        \/ Ends(p) \in cut

\* A direct conversation never has a third participant or a single one.  It
\* holds nobody (its participants were not inserted) or two users of whom
\* one agreed to the other's request.
ParticipantsAgreed ==
    \A c \in conversations :
        participants[c] # {} => \E p \in agreed : participants[c] = Ends(p)

\* The table has no constraint against a reversed row: only the read before
\* the insert prevents one.  It takes two users who ask each other at once to
\* get two rows; requests of one side, reopenings, accepts, rejections and
\* failures that run beside a request cannot bring it about.
OneRowUnlessCrossed ==
    \A p \in Pair :
        Ends(p) \notin crossed =>
            ~ (status[p] # "none" /\ status[Reversed(p)] # "none")

\* Nor does any constraint prevent a second direct conversation between two
\* users.  However their requests interleave and fail, a second one takes two
\* accepts that both looked before either had inserted its participants.
OneConversationUnlessRaced ==
    \A p \in Pair :
        Ends(p) \notin raced =>
            \A c, d \in DirectBetween(Ends(p)) : c = d

\* The life of a request as the guards of the three handlers intend it.
Lifecycle == {<<"none", "pending">>, <<"pending", "accepted">>,
              <<"pending", "rejected">>, <<"rejected", "pending">>}

\* The status is written unconditionally after it was read.  What this can
\* break is exactly the window between the two: an accepted friendship is
\* undone, or a rejected one accepted, only by a request in whose window
\* another wrote the row.  Any other write, of a pair with whatever past,
\* makes a step of the lifecycle.
FreshWritesFollowLifecycle ==
    [][\A p \in Pair :
        (/\ status'[p] # status[p]
         /\ \A h \in stale : job[h].row = p => job'[h] = job[h])
            => <<status[p], status'[p]>> \in Lifecycle]_vars

-----------------------------------------------------------------------------
(***************************************************************************)
(* Refinement: the handlers implement the promise of module Consent.       *)
(***************************************************************************)
Promise == INSTANCE Consent WITH
    asked  <- {p \in Pair : status[p] # "none"},
    agreed <- agreed,
    linked <- {participants[c] : c \in conversations} \ {{}},
    told   <- {<<n.to, {n.to, n.peer}>> : n \in conversationNotices}

\* Ask, agree, link, tell happen in this order for every two users under
\* every interleaving and failure of the statements that implement them.
ConsentIsKept == Promise!Spec

-----------------------------------------------------------------------------
(***************************************************************************)
(* What a comment in the code says and the code does not do.               *)
(***************************************************************************)

\* The user notified of a friend request is the receiver of its row, the
\* one user who may answer it (friendship_handler.go:41).
NotifiedTargetCanAnswer ==
    \A n \in requestNotices : n.to = Receiver(n.row)
=============================================================================
