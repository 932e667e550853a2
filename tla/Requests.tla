------------------------------- MODULE Requests -------------------------------
(***************************************************************************)
(* The friend requests a browser client shows (client/js/app.js): the      *)
(* cards of the sidebar, friendRequests, filled by an answer of GET        *)
(* /friendships/pending and by NEW_FRIEND_REQUEST events, and the dialog   *)
(* of pending requests.  Accepting and ignoring a request are calls whose  *)
(* handlers go on after the awaits.                                        *)
(*                                                                         *)
(* The server is one step per call: what its statements do to each other   *)
(* is the business of Friendship.  A request is a row addressed to this    *)
(* user.  Equal cards are told apart by their number only.                 *)
(***************************************************************************)
EXTENDS Naturals

CONSTANTS
    Request,
    Call,       \* handlers under way at the same time
    MaxAsks,    \* bound: requests made by other users
    NoRequest

ASSUME NoRequestAssumption == NoRequest \notin Request
ASSUME MaxAsksAssumption == MaxAsks \in Nat

VARIABLES
    status,         \* table friendships
    coming,         \* events published and not delivered
    asks,
    loggedIn,
    friendRequests, \* the number of cards of a request
    pendingList,    \* the dialog's items, none when it is closed
    call,
    due,            \* history: requests that must have a card
    astray          \* history: requests whose card may outlive them

server == <<status, coming, asks>>
vars   == <<server, loggedIn, friendRequests, pendingList, call, due, astray>>

-----------------------------------------------------------------------------
\* card: the card that was clicked is still on the screen, its buttons
\* disabled.
Idle == [at |-> "idle", request |-> NoRequest]
Answering == [at : {"answer", "answered"}, request : Request, action : {"accept", "reject"},
              from : {"card", "dialog"}, card : BOOLEAN, ok : BOOLEAN]
Loading == [at : {"dashboard", "dialog"}, request : Request \cup {NoRequest},
            from : {"card", "dialog"}, card : BOOLEAN]
              \cup [at : {"pending", "dialogPending"}, request : Request \cup {NoRequest},
                    from : {"card", "dialog"}, card : BOOLEAN, rows : SUBSET Request]

TypeOK ==
    /\ status \in [Request -> {"none", "pending", "accepted", "rejected"}]
    /\ coming \in [Request -> 0..MaxAsks]
    /\ asks \in 0..MaxAsks
    /\ loggedIn \in BOOLEAN
    /\ friendRequests \in [Request -> 0..(MaxAsks + 1)]
    /\ pendingList \subseteq Request
    /\ call \in [Call -> {Idle} \cup Answering \cup Loading]
    /\ due \subseteq Request
    /\ astray \subseteq Request

Init ==
    /\ status = [r \in Request |-> "none"]
    /\ coming = [r \in Request |-> 0]
    /\ asks = 0
    /\ loggedIn = FALSE
    /\ friendRequests = [r \in Request |-> 0]
    /\ pendingList = {}
    /\ call = [h \in Call |-> Idle]
    /\ due = {}
    /\ astray = {}

Pending == {r \in Request : status[r] = "pending"}

\* A list of pending requests on its way to the cards.
InHand(h) == call[h].at = "pending"

\* Nobody but the user himself can take the card of r away: no list without
\* it is on its way, no handler is about to filter it.
Secure(r, others) == \A h \in others :
    /\ InHand(h) => r \in call[h].rows
    /\ call[h].request = r => call[h].from = "dialog" \/ call[h].at = "answer"

-----------------------------------------------------------------------------
(* Other users, and events on the personal channel.                        *)

Ask(r) ==
    /\ asks < MaxAsks
    /\ status[r] \in {"none", "rejected"}
    /\ asks' = asks + 1
    /\ status' = [status EXCEPT ![r] = "pending"]
    /\ coming' = [coming EXCEPT ![r] = @ + 1]
    /\ astray' = astray \ {r}
    /\ UNCHANGED <<loggedIn, friendRequests, pendingList, call, due>>

\* This user asks back whom he rejected: the row is reopened as it stands,
\* and the event goes to the other user.
AskBack(r) ==
    /\ status[r] = "rejected"
    /\ status' = [status EXCEPT ![r] = "pending"]
    /\ astray' = astray \ {r}
    /\ UNCHANGED <<coming, asks, loggedIn, friendRequests, pendingList, call, due>>

\* updateFriendRequestsUI makes all cards anew.
Rerendered(calls) ==
    [h \in Call |-> IF calls[h] = Idle THEN Idle ELSE [calls[h] EXCEPT !.card = FALSE]]

\* Mutant: an event is handled again and again.
HandleNewRequest_Again(r) ==
    /\ loggedIn
    /\ coming[r] > 0
    /\ friendRequests' = [friendRequests EXCEPT ![r] = @ + 1]
    /\ call' = Rerendered(call)
    /\ UNCHANGED <<server, loggedIn, pendingList, due, astray>>

\* NEW_FRIEND_REQUEST: one more card, whether or not there is one.
HandleNewRequest(r) ==
    /\ loggedIn
    /\ coming[r] > 0
    /\ coming' = [coming EXCEPT ![r] = @ - 1]
    /\ friendRequests' = [friendRequests EXCEPT ![r] = @ + 1]
    /\ call' = Rerendered(call)
    /\ due' = IF r \in Pending /\ Secure(r, Call) THEN due \cup {r} ELSE due
    /\ UNCHANGED <<status, asks, loggedIn, pendingList, astray>>

LoseEvent(r) ==
    /\ coming[r] > 0
    /\ coming' = [coming EXCEPT ![r] = @ - 1]
    /\ UNCHANGED <<status, asks, loggedIn, friendRequests, pendingList, call, due, astray>>

-----------------------------------------------------------------------------
(* Accepting and ignoring.                                                 *)

Answer(h, r, action, from) ==
    /\ call[h] = Idle
    /\ call' = [call EXCEPT ![h] = [at |-> "answer", request |-> r, action |-> action,
                                    from |-> from, card |-> from = "card", ok |-> FALSE]]
    /\ UNCHANGED <<server, loggedIn, friendRequests, pendingList, due, astray>>

\* The buttons are looked up by the id of the request: those of the first
\* card are disabled, those of a second one never.
HandleFriendRequestAction(h, r, action) ==
    /\ loggedIn
    /\ \/ friendRequests[r] > 1
       \/ friendRequests[r] = 1 /\ \A g \in Call : call[g].request = r => ~call[g].card
    /\ Answer(h, r, action, "card")

AnswerInDialog(h, r, action) ==
    /\ loggedIn
    /\ r \in pendingList
    /\ Answer(h, r, action, "dialog")

\* The server's part.  It may fail after it wrote the status, or its answer
\* be lost.
ServeAnswer(h) ==
    LET j == call[h]
        r == j.request IN
    /\ j.at = "answer"
    /\ r \in Pending
    /\ status' = [status EXCEPT ![r] = IF j.action = "accept" THEN "accepted" ELSE "rejected"]
    /\ \E ok \in BOOLEAN :
        /\ call' = [call EXCEPT ![h].at = "answered", ![h].ok = ok]
        /\ astray' = IF \/ ~ok
                        \/ coming[r] > 0
                        \/ j.from = "dialog" /\ j.action = "reject"
                        \/ \E g \in Call : InHand(g) /\ r \in call[g].rows
                     THEN astray \cup {r} ELSE astray
    /\ due' = due \ {r}
    /\ UNCHANGED <<coming, asks, loggedIn, friendRequests, pendingList>>

\* A request that is not pending any more is refused; any call may fail.
RefuseAnswer(h) ==
    /\ call[h].at = "answer"
    /\ call' = [call EXCEPT ![h].at = "answered"]
    /\ UNCHANGED <<server, loggedIn, friendRequests, pendingList, due, astray>>

AnswerFailed(h) ==
    /\ call[h].at = "answered"
    /\ ~call[h].ok
    /\ call' = [call EXCEPT ![h] = Idle]
    /\ UNCHANGED <<server, loggedIn, friendRequests, pendingList, due, astray>>

\* Mutant: an ignored card stays until the next list.
Ignored_Kept(h) ==
    LET j == call[h] IN
    /\ j.at = "answered" /\ j.ok /\ j.action = "reject" /\ j.from = "card"
    /\ call' = [call EXCEPT ![h] = Idle]
    /\ UNCHANGED <<server, loggedIn, friendRequests, pendingList, due, astray>>

\* Every card of the request is filtered out.
Ignored(h) ==
    LET j == call[h] IN
    /\ j.at = "answered" /\ j.ok /\ j.action = "reject" /\ j.from = "card"
    /\ friendRequests' = [friendRequests EXCEPT ![j.request] = 0]
    /\ call' = Rerendered([call EXCEPT ![h] = Idle])
    /\ UNCHANGED <<server, loggedIn, pendingList, due, astray>>

\* handleRejectRequest opens the dialog again and leaves the cards alone.
RejectedInDialog(h) ==
    LET j == call[h] IN
    /\ j.at = "answered" /\ j.ok /\ j.action = "reject" /\ j.from = "dialog"
    /\ call' = [call EXCEPT ![h] = [at |-> "dialog", request |-> NoRequest,
                                    from |-> "dialog", card |-> FALSE]]
    /\ UNCHANGED <<server, loggedIn, friendRequests, pendingList, due, astray>>

\* The dashboard is loaded before the card goes; handleAcceptRequest closes
\* the dialog first.
Accepted(h) ==
    LET j == call[h] IN
    /\ j.at = "answered" /\ j.ok /\ j.action = "accept"
    /\ pendingList' = IF j.from = "dialog" THEN {} ELSE pendingList
    /\ call' = [call EXCEPT ![h] = [at |-> "dashboard", request |-> j.request,
                                    from |-> j.from, card |-> j.card]]
    /\ UNCHANGED <<server, loggedIn, friendRequests, due, astray>>

-----------------------------------------------------------------------------
(* fetchFriendRequests, the last step of loadDashboard.                    *)

\* Mutant: the list is emptied while the new one is awaited.
LoadDashboard_ClearFirst(h) ==
    /\ call[h] = Idle
    /\ loggedIn' = TRUE
    /\ call' = [call EXCEPT ![h] = [at |-> "dashboard", request |-> NoRequest,
                                    from |-> "dialog", card |-> FALSE]]
    /\ friendRequests' = [r \in Request |-> 0]
    /\ UNCHANGED <<server, pendingList, due, astray>>

\* A login, or a new group.
LoadDashboard(h) ==
    /\ call[h] = Idle
    /\ loggedIn' = TRUE
    /\ call' = [call EXCEPT ![h] = [at |-> "dashboard", request |-> NoRequest,
                                    from |-> "dialog", card |-> FALSE]]
    /\ UNCHANGED <<server, friendRequests, pendingList, due, astray>>

GetPendingRequests(h) ==
    /\ call[h].at \in {"dashboard", "dialog"}
    /\ call' = [call EXCEPT ![h] =
            [at |-> IF call[h].at = "dashboard" THEN "pending" ELSE "dialogPending",
             request |-> call[h].request, from |-> call[h].from, card |-> call[h].card,
             rows |-> Pending]]
    /\ UNCHANGED <<server, loggedIn, friendRequests, pendingList, due, astray>>

\* handleFriendRequestAction filters the request it was about out of the
\* list that has come.
FetchFriendRequests(h) ==
    LET j == call[h]
        rows == IF j.from = "card" THEN j.rows \ {j.request} ELSE j.rows IN
    /\ InHand(h)
    /\ friendRequests' = [r \in Request |-> IF r \in rows THEN 1 ELSE 0]
    /\ call' = Rerendered([call EXCEPT ![h] = Idle])
    /\ due' = due \cup {r \in rows \cap Pending : Secure(r, Call \ {h})}
    /\ UNCHANGED <<server, loggedIn, pendingList, astray>>

\* loadDashboard logs its errors and returns as if there were none.
FetchFails(h) ==
    LET j == call[h]
        answered == IF j.request \in Request \ Pending THEN {j.request} ELSE {} IN
    /\ j.at \in {"dashboard", "pending"}
    /\ IF j.from = "card"
       THEN /\ friendRequests' = [friendRequests EXCEPT ![j.request] = 0]
            /\ call' = Rerendered([call EXCEPT ![h] = Idle])
            /\ UNCHANGED astray
       ELSE /\ call' = [call EXCEPT ![h] = Idle]
            /\ astray' = astray \cup answered
            /\ UNCHANGED friendRequests
    /\ UNCHANGED <<server, loggedIn, pendingList, due>>

-----------------------------------------------------------------------------
(* The dialog.                                                             *)

HandleOpenPending(h) ==
    /\ loggedIn
    /\ call[h] = Idle
    /\ call' = [call EXCEPT ![h] = [at |-> "dialog", request |-> NoRequest,
                                    from |-> "dialog", card |-> FALSE]]
    /\ UNCHANGED <<server, loggedIn, friendRequests, pendingList, due, astray>>

ShowPending(h) ==
    /\ call[h].at = "dialogPending"
    /\ pendingList' = call[h].rows
    /\ call' = [call EXCEPT ![h] = Idle]
    /\ UNCHANGED <<server, loggedIn, friendRequests, due, astray>>

OpenPendingFails(h) ==
    /\ call[h].at \in {"dialog", "dialogPending"}
    /\ call' = [call EXCEPT ![h] = Idle]
    /\ UNCHANGED <<server, loggedIn, friendRequests, pendingList, due, astray>>

ClosePending ==
    /\ pendingList # {}
    /\ pendingList' = {}
    /\ UNCHANGED <<server, loggedIn, friendRequests, call, due, astray>>

\* The cards, the dialog and the handlers under way stay as they are.
HandleLogout ==
    /\ loggedIn
    /\ loggedIn' = FALSE
    /\ UNCHANGED <<server, friendRequests, pendingList, call, due, astray>>

-----------------------------------------------------------------------------
Step ==
    \/ \E r \in Request : Ask(r) \/ AskBack(r) \/ HandleNewRequest(r) \/ LoseEvent(r)
    \/ \E h \in Call :
        \/ \E r \in Request, action \in {"accept", "reject"} :
            HandleFriendRequestAction(h, r, action) \/ AnswerInDialog(h, r, action)
        \/ ServeAnswer(h) \/ RefuseAnswer(h) \/ AnswerFailed(h)
        \/ Ignored(h) \/ RejectedInDialog(h) \/ Accepted(h)
        \/ LoadDashboard(h) \/ GetPendingRequests(h) \/ FetchFriendRequests(h) \/ FetchFails(h)
        \/ HandleOpenPending(h) \/ ShowPending(h) \/ OpenPendingFails(h)
    \/ ClosePending

Next == Step \/ HandleLogout

Spec == Init /\ [][Next]_vars

-----------------------------------------------------------------------------
\* A request the user was told of, by an event or a list, while no list
\* without it was on its way and no handler was about to filter it, keeps its
\* card until it is answered, through all lists and answers that follow.
ToldIsListed == \A r \in due : friendRequests[r] > 0

\* A request that was answered loses all its cards with the last handler that
\* is about it.  A card stays only when the request was rejected in the
\* dialog, when the answer failed after it took effect or the list after an
\* accept did, or when an event or a list from before was still on its way.
AnsweredIsGone ==
    \A r \in Request \ Pending :
        friendRequests[r] > 0 => r \in astray \/ \E h \in Call : call[h].request = r
=============================================================================
