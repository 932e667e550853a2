------------------------------- MODULE ChatView -------------------------------
(***************************************************************************)
(* The message pane of the browser client (client/js/app.js): opening a    *)
(* conversation, paging its history backwards, incoming and own messages.  *)
(* The script has one thread, but every handler is an async function: it   *)
(* runs from one await to the next, and any other handler may run between. *)
(* An action is such a stretch.                                            *)
(*                                                                         *)
(* Of a message only its conversation and its place in the server's order  *)
(* are kept; decryption is an await that always ends (its errors become    *)
(* text).  Ties of created_at are the subject of Messages, the sidebar and *)
(* the typing indicator are other components.                              *)
(***************************************************************************)
EXTENDS Naturals, Sequences, SequencesExt, Functions

CONSTANTS
    Conv,
    Group,          \* the conversations whose key may have to be decrypted first
    LoadCall,       \* calls of loadMessages in flight at the same time
    SendCall,       \* calls of handleSend in flight at the same time
    PageSize,
    MaxMessages,    \* bound on the messages stored, in all conversations
    NoConv          \* currentConversationId = null

ASSUME ChatViewAssumption ==
    /\ Group \subseteq Conv
    /\ NoConv \notin Conv
    /\ PageSize \in Nat \ {0}
    /\ MaxMessages \in Nat

VARIABLES
    log,            \* the server: who sent each message, in order of created_at
    transit,        \* messages of others whose publication has not arrived (or is lost)
    open,           \* currentConversationId
    pane,           \* els.messagesContainer, top to bottom
    oldest,         \* oldestMessageTimestamp as a place in the log, 0 for null
    isLoadingMore,
    load,           \* the calls of loadMessages
    decrypting,     \* messages handleIncomingMessage awaits the text of
    send,           \* the calls of handleSend
    disturbed,      \* history: none is open, or it was opened amid other calls
    failed,         \* history: its first load failed
    crossed         \* history: its messages that were shown, or on their way, when
                    \* its first page was read

session == <<open, pane, oldest, isLoadingMore>>
history == <<disturbed, failed, crossed>>
vars == <<log, transit, session, load, decrypting, send, history>>

-----------------------------------------------------------------------------
Place == Nat \ {0}
Stored == FoldFunction(+, 0, [c \in Conv |-> Len(log[c])])
Message == Conv \X Place
Entry == [conv : Conv, place : Place, from : {"history", "live", "own"}]

Idle == [at |-> "idle"]
Loading == [at : {"key", "ask", "answered", "prepend"},
            conv : Conv, before : Place \cup {0}, page : Seq(Place)]
Sending == [at : {"encrypt", "post", "posted"}, for : Conv,
            conv : Conv \cup {NoConv}, place : Place \cup {0}]

TypeOK ==
    /\ log \in [Conv -> Seq({"me", "peer"})]
    /\ transit \subseteq Message
    /\ open \in Conv \cup {NoConv}
    /\ pane \in Seq(Entry)
    /\ oldest \in Place \cup {0}
    /\ isLoadingMore \in BOOLEAN
    /\ load \in [LoadCall -> {Idle} \cup Loading]
    /\ decrypting \subseteq Message
    /\ send \in [SendCall -> {Idle} \cup Sending]
    /\ disturbed \in BOOLEAN
    /\ failed \in BOOLEAN
    /\ crossed \subseteq Place

Init ==
    /\ log = [c \in Conv |-> <<>>]
    /\ transit = {}
    /\ open = NoConv
    /\ pane = <<>>
    /\ oldest = 0
    /\ isLoadingMore = FALSE
    /\ load = [l \in LoadCall |-> Idle]
    /\ decrypting = {}
    /\ send = [s \in SendCall |-> Idle]
    /\ disturbed = TRUE
    /\ failed = FALSE
    /\ crossed = {}

CallsInFlight == (\E l \in LoadCall : load[l] # Idle) \/ (\E s \in SendCall : send[s] # Idle)

-----------------------------------------------------------------------------
\* Another participant's message is stored and its publication leaves.
PeerSends(c) ==
    /\ Stored < MaxMessages
    /\ log' = [log EXCEPT ![c] = Append(@, "peer")]
    /\ transit' = transit \cup {<<c, Len(log[c]) + 1>>}
    /\ UNCHANGED <<session, load, decrypting, send, history>>

(* openConversation: the pane and the cursor are reset, whatever is still   *)
(* under way for the previous conversation; then the history is loaded, for *)
(* a group after its key when that is not in the cache.                     *)
OpenConversation(l, c) ==
    /\ load[l] = Idle
    /\ open' = c
    /\ pane' = <<>>
    /\ oldest' = 0
    /\ disturbed' = CallsInFlight
    /\ failed' = FALSE
    /\ crossed' = {}
    /\ \E at \in IF c \in Group THEN {"key", "ask"} ELSE {"ask"} :
        /\ load' = [load EXCEPT ![l] = [at |-> at, conv |-> c, before |-> 0, page |-> <<>>]]
        /\ isLoadingMore' = (at = "ask" \/ isLoadingMore)
    /\ UNCHANGED <<log, transit, decrypting, send>>

\* The key is there, or is not and a banner says so.
LoadGroupKey(l) ==
    /\ load[l].at = "key"
    /\ load' = [load EXCEPT ![l].at = "ask"]
    /\ isLoadingMore' = TRUE
    /\ UNCHANGED <<log, transit, open, pane, oldest, decrypting, send, history>>

\* Mutant: does not look whether a load is under way.
HandleScrollHistory_Unguarded(l) ==
    /\ load[l] = Idle
    /\ open # NoConv
    /\ oldest # 0
    /\ load' = [load EXCEPT ![l] =
            [at |-> "ask", conv |-> open, before |-> oldest, page |-> <<>>]]
    /\ isLoadingMore' = TRUE
    /\ UNCHANGED <<log, transit, open, pane, oldest, decrypting, send, history>>

HandleScrollHistory(l) ==
    /\ load[l] = Idle
    /\ ~isLoadingMore
    /\ open # NoConv
    /\ oldest # 0
    /\ load' = [load EXCEPT ![l] =
            [at |-> "ask", conv |-> open, before |-> oldest, page |-> <<>>]]
    /\ isLoadingMore' = TRUE
    /\ UNCHANGED <<log, transit, open, pane, oldest, decrypting, send, history>>

\* The server's answer, newest first: the last PageSize messages before the
\* cursor.  It may be out of date when it arrives.  A cursor left by a load of
\* another conversation is a time like any other.
Page(c, before) ==
    LET below == IF before \in 1..Len(log[c]) THEN before - 1 ELSE Len(log[c])
        size == IF below < PageSize THEN below ELSE PageSize IN
    [i \in 1..size |-> below + 1 - i]

OnTheirWay(c) ==
    {n \in 1..Len(log[c]) :
        \/ <<c, n>> \in transit \cup decrypting
        \/ \E s \in SendCall : send[s].at = "posted" /\ send[s].conv = c /\ send[s].place = n
        \/ \E i \in 1..Len(pane) : pane[i].conv = c /\ pane[i].place = n}

AnswerPage(l) ==
    LET c == load[l].conv IN
    /\ load[l].at = "ask"
    /\ load' = [load EXCEPT ![l].at = "answered", ![l].page = Page(c, load[l].before)]
    /\ crossed' = IF load[l].before = 0 /\ ~disturbed
                THEN OnTheirWay(c) ELSE crossed
    /\ UNCHANGED <<log, transit, session, decrypting, send, disturbed, failed>>

\* The finally block of loadMessages.
EndLoad(l) ==
    /\ load' = [load EXCEPT ![l] = Idle]
    /\ isLoadingMore' = FALSE

\* The cursor moves at once, the messages follow one by one.
ReceivePage(l) ==
    /\ load[l].at = "answered"
    /\ IF load[l].page = <<>>
       THEN EndLoad(l) /\ UNCHANGED oldest
       ELSE /\ oldest' = Last(load[l].page)
            /\ load' = [load EXCEPT ![l].at = "prepend"]
            /\ UNCHANGED isLoadingMore
    /\ UNCHANGED <<log, transit, open, pane, decrypting, send, history>>

\* prependMessageToUI after its await: on top of the pane, whichever
\* conversation the pane shows by now.
PrependMessage(l) ==
    LET j == load[l] IN
    /\ j.at = "prepend"
    /\ pane' = <<[conv |-> j.conv, place |-> Head(j.page), from |-> "history"]>> \o pane
    /\ IF Len(j.page) = 1
       THEN EndLoad(l)
       ELSE load' = [load EXCEPT ![l].page = Tail(@)] /\ UNCHANGED isLoadingMore
    /\ UNCHANGED <<log, transit, open, oldest, decrypting, send, history>>

\* Mutant: isLoadingMore is reset on success only.
LoadFails_StaysLocked(l) ==
    /\ load[l].at \in {"ask", "answered"}
    /\ load' = [load EXCEPT ![l] = Idle]
    /\ failed' = (failed \/ (load[l].before = 0 /\ ~disturbed))
    /\ UNCHANGED <<log, transit, session, decrypting, send, disturbed, crossed>>

LoadFails(l) ==
    /\ load[l].at \in {"ask", "answered"}
    /\ EndLoad(l)
    /\ failed' = (failed \/ (load[l].before = 0 /\ ~disturbed))
    /\ UNCHANGED <<log, transit, open, pane, oldest, decrypting, send, disturbed, crossed>>

-----------------------------------------------------------------------------
\* A publication arrives; handleIncomingMessage awaits the text.
HandleIncomingMessage(m) ==
    /\ m \in transit
    /\ transit' = transit \ {m}
    /\ decrypting' = decrypting \cup {m}
    /\ UNCHANGED <<log, session, load, send, history>>

Below(m, from) == Append(pane, [conv |-> m[1], place |-> m[2], from |-> from])

\* Mutant: waits for no one: a message that arrives during a load is dropped.
AppendIncoming_DropWhileLoading(m) ==
    /\ m \in decrypting
    /\ decrypting' = decrypting \ {m}
    /\ pane' = IF m[1] = open /\ ~isLoadingMore THEN Below(m, "live") ELSE pane
    /\ UNCHANGED <<log, transit, open, oldest, isLoadingMore, load, send, history>>

AppendIncoming(m) ==
    /\ m \in decrypting
    /\ decrypting' = decrypting \ {m}
    /\ pane' = IF m[1] = open THEN Below(m, "live") ELSE pane
    /\ UNCHANGED <<log, transit, open, oldest, isLoadingMore, load, send, history>>

-----------------------------------------------------------------------------
(* handleSend: the text is encrypted for the participants of the open       *)
(* conversation, then posted to the open conversation, then appended to the *)
(* pane; each of the three reads what is open at its own moment.  Enter     *)
(* starts another call while one is under way.                              *)
HandleSend(s) ==
    /\ send[s] = Idle
    /\ open # NoConv
    /\ send' = [send EXCEPT ![s] =
            [at |-> "encrypt", for |-> open, conv |-> NoConv, place |-> 0]]
    /\ UNCHANGED <<log, transit, session, load, decrypting, history>>

PostMessage(s) ==
    /\ send[s].at = "encrypt"
    /\ open # NoConv
    /\ send' = [send EXCEPT ![s].at = "post", ![s].conv = open]
    /\ UNCHANGED <<log, transit, session, load, decrypting, history>>

\* Mutant: the publication of an own message is not ignored.
StoreOwnMessage_Echoed(s) ==
    LET c == send[s].conv IN
    /\ send[s].at = "post"
    /\ Stored < MaxMessages
    /\ log' = [log EXCEPT ![c] = Append(@, "me")]
    /\ transit' = transit \cup {<<c, Len(log[c]) + 1>>}
    /\ send' = [send EXCEPT ![s].at = "posted", ![s].place = Len(log[c]) + 1]
    /\ UNCHANGED <<session, load, decrypting, history>>

\* Its publication comes back to the user as well and is ignored there
\* (handleIncomingMessage looks who sent it), so it is not put into transit.
StoreOwnMessage(s) ==
    LET c == send[s].conv IN
    /\ send[s].at = "post"
    /\ Stored < MaxMessages
    /\ log' = [log EXCEPT ![c] = Append(@, "me")]
    /\ send' = [send EXCEPT ![s].at = "posted", ![s].place = Len(log[c]) + 1]
    /\ UNCHANGED <<transit, session, load, decrypting, history>>

\* Mutant: the appended message has no place in the conversation.
AppendOwn_Unplaced(s) ==
    /\ send[s].at = "posted"
    /\ pane' = Below(<<send[s].conv, 0>>, "own")
    /\ send' = [send EXCEPT ![s] = Idle]
    /\ UNCHANGED <<log, transit, open, oldest, isLoadingMore, load, decrypting, history>>

AppendOwn(s) ==
    /\ send[s].at = "posted"
    /\ pane' = Below(<<send[s].conv, send[s].place>>, "own")
    /\ send' = [send EXCEPT ![s] = Idle]
    /\ UNCHANGED <<log, transit, open, oldest, isLoadingMore, load, decrypting, history>>

\* No key, a refusal or a lost answer: the user is alerted.
SendFails(s) ==
    /\ send[s] # Idle
    /\ send' = [send EXCEPT ![s] = Idle]
    /\ UNCHANGED <<log, transit, session, load, decrypting, history>>

\* handleLogout: no conversation is open; the calls under way go on.
HandleLogout ==
    /\ open # NoConv
    /\ open' = NoConv
    /\ disturbed' = TRUE
    /\ failed' = FALSE
    /\ crossed' = {}
    /\ UNCHANGED <<log, transit, pane, oldest, isLoadingMore, load, decrypting, send>>

-----------------------------------------------------------------------------
Next ==
    \/ \E c \in Conv : PeerSends(c)
    \/ \E l \in LoadCall :
        \/ \E c \in Conv : OpenConversation(l, c)
        \/ LoadGroupKey(l) \/ HandleScrollHistory(l)
        \/ AnswerPage(l) \/ ReceivePage(l) \/ PrependMessage(l) \/ LoadFails(l)
    \/ \E m \in transit \cup decrypting : HandleIncomingMessage(m) \/ AppendIncoming(m)
    \/ \E s \in SendCall :
        \/ HandleSend(s) \/ PostMessage(s) \/ StoreOwnMessage(s) \/ AppendOwn(s)
        \/ SendFails(s)
    \/ HandleLogout

Spec == Init /\ [][Next]_vars

-----------------------------------------------------------------------------
(***************************************************************************)
(* Safety                                                                  *)
(***************************************************************************)

Undisturbed == ~disturbed

\* A conversation that was opened while nothing else was under way shows
\* its own messages only: on top one unbroken, ascending stretch of its
\* history that starts, when no load is under way, at the cursor; below it
\* what arrived or was sent since.  What the user sends there is posted to the
\* conversation it was encrypted for.
PaneIsUnbroken ==
    Undisturbed =>
        /\ \A i \in 1..Len(pane) :
            /\ pane[i].conv = open
            /\ pane[i].from = "history" =>
                /\ \A j \in 1..i : pane[j].from = "history"
                /\ pane[i].place = pane[1].place + i - 1
                /\ ~isLoadingMore => pane[1].place = oldest
        /\ \A s \in SendCall : send[s].at \in {"post", "posted"} => send[s].conv = send[s].for

\* A message is shown at most twice, by the history and then as it arrives or
\* is sent; and twice only if it crossed the first page, which was read when
\* the message was stored but not yet shown, or shown already.
ShownOnce ==
    Undisturbed =>
        \A i, j \in 1..Len(pane) : (i < j /\ pane[i].place = pane[j].place) =>
            /\ pane[i].from = "history" /\ pane[j].from # "history"
            /\ pane[i].place \in crossed

\* No message of another user falls between the history and what arrives:
\* once the first page is answered every one that is not older than the page
\* is shown, about to be, or still on its way.
NothingMissed ==
    (Undisturbed /\ ~failed) =>
        \A n \in 1..Len(log[open]) : log[open][n] = "peer" =>
            \/ \E l \in LoadCall :
                /\ load[l] # Idle
                /\ \/ load[l].at \in {"key", "ask"} /\ load[l].before = 0
                   \/ n \in Range(load[l].page)
                   \/ load[l].page # <<>> /\ n < Last(load[l].page)
            \/ n < oldest
            \/ \E i \in 1..Len(pane) : pane[i].conv = open /\ pane[i].place = n
            \/ <<open, n>> \in transit \cup decrypting

\* isLoadingMore never outlives the loads, so scrolling is never locked for
\* good; and in a conversation opened amid nothing else it keeps the loads to
\* one at a time.
LoadsAreGuarded ==
    /\ isLoadingMore => \E l \in LoadCall : load[l] # Idle /\ load[l].at # "key"
    /\ Undisturbed => \A k, l \in LoadCall : load[k] # Idle /\ load[l] # Idle => k = l
=============================================================================
