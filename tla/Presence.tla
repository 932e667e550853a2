------------------------------- MODULE Presence -------------------------------
(***************************************************************************)
(* The presence of one user (users do not interact: one Redis key each).   *)
(* Centrifugo calls the server when a connection opens and when it closes, *)
(* clients send heartbeats; each call writes the key and, but for the      *)
(* heartbeat, broadcasts the status on the channels of the user's          *)
(* conversations (webhook_handler.go, presence_handler.go,                 *)
(* chat_business.go, redis_store.go).                                      *)
(***************************************************************************)
EXTENDS Naturals

CONSTANTS
    Conn,           \* the user's connections to Centrifugo, browser tabs
    Handler,        \* the calls that may be in flight at the same time
    Channel,        \* the channels of the user's conversations
    TTL             \* presenceTTL, in ticks

ASSUME TTLAssumption == TTL \in Nat \ {0}

VARIABLES
    connected,      \* the connections that are open (external: Centrifugo)
    status,         \* the key: "online", "offline", or "none" when there is none
    ttl,            \* ticks before an online key expires
    shown,          \* channel -> the status its subscribers were last told
    job,            \* what each in-flight call is doing
    orderly,        \* history: since the last moment that restores order, calls came
                    \* one at a time, from one connection, and none was lost or failed
    missed          \* history: channels whose latest broadcast was lost

vars == <<connected, status, ttl, shown, job, orderly, missed>>

-----------------------------------------------------------------------------
Idle == [at |-> "idle"]
Calls == [at : {"write"}, call : {"connect"}, conn : Conn]
            \cup [at : {"write"}, call : {"disconnect", "heartbeat"}]
            \cup [at : {"broadcast"}, call : {"connect"}, conn : Conn,
                  left : SUBSET Channel]
            \cup [at : {"broadcast"}, call : {"disconnect"}, left : SUBSET Channel]

TypeOK ==
    /\ connected \subseteq Conn
    /\ status \in {"none", "online", "offline"}
    /\ ttl \in 0..TTL
    /\ shown \in [Channel -> {"none", "online", "offline"}]
    /\ job \in [Handler -> {Idle} \cup Calls]
    /\ orderly \in BOOLEAN
    /\ missed \subseteq Channel

Init ==
    /\ connected = {}
    /\ status = "none"
    /\ ttl = 0
    /\ shown = [ch \in Channel |-> "none"]
    /\ job = [h \in Handler |-> Idle]
    /\ orderly = TRUE
    /\ missed = {}

Alone(h) == \A g \in Handler \ {h} : job[g] = Idle
Quiet == \A h \in Handler : job[h] = Idle

\* No key is right for a user without connection: its end restores order.
OrderWithKeyGone(gone) == orderly' = (orderly \/ (gone /\ Quiet /\ connected = {}))

-----------------------------------------------------------------------------
\* POST /centrifugo/connect, for a connection that is about to open.  When it
\* is the only one, and its call too, it restores order.
OnConnect(h, x) ==
    /\ job[h] = Idle
    /\ x \notin connected
    /\ job' = [job EXCEPT ![h] = [at |-> "write", call |-> "connect", conn |-> x]]
    /\ orderly' = (Alone(h) /\ connected = {})
    /\ UNCHANGED <<connected, status, ttl, shown, missed>>

\* POST /centrifugo/disconnect, for a connection that has closed; order is
\* restored when it was the last one, and the call is alone.
OnDisconnect(h, x) ==
    /\ job[h] = Idle
    /\ x \in connected
    /\ connected' = connected \ {x}
    /\ job' = [job EXCEPT ![h] = [at |-> "write", call |-> "disconnect"]]
    /\ orderly' = (Alone(h) /\ connected = {x})
    /\ UNCHANGED <<status, ttl, shown, missed>>

\* External: a connection closes and the call does not reach the server.
LoseDisconnect(x) ==
    /\ x \in connected
    /\ connected' = connected \ {x}
    /\ orderly' = FALSE
    /\ UNCHANGED <<status, ttl, shown, job, missed>>

\* POST /users/heartbeat: any holder of a token may send it.
Heartbeat(h) ==
    /\ job[h] = Idle
    /\ job' = [job EXCEPT ![h] = [at |-> "write", call |-> "heartbeat"]]
    /\ orderly' = (orderly /\ Alone(h) /\ connected # {})
    /\ UNCHANGED <<connected, status, ttl, shown, missed>>

-----------------------------------------------------------------------------
\* The connection whose call is answered opens, unless Centrifugo's proxy
\* timeout has passed.
Answer(h) ==
    /\ job' = [job EXCEPT ![h] = Idle]
    /\ IF job[h].call = "connect"
       THEN \/ connected' = connected \cup {job[h].conn} /\ UNCHANGED orderly
            \/ connected' = connected /\ orderly' = FALSE
       ELSE UNCHANGED <<connected, orderly>>

\* Mutant: the status is written in the spelling of the client.
SetUserOnline_Uppercase(h) ==
    /\ job[h].at = "write"
    /\ job[h].call = "connect"
    /\ status' = "ONLINE"
    /\ ttl' = TTL
    /\ job' = [job EXCEPT ![h] = [at |-> "broadcast", call |-> "connect",
                                  conn |-> job[h].conn, left |-> Channel]]
    /\ UNCHANGED <<connected, shown, orderly, missed>>

SetUserOnline(h) ==
    /\ job[h].at = "write"
    /\ job[h].call = "connect"
    /\ status' = "online"
    /\ ttl' = TTL
    /\ job' = [job EXCEPT ![h] = [at |-> "broadcast", call |-> "connect",
                                  conn |-> job[h].conn, left |-> Channel]]
    /\ UNCHANGED <<connected, shown, orderly, missed>>

\* Mutant: the offline status is broadcast and not stored.
SetUserOffline_BroadcastOnly(h) ==
    /\ job[h].at = "write"
    /\ job[h].call = "disconnect"
    /\ job' = [job EXCEPT ![h] = [at |-> "broadcast", call |-> "disconnect",
                                  left |-> Channel]]
    /\ UNCHANGED <<connected, status, ttl, shown, orderly, missed>>

SetUserOffline(h) ==
    /\ job[h].at = "write"
    /\ job[h].call = "disconnect"
    /\ status' = "offline"
    /\ ttl' = 0
    /\ job' = [job EXCEPT ![h] = [at |-> "broadcast", call |-> "disconnect",
                                  left |-> Channel]]
    /\ UNCHANGED <<connected, shown, orderly, missed>>

\* Mutant: the heartbeat writes the key without a TTL.
RefreshPresence_Persist(h) ==
    /\ job[h].at = "write"
    /\ job[h].call = "heartbeat"
    /\ status' = "online"
    /\ ttl' = 0
    /\ job' = [job EXCEPT ![h] = Idle]
    /\ UNCHANGED <<connected, shown, orderly, missed>>

\* No broadcast.
RefreshPresence(h) ==
    /\ job[h].at = "write"
    /\ job[h].call = "heartbeat"
    /\ status' = "online"
    /\ ttl' = TTL
    /\ job' = [job EXCEPT ![h] = Idle]
    /\ UNCHANGED <<connected, shown, orderly, missed>>

\* Redis fails: the webhooks log it and answer as usual, there is no broadcast.
WriteFails(h) ==
    /\ job[h].at = "write"
    /\ job' = [job EXCEPT ![h] = Idle]
    /\ connected' \in IF job[h].call = "connect"
                      THEN {connected, connected \cup {job[h].conn}}
                      ELSE {connected}
    /\ orderly' = FALSE
    /\ UNCHANGED <<status, ttl, shown, missed>>

\* Mutant: every broadcast says online.
BroadcastPresence_Online(h) ==
    /\ job[h].at = "broadcast"
    /\ \E ch \in job[h].left :
        /\ job' = [job EXCEPT ![h].left = @ \ {ch}]
        /\ \/ /\ shown' = [shown EXCEPT ![ch] = "online"]
              /\ missed' = missed \ {ch}
           \/ /\ missed' = missed \cup {ch}
              /\ UNCHANGED shown
    /\ UNCHANGED <<connected, status, ttl, orderly>>

\* broadcastPresence: one channel after the other, each publication best
\* effort; when the conversations cannot be read all of them are lost.
BroadcastPresence(h) ==
    /\ job[h].at = "broadcast"
    /\ \E ch \in job[h].left :
        /\ job' = [job EXCEPT ![h].left = @ \ {ch}]
        /\ \/ /\ shown' = [shown EXCEPT ![ch] =
                    IF job[h].call = "connect" THEN "online" ELSE "offline"]
              /\ missed' = missed \ {ch}
           \/ /\ missed' = missed \cup {ch}
              /\ UNCHANGED shown
    /\ UNCHANGED <<connected, status, ttl, orderly>>

FinishBroadcast(h) ==
    /\ job[h].at = "broadcast"
    /\ job[h].left = {}
    /\ Answer(h)
    /\ UNCHANGED <<status, ttl, shown, missed>>

-----------------------------------------------------------------------------
\* External: time passes; Redis drops an online key TTL ticks after it was
\* written.  Nobody is told.
Tick ==
    /\ status = "online"
    /\ ttl > 0         \* 0: a key written without expiry
    /\ ttl' = ttl - 1
    /\ status' = IF ttl = 1 THEN "none" ELSE status
    /\ OrderWithKeyGone(ttl = 1)
    /\ UNCHANGED <<connected, shown, job, missed>>

\* External: an offline key lives for 24 hours.
ForgetOffline ==
    /\ status = "offline"
    /\ status' = "none"
    /\ OrderWithKeyGone(TRUE)
    /\ UNCHANGED <<connected, ttl, shown, job, missed>>

Call(h) ==
    \/ \E x \in Conn : OnConnect(h, x) \/ OnDisconnect(h, x)
    \/ Heartbeat(h)

Continue(h) ==
    \/ SetUserOnline(h) \/ SetUserOffline(h) \/ RefreshPresence(h)
    \/ WriteFails(h) \/ BroadcastPresence(h) \/ FinishBroadcast(h)

Next ==
    \/ \E h \in Handler : Call(h) \/ Continue(h)
    \/ \E x \in Conn : LoseDisconnect(x)
    \/ Tick \/ ForgetOffline

Spec == Init /\ [][Next]_vars

\* Time passes; nothing is assumed of clients, of Centrifugo or of the server.
FairSpec == Spec /\ WF_vars(Tick)

-----------------------------------------------------------------------------
(***************************************************************************)
(* Properties                                                              *)
(***************************************************************************)

\* Disorder does not last.  However many calls were late, lost, failed or came
\* from several connections, the next connection to open alone, or the last one
\* to close alone, or the expiry of the key of a user who is gone, puts the key
\* right; and from then on, while calls come one at a time from one connection,
\* the key never contradicts the connection when the server is at rest.  It may
\* have expired.
OrderlyKeyIsExact ==
    (orderly /\ Quiet) =>
        /\ status = "online" => connected # {}
        /\ status = "offline" => connected = {}

\* The same moments put the channels right: one that did not miss the latest
\* broadcast shows what the key says, whatever late broadcasts it was told
\* before.  (Nobody is told when the key expires.)
OrderlyChannelsShowKey ==
    (orderly /\ Quiet) =>
        \A ch \in Channel \ missed : status # "none" => shown[ch] = status

\* Who is heard of no more appears offline in the end: no connection is marked
\* online for ever, however many calls were lost or reordered before.
SilentUserGoesOffline ==
    <>[](\A h \in Handler : job[h].at = "write" => job[h].call = "disconnect")
        => <>[](status # "online")
=============================================================================
