----------------------------- MODULE PresenceInv -----------------------------
(***************************************************************************)
(* The inductive invariant of Presence: what an orderly course of calls    *)
(* means between two of them and amid one.                                 *)
(***************************************************************************)
EXTENDS Presence

\* What the subscribers of a channel see, unless they missed it.
ShownIs(st, channels) == \A ch \in channels \ missed : shown[ch] = st

\* One call at a time, from one connection at a time.
OneAtATime ==
    /\ \A g, h \in Handler : job[g] # Idle /\ job[h] # Idle => g = h
    /\ \A x, y \in connected : x = y

\* A connection opens and closes around its call, heartbeats come amid it.
CallsFitConnection ==
    \A h \in Handler : job[h] # Idle =>
        IF job[h].call = "heartbeat" THEN connected # {} ELSE connected = {}

\* Once a call has written the key, what it has told is what it wrote.
BroadcastFollowsKey ==
    \A h \in Handler : job[h].at = "broadcast" =>
        LET st == IF job[h].call = "connect" THEN "online" ELSE "offline" IN
        /\ status \in {st, "none"}
        /\ ShownIs(st, Channel \ job[h].left)

\* A connected user was shown online, and stays so when the key has expired.
ConnectedIsShown ==
    connected # {} => status # "offline" /\ ShownIs("online", Channel)

\* At rest a user without connection is not online.
RestIsOffline ==
    (connected = {} /\ Quiet) =>
        /\ status # "online"
        /\ status = "offline" => ShownIs("offline", Channel)

OrderlyCourse ==
    /\ OneAtATime
    /\ CallsFitConnection
    /\ BroadcastFollowsKey
    /\ ConnectedIsShown
    /\ RestIsOffline

IInv == TypeOK /\ (orderly => OrderlyCourse)
=============================================================================
