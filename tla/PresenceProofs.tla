---------------------------- MODULE PresenceProofs ----------------------------
(***************************************************************************)
(* Theorems about Presence for any connections, calls, channels and TTL.   *)
(***************************************************************************)
EXTENDS PresenceInv, TLAPS

JobSet == {Idle} \cup Calls

\* What a call carries at each stage.
LEMMA JobAt ==
    ASSUME NEW j \in JobSet
    PROVE  /\ Idle.at = "idle"
           /\ j # Idle => j.at \in {"write", "broadcast"} /\ j \in Calls
           /\ j.at \in {"write", "broadcast"} => j # Idle
           /\ j \in Calls => j.call \in {"connect", "disconnect", "heartbeat"}
           /\ j \in Calls /\ j.call = "connect" => j.conn \in Conn
           /\ j.at = "broadcast" =>
                j.call \in {"connect", "disconnect"} /\ j.left \in SUBSET Channel
  BY DEF JobSet, Idle, Calls

\* The calls that begin and the broadcasts that follow them.
LEMMA CallKinds ==
    ASSUME NEW x \in Conn, NEW left \in SUBSET Channel
    PROVE  /\ [at |-> "write", call |-> "connect", conn |-> x] \in Calls
           /\ [at |-> "write", call |-> "disconnect"] \in Calls
           /\ [at |-> "write", call |-> "heartbeat"] \in Calls
           /\ [at |-> "broadcast", call |-> "connect", conn |-> x, left |-> left] \in Calls
           /\ [at |-> "broadcast", call |-> "disconnect", left |-> left] \in Calls
  BY DEF Calls

\* One call changes its stage, the others keep theirs.
LEMMA OneJobChanges ==
    ASSUME TypeOK, NEW h \in Handler, NEW j \in JobSet, job' = [job EXCEPT ![h] = j]
    PROVE  /\ job' \in [Handler -> JobSet]
           /\ job'[h] = j
           /\ \A g \in Handler : g # h => job'[g] = job[g]
  BY DEF TypeOK, JobSet

(***************************************************************************)
(* The inductive invariant: one lemma per action                           *)
(***************************************************************************)

\* A call begins.  It is orderly if nothing else is under way and it fits the
\* connections; a heartbeat restores no order.
LEMMA CallBegins ==
    ASSUME IInv, NEW h \in Handler, NEW j \in Calls, j.at = "write",
           job[h] = Idle, job' = [job EXCEPT ![h] = j],
           connected' \subseteq connected, orderly' \in BOOLEAN,
           orderly' => /\ Alone(h)
                       /\ IF j.call = "heartbeat"
                          THEN orderly /\ connected' = connected /\ connected # {}
                          ELSE connected' = {},
           UNCHANGED <<status, ttl, shown, missed>>
    PROVE  IInv'
  <1>1. j \in JobSet /\ j # Idle /\ j.at # "broadcast"
    BY DEF JobSet, Calls, Idle
  <1>2. /\ job' \in [Handler -> JobSet]
        /\ job'[h] = j
        /\ \A g \in Handler : g # h => job'[g] = job[g]
    BY <1>1, OneJobChanges DEF IInv
  <1>3. TypeOK'
    BY <1>2 DEF IInv, TypeOK, JobSet
  <1>4. ASSUME orderly'
        PROVE  OrderlyCourse'
    <2>1. \A g \in Handler : g # h => job'[g] = Idle
      BY <1>2, <1>4 DEF Alone
    <2>2. Idle.at # "broadcast"
      BY DEF Idle
    <2>3. OneAtATime'
      <3>1. \A x, y \in connected' : x = y
        BY <1>4 DEF IInv, OrderlyCourse, OneAtATime
      <3> QED BY <1>2, <2>1, <3>1 DEF OneAtATime
    <2>4. CallsFitConnection'
      BY <1>2, <1>4, <2>1 DEF CallsFitConnection
    <2>5. BroadcastFollowsKey'
      BY <1>1, <1>2, <2>1, <2>2 DEF BroadcastFollowsKey
    <2>6. ConnectedIsShown'
      BY <1>4 DEF IInv, OrderlyCourse, ConnectedIsShown, ShownIs
    <2>7. RestIsOffline'
      BY <1>1, <1>2 DEF RestIsOffline, Quiet
    <2> QED BY <2>3, <2>4, <2>5, <2>6, <2>7 DEF OrderlyCourse
  <1> QED BY <1>3, <1>4 DEF IInv

\* A connection about to open is announced.
LEMMA OnConnectStep ==
    ASSUME IInv, NEW h \in Handler, NEW x \in Conn, OnConnect(h, x)
    PROVE  IInv'
  <1> DEFINE j == [at |-> "write", call |-> "connect", conn |-> x]
  <1>1. j \in Calls /\ j.at = "write" /\ j.call = "connect"
    BY CallKinds
  <1>2. job[h] = Idle /\ job' = [job EXCEPT ![h] = j]
    BY DEF OnConnect
  <1>3. UNCHANGED <<connected, status, ttl, shown, missed>>
    BY DEF OnConnect
  <1>4. orderly' \in BOOLEAN /\ (orderly' => Alone(h) /\ connected = {})
    BY DEF OnConnect
  <1> HIDE DEF j
  <1> QED BY <1>1, <1>2, <1>3, <1>4, CallBegins

\* A closed connection is announced: the course is orderly if it was the only one.
LEMMA OnDisconnectStep ==
    ASSUME IInv, NEW h \in Handler, NEW x \in Conn, OnDisconnect(h, x)
    PROVE  IInv'
  <1> DEFINE j == [at |-> "write", call |-> "disconnect"]
  <1>1. j \in Calls /\ j.at = "write" /\ j.call = "disconnect"
    BY CallKinds
  <1>2. job[h] = Idle /\ job' = [job EXCEPT ![h] = j]
    BY DEF OnDisconnect
  <1>3. /\ x \in connected /\ connected' = connected \ {x}
        /\ UNCHANGED <<status, ttl, shown, missed>>
    BY DEF OnDisconnect
  <1>4. orderly' \in BOOLEAN /\ (orderly' => Alone(h) /\ connected' = {})
    BY <1>3 DEF OnDisconnect
  <1> HIDE DEF j
  <1> QED BY <1>1, <1>2, <1>3, <1>4, CallBegins

\* A client sends a heartbeat.
LEMMA HeartbeatStep ==
    ASSUME IInv, NEW h \in Handler, Heartbeat(h)
    PROVE  IInv'
  <1> DEFINE j == [at |-> "write", call |-> "heartbeat"]
  <1>1. j \in Calls /\ j.at = "write" /\ j.call = "heartbeat"
    BY CallKinds DEF Calls
  <1>2. job[h] = Idle /\ job' = [job EXCEPT ![h] = j]
    BY DEF Heartbeat
  <1>3. UNCHANGED <<connected, status, ttl, shown, missed>>
    BY DEF Heartbeat
  <1>4. orderly' \in BOOLEAN /\ (orderly' => orderly /\ Alone(h) /\ connected # {})
    BY DEF Heartbeat
  <1> HIDE DEF j
  <1> QED BY <1>1, <1>2, <1>3, <1>4, CallBegins

\* A call that has written the key turns to all channels.
LEMMA KeyWritten ==
    ASSUME IInv, NEW h \in Handler, NEW j \in Calls, j.at = "broadcast",
           job[h].at = "write", job[h].call = j.call, j.left = Channel,
           job' = [job EXCEPT ![h] = j],
           status' = IF j.call = "connect" THEN "online" ELSE "offline",
           ttl' \in 0..TTL,
           UNCHANGED <<connected, shown, orderly, missed>>
    PROVE  IInv'
  <1>1. PICK k \in JobSet : k = job[h]
    BY DEF IInv, TypeOK, JobSet
  <1>2. /\ job[h] # Idle /\ j \in JobSet /\ j # Idle
        /\ j.call \in {"connect", "disconnect"}
    BY <1>1, JobAt DEF JobSet
  <1>3. /\ job' \in [Handler -> JobSet]
        /\ job'[h] = j
        /\ \A g \in Handler : g # h => job'[g] = job[g]
    BY <1>2, OneJobChanges DEF IInv
  <1>4. TypeOK'
    BY <1>3 DEF IInv, TypeOK, JobSet
  <1>5. ASSUME orderly'
        PROVE  OrderlyCourse'
    <2>1. OrderlyCourse /\ connected = {}
      BY <1>2, <1>5 DEF IInv, OrderlyCourse, CallsFitConnection
    <2>2. \A g \in Handler : g # h => job'[g] = Idle
      BY <1>2, <1>3, <2>1 DEF OrderlyCourse, OneAtATime
    <2>3. OneAtATime'
      BY <2>1, <2>2 DEF OneAtATime
    <2>4. CallsFitConnection'
      BY <1>2, <1>3, <2>1, <2>2 DEF CallsFitConnection
    <2>5. BroadcastFollowsKey'
      BY <1>3, <2>2 DEF BroadcastFollowsKey, ShownIs, Idle
    <2>6. ConnectedIsShown' /\ RestIsOffline'
      BY <1>2, <1>3, <2>1 DEF ConnectedIsShown, RestIsOffline, Quiet
    <2> QED BY <2>3, <2>4, <2>5, <2>6 DEF OrderlyCourse
  <1> QED BY <1>4, <1>5 DEF IInv

\* onConnect stores the online status, then turns to the channels.
LEMMA SetUserOnlineStep ==
    ASSUME IInv, NEW h \in Handler, SetUserOnline(h)
    PROVE  IInv'
  <1>1. PICK k \in JobSet : k = job[h]
    BY DEF IInv, TypeOK, JobSet
  <1>2. k.call = "connect" /\ k.at = "write" /\ k.conn \in Conn
    BY <1>1, JobAt DEF SetUserOnline
  <1> DEFINE j == [at |-> "broadcast", call |-> "connect", conn |-> k.conn, left |-> Channel]
  <1>3. j \in Calls /\ j.at = "broadcast" /\ j.call = "connect" /\ j.left = Channel
    BY <1>2, CallKinds
  <1>4. job' = [job EXCEPT ![h] = j]
    BY <1>1 DEF SetUserOnline
  <1>5. /\ status' = "online" /\ ttl' \in 0..TTL
        /\ UNCHANGED <<connected, shown, orderly, missed>>
    BY TTLAssumption DEF SetUserOnline
  <1> HIDE DEF j
  <1> QED BY <1>1, <1>2, <1>3, <1>4, <1>5, KeyWritten

\* onDisconnect stores the offline status, then turns to the channels.
LEMMA SetUserOfflineStep ==
    ASSUME IInv, NEW h \in Handler, SetUserOffline(h)
    PROVE  IInv'
  <1> DEFINE j == [at |-> "broadcast", call |-> "disconnect", left |-> Channel]
  <1>1. j \in Calls /\ j.at = "broadcast" /\ j.call = "disconnect" /\ j.left = Channel
    BY DEF Calls
  <1>2. job' = [job EXCEPT ![h] = j]
    BY DEF SetUserOffline
  <1>3. /\ job[h].at = "write" /\ job[h].call = "disconnect"
        /\ status' = "offline" /\ ttl' \in 0..TTL
        /\ UNCHANGED <<connected, shown, orderly, missed>>
    BY TTLAssumption DEF SetUserOffline
  <1> HIDE DEF j
  <1> QED BY <1>1, <1>2, <1>3, KeyWritten

\* A heartbeat amid a connection finds its channels told already.
LEMMA RefreshPresenceStep ==
    ASSUME IInv, NEW h \in Handler, RefreshPresence(h)
    PROVE  IInv'
  <1>1. PICK k \in JobSet : k = job[h]
    BY DEF IInv, TypeOK, JobSet
  <1>2. k # Idle /\ k.call = "heartbeat"
    BY <1>1, JobAt DEF RefreshPresence
  <1>3. Idle \in JobSet /\ Idle.at # "broadcast"
    BY DEF JobSet, Idle
  <1>4. /\ job' = [job EXCEPT ![h] = Idle]
        /\ status' = "online" /\ ttl' \in 0..TTL
        /\ UNCHANGED <<connected, shown, orderly, missed>>
    BY TTLAssumption DEF RefreshPresence
  <1>5. /\ job' \in [Handler -> JobSet]
        /\ job'[h] = Idle
        /\ \A g \in Handler : g # h => job'[g] = job[g]
    BY <1>3, <1>4, OneJobChanges DEF IInv
  <1>6. TypeOK'
    BY <1>4, <1>5 DEF IInv, TypeOK, JobSet
  <1>7. ASSUME orderly'
        PROVE  OrderlyCourse'
    <2>1. OrderlyCourse /\ connected # {}
      BY <1>1, <1>2, <1>4, <1>7 DEF IInv, OrderlyCourse, CallsFitConnection
    <2>2. \A g \in Handler : job'[g] = Idle
      BY <1>1, <1>2, <1>5, <2>1 DEF OrderlyCourse, OneAtATime
    <2>3. OneAtATime' /\ CallsFitConnection' /\ BroadcastFollowsKey'
      BY <1>3, <1>4, <2>1, <2>2 DEF OrderlyCourse, OneAtATime, CallsFitConnection,
         BroadcastFollowsKey
    <2>4. ConnectedIsShown' /\ RestIsOffline'
      BY <1>4, <2>1 DEF OrderlyCourse, ConnectedIsShown, RestIsOffline, ShownIs
    <2> QED BY <2>3, <2>4 DEF OrderlyCourse
  <1> QED BY <1>6, <1>7 DEF IInv

\* Redis fails: the course is orderly no more.
LEMMA WriteFailsStep ==
    ASSUME IInv, NEW h \in Handler, WriteFails(h)
    PROVE  IInv'
  <1>1. PICK k \in JobSet : k = job[h]
    BY DEF IInv, TypeOK, JobSet
  <1>2. k \in Calls /\ (k.call = "connect" => k.conn \in Conn)
    BY <1>1, JobAt DEF WriteFails
  <1>3. Idle \in JobSet /\ job' = [job EXCEPT ![h] = Idle]
    BY DEF JobSet, WriteFails
  <1>4. job' \in [Handler -> JobSet]
    BY <1>3, OneJobChanges DEF IInv
  <1>5. connected' \subseteq Conn /\ orderly' = FALSE
    BY <1>1, <1>2 DEF WriteFails, IInv, TypeOK
  <1> QED BY <1>4, <1>5 DEF IInv, TypeOK, JobSet, WriteFails

\* A channel passed leaves the call as it was but for the channels left.
LEMMA ChannelPassed ==
    ASSUME NEW j \in JobSet, j.at = "broadcast", NEW ch
    PROVE  /\ [j EXCEPT !.left = @ \ {ch}] \in Calls
           /\ [j EXCEPT !.left = @ \ {ch}].at = "broadcast"
           /\ [j EXCEPT !.left = @ \ {ch}].call = j.call
           /\ [j EXCEPT !.left = @ \ {ch}].left = j.left \ {ch}
  BY DEF JobSet, Idle, Calls

\* The broadcast passes one channel, which is told or misses it.
LEMMA BroadcastPresenceStep ==
    ASSUME IInv, NEW h \in Handler, BroadcastPresence(h)
    PROVE  IInv'
  <1>1. PICK k \in JobSet : k = job[h]
    BY DEF IInv, TypeOK, JobSet
  <1>2. k # Idle /\ k.at = "broadcast" /\ k.left \in SUBSET Channel
        /\ k.call \in {"connect", "disconnect"}
    BY <1>1, JobAt DEF BroadcastPresence
  <1> DEFINE st == IF k.call = "connect" THEN "online" ELSE "offline"
  <1>3. PICK ch \in k.left :
            /\ job' = [job EXCEPT ![h].left = @ \ {ch}]
            /\ \/ /\ shown' = [shown EXCEPT ![ch] = st]
                  /\ missed' = missed \ {ch}
               \/ /\ missed' = missed \cup {ch}
                  /\ UNCHANGED shown
    BY <1>1 DEF BroadcastPresence
  <1> DEFINE j == [k EXCEPT !.left = @ \ {ch}]
  <1>4. /\ j \in Calls /\ j \in JobSet /\ j.at = "broadcast"
        /\ j.call = k.call /\ j.left = k.left \ {ch}
    BY <1>2, ChannelPassed DEF JobSet
  <1>5. job' = [job EXCEPT ![h] = j]
    BY <1>1, <1>3
  <1>6. UNCHANGED <<connected, status, ttl, orderly>>
    BY DEF BroadcastPresence
  <1> HIDE DEF j
  <1>7. /\ job' \in [Handler -> JobSet]
        /\ job'[h] = j
        /\ \A g \in Handler : g # h => job'[g] = job[g]
    BY <1>4, <1>5, OneJobChanges DEF IInv
  <1>8. shown' \in [Channel -> {"none", "online", "offline"}] /\ missed' \subseteq Channel
    BY <1>2, <1>3 DEF IInv, TypeOK
  <1>9. TypeOK'
    BY <1>6, <1>7, <1>8 DEF IInv, TypeOK, JobSet
  <1>10. ASSUME orderly'
         PROVE  OrderlyCourse'
    <2>1. OrderlyCourse /\ connected = {}
      BY <1>1, <1>2, <1>6, <1>10 DEF IInv, OrderlyCourse, CallsFitConnection
    <2>2. \A g \in Handler : g # h => job'[g] = Idle
      BY <1>1, <1>2, <1>7, <2>1 DEF OrderlyCourse, OneAtATime
    <2>3. j # Idle /\ Idle.at # "broadcast"
      BY <1>4, JobAt DEF Idle
    <2>4. OneAtATime' /\ CallsFitConnection'
      BY <1>2, <1>4, <1>6, <1>7, <2>1, <2>2 DEF OneAtATime, CallsFitConnection
    <2>5. status \in {st, "none"} /\ ShownIs(st, Channel \ k.left)
      BY <1>1, <1>2, <2>1 DEF OrderlyCourse, BroadcastFollowsKey
    <2>6. ShownIs(st, Channel \ j.left)'
      BY <1>2, <1>3, <1>4, <2>5 DEF ShownIs, IInv, TypeOK
    <2>7. BroadcastFollowsKey'
      BY <1>4, <1>6, <1>7, <2>2, <2>3, <2>5, <2>6 DEF BroadcastFollowsKey
    <2>8. ConnectedIsShown' /\ RestIsOffline'
      BY <1>6, <1>7, <2>1, <2>3 DEF ConnectedIsShown, RestIsOffline, Quiet
    <2> QED BY <2>4, <2>7, <2>8 DEF OrderlyCourse
  <1> QED BY <1>9, <1>10 DEF IInv

\* The call is answered: every channel has been passed, so what they show is
\* the status of a user who is now connected, or of one who is not.
LEMMA FinishBroadcastStep ==
    ASSUME IInv, NEW h \in Handler, FinishBroadcast(h)
    PROVE  IInv'
  <1>1. PICK k \in JobSet : k = job[h]
    BY DEF IInv, TypeOK, JobSet
  <1>2. /\ k # Idle /\ k.at = "broadcast" /\ k.left = {} /\ k \in Calls
        /\ k.call \in {"connect", "disconnect"}
        /\ k.call = "connect" => k.conn \in Conn
    BY <1>1, JobAt DEF FinishBroadcast
  <1>3. /\ job' = [job EXCEPT ![h] = Idle]
        /\ IF k.call = "connect"
           THEN \/ connected' = connected \cup {k.conn} /\ UNCHANGED orderly
                \/ connected' = connected /\ orderly' = FALSE
           ELSE UNCHANGED <<connected, orderly>>
        /\ UNCHANGED <<status, ttl, shown, missed>>
    BY <1>1 DEF FinishBroadcast, Answer
  <1>4. Idle \in JobSet /\ Idle.at # "broadcast"
    BY DEF JobSet, Idle
  <1>5. /\ job' \in [Handler -> JobSet]
        /\ job'[h] = Idle
        /\ \A g \in Handler : g # h => job'[g] = job[g]
    BY <1>3, <1>4, OneJobChanges DEF IInv
  <1>6. connected' \subseteq Conn /\ orderly' \in BOOLEAN
    BY <1>2, <1>3 DEF IInv, TypeOK
  <1>7. TypeOK'
    BY <1>3, <1>5, <1>6 DEF IInv, TypeOK, JobSet
  <1>8. ASSUME orderly'
        PROVE  OrderlyCourse'
    <2>1. OrderlyCourse /\ connected = {}
      BY <1>1, <1>2, <1>3, <1>8 DEF IInv, OrderlyCourse, CallsFitConnection
    <2>2. \A g \in Handler : job'[g] = Idle
      BY <1>1, <1>2, <1>5, <2>1 DEF OrderlyCourse, OneAtATime
    <2>3. OneAtATime' /\ CallsFitConnection' /\ BroadcastFollowsKey'
      BY <1>3, <1>4, <1>8, <2>1, <2>2 DEF OneAtATime, CallsFitConnection, BroadcastFollowsKey
    <2>4. CASE k.call = "connect"
      <3>1. status # "offline" /\ ShownIs("online", Channel) /\ connected' # {}
        BY <1>1, <1>2, <1>3, <1>8, <2>1, <2>4 DEF OrderlyCourse, BroadcastFollowsKey, ShownIs
      <3> QED BY <1>3, <2>3, <3>1 DEF OrderlyCourse, ConnectedIsShown, RestIsOffline, ShownIs
    <2>5. CASE k.call = "disconnect"
      <3>1. status # "online" /\ ShownIs("offline", Channel) /\ connected' = {}
        BY <1>1, <1>2, <1>3, <2>1, <2>5 DEF OrderlyCourse, BroadcastFollowsKey, ShownIs
      <3> QED BY <1>3, <2>3, <3>1 DEF OrderlyCourse, ConnectedIsShown, RestIsOffline, ShownIs
    <2> QED BY <1>2, <2>4, <2>5
  <1> QED BY <1>7, <1>8 DEF IInv

\* The key fades; what was shown stays.  A user who is gone is in order again.
LEMMA KeyFades ==
    ASSUME IInv, ttl' \in 0..TTL,
           status' \in {status, "none"},
           OrderWithKeyGone(status' = "none"),
           UNCHANGED <<connected, shown, job, missed>>
    PROVE  IInv'
  <1>1. status' \in {status, "none"} /\ orderly' \in BOOLEAN
    BY DEF OrderWithKeyGone, IInv, TypeOK
  <1>2. TypeOK'
    BY <1>1 DEF IInv, TypeOK
  <1>3. ASSUME orderly
        PROVE  OrderlyCourse'
    <2>1. OrderlyCourse
      BY <1>3 DEF IInv
    <2>2. OneAtATime' /\ CallsFitConnection' /\ BroadcastFollowsKey'
      BY <1>1, <2>1 DEF OrderlyCourse, OneAtATime, CallsFitConnection, BroadcastFollowsKey,
         ShownIs
    <2>3. ConnectedIsShown' /\ RestIsOffline'
      BY <1>1, <2>1 DEF OrderlyCourse, ConnectedIsShown, RestIsOffline, ShownIs, Quiet
    <2> QED BY <2>2, <2>3 DEF OrderlyCourse
  <1>4. ASSUME orderly', ~orderly
        PROVE  OrderlyCourse'
    <2>1. status' = "none" /\ Quiet /\ connected = {}
      BY <1>4 DEF OrderWithKeyGone, IInv, TypeOK
    <2>2. \A h \in Handler : job'[h] = Idle /\ job'[h].at # "broadcast"
      BY <2>1 DEF Quiet, Idle
    <2> QED BY <2>1, <2>2 DEF OrderlyCourse, OneAtATime, CallsFitConnection,
               BroadcastFollowsKey, ConnectedIsShown, RestIsOffline
  <1> QED BY <1>2, <1>3, <1>4 DEF IInv

(***************************************************************************)
(* The theorems                                                            *)
(***************************************************************************)

\* Before the first call nobody is connected and nothing has been shown.
LEMMA InitInv == Init => IInv
  <1> SUFFICES ASSUME Init
               PROVE  IInv
    OBVIOUS
  <1>1. TypeOK
    BY TTLAssumption DEF Init, TypeOK
  <1>2. OrderlyCourse
    BY DEF Init, OrderlyCourse, OneAtATime, CallsFitConnection, BroadcastFollowsKey,
       ConnectedIsShown, RestIsOffline, Idle
  <1> QED BY <1>1, <1>2 DEF IInv

\* Every step keeps the invariant.
LEMMA NextInv == IInv /\ [Next]_vars => IInv'
  <1> SUFFICES ASSUME IInv, [Next]_vars
               PROVE  IInv'
    OBVIOUS
  <1>1. ASSUME NEW h \in Handler, Call(h)
        PROVE  IInv'
    BY <1>1, OnConnectStep, OnDisconnectStep, HeartbeatStep DEF Call
  <1>2. ASSUME NEW h \in Handler, Continue(h)
        PROVE  IInv'
    BY <1>2, SetUserOnlineStep, SetUserOfflineStep, RefreshPresenceStep, WriteFailsStep,
       BroadcastPresenceStep, FinishBroadcastStep DEF Continue
  <1>3. ASSUME NEW x \in Conn, LoseDisconnect(x)
        PROVE  IInv'
    BY <1>3 DEF LoseDisconnect, IInv, TypeOK
  <1>4. CASE Tick
    <2>1. ttl' \in 0..TTL /\ status' = (IF ttl = 1 THEN "none" ELSE status)
      BY <1>4, TTLAssumption DEF Tick, IInv, TypeOK
    <2>2. (ttl = 1) = (status' = "none")
      BY <1>4, <2>1 DEF Tick
    <2>3. OrderWithKeyGone(status' = "none")
      BY <1>4, <2>2 DEF Tick, OrderWithKeyGone
    <2> QED BY <1>4, <2>1, <2>3, KeyFades DEF Tick
  <1>5. CASE ForgetOffline
    <2>1. status' = "none" /\ ttl' \in 0..TTL /\ OrderWithKeyGone(status' = "none")
      BY <1>5 DEF ForgetOffline, OrderWithKeyGone, IInv, TypeOK
    <2> QED BY <1>5, <2>1, KeyFades DEF ForgetOffline
  <1>6. CASE UNCHANGED vars
    BY <1>6 DEF vars, IInv, TypeOK, OrderlyCourse, OneAtATime, CallsFitConnection,
       BroadcastFollowsKey, ConnectedIsShown, RestIsOffline, ShownIs, Quiet
  <1> QED BY <1>1, <1>2, <1>3, <1>4, <1>5, <1>6 DEF Next

\* The course of orderly calls keeps the key, the connections and the channels
\* together, whatever the number of tabs, calls and conversations.
THEOREM Invariance == Spec => []IInv
  <1> QED BY InitInv, NextInv, PTL DEF Spec

\* The key, the channels and the calls in flight keep their types.
THEOREM TypeCorrect == Spec => []TypeOK
  <1>1. IInv => TypeOK
    BY DEF IInv
  <1> QED BY <1>1, Invariance, PTL

\* Whenever the calls have come in order since it was last restored, a server
\* at rest never shows an absent user online in Redis nor a connected one offline.
THEOREM OrderlyKeyExact == Spec => []OrderlyKeyIsExact
  <1>1. IInv => OrderlyKeyIsExact
    BY DEF IInv, OrderlyCourse, ConnectedIsShown, RestIsOffline, OrderlyKeyIsExact
  <1> QED BY <1>1, Invariance, PTL

\* In the same circumstances whoever got the latest broadcast of a conversation
\* sees what Redis says, until the key expires and after.
THEOREM OrderlyChannelsAgree == Spec => []OrderlyChannelsShowKey
  <1>1. ASSUME IInv
        PROVE  OrderlyChannelsShowKey
    BY <1>1 DEF IInv, TypeOK, OrderlyCourse, ConnectedIsShown, RestIsOffline, ShownIs,
       OrderlyChannelsShowKey
  <1> QED BY <1>1, Invariance, PTL

(***************************************************************************)
(* Why a silent user goes offline                                          *)
(***************************************************************************)

\* An online key has a time to live, and only an online key has one.
OnlineExpires == status = "online" <=> ttl > 0

\* Redis holds no online key that would stay for ever: each write of one sets
\* its expiry, each write of another status and the expiry itself clear it.
THEOREM OnlineKeysExpire == Spec => []OnlineExpires
  <1>1. Init => OnlineExpires
    BY DEF Init, OnlineExpires
  <1>2. ASSUME TypeOK, OnlineExpires, [Next]_vars
        PROVE  OnlineExpires'
    <2>1. ttl \in Nat /\ TTL \in Nat \ {0}
      BY <1>2, TTLAssumption DEF TypeOK
    <2>2. CASE UNCHANGED vars
      BY <1>2, <2>2 DEF vars, OnlineExpires
    <2>3. ASSUME NEW h \in Handler, Call(h)
          PROVE  OnlineExpires'
      BY <1>2, <2>3 DEF Call, OnConnect, OnDisconnect, Heartbeat, OnlineExpires
    <2>4. ASSUME NEW h \in Handler, Continue(h)
          PROVE  OnlineExpires'
      <3>1. CASE SetUserOnline(h) \/ RefreshPresence(h)
        BY <2>1, <3>1 DEF SetUserOnline, RefreshPresence, OnlineExpires
      <3>2. CASE SetUserOffline(h)
        BY <3>2 DEF SetUserOffline, OnlineExpires
      <3>3. CASE WriteFails(h) \/ BroadcastPresence(h) \/ FinishBroadcast(h)
        BY <1>2, <3>3 DEF WriteFails, BroadcastPresence, FinishBroadcast, OnlineExpires
      <3> QED BY <2>4, <3>1, <3>2, <3>3 DEF Continue
    <2>5. CASE \E x \in Conn : LoseDisconnect(x)
      BY <1>2, <2>5 DEF LoseDisconnect, OnlineExpires
    <2>6. CASE Tick
      BY <1>2, <2>1, <2>6 DEF Tick, OnlineExpires
    <2>7. CASE ForgetOffline
      BY <1>2, <2>7 DEF ForgetOffline, OnlineExpires
    <2> QED BY <1>2, <2>2, <2>3, <2>4, <2>5, <2>6, <2>7 DEF Next
  <1> QED BY <1>1, <1>2, TypeCorrect, PTL DEF Spec

\* Nobody is about to write the user online.
Silent == \A h \in Handler : job[h].at = "write" => job[h].call = "disconnect"

\* While nobody does, the time to live never grows, and every tick lowers it.
SilenceRunsDown == Silent => ttl' <= ttl /\ (Tick => ttl' < ttl)

\* In silence the key runs down: a broadcast, a late answer, a lost call or a
\* disconnect gives it no more time, so it is gone after TTL ticks at most.
THEOREM KeyRunsDown == Spec => [][SilenceRunsDown]_vars
  <1>1. ASSUME TypeOK, Silent, Next
        PROVE  ttl' <= ttl /\ (Tick => ttl' < ttl)
    <2>1. ttl \in Nat
      BY <1>1 DEF TypeOK
    <2>2. CASE Tick
      BY <2>1, <2>2 DEF Tick
    <2>3. CASE ~Tick
      <3>1. ASSUME NEW h \in Handler, Call(h) \/ Continue(h)
            PROVE  ttl' <= ttl
        <4>1. CASE Call(h)
          BY <2>1, <4>1 DEF Call, OnConnect, OnDisconnect, Heartbeat
        <4>2. CASE SetUserOnline(h) \/ RefreshPresence(h)
          <5>1. job[h].at = "write" /\ job[h].call \in {"connect", "heartbeat"}
            BY <4>2 DEF SetUserOnline, RefreshPresence
          <5> QED BY <1>1, <5>1 DEF Silent
        <4>4. CASE SetUserOffline(h)
          BY <2>1, <4>4 DEF SetUserOffline
        <4>3. CASE WriteFails(h) \/ BroadcastPresence(h) \/ FinishBroadcast(h)
          BY <2>1, <4>3 DEF WriteFails, BroadcastPresence, FinishBroadcast
        <4> QED BY <3>1, <4>1, <4>2, <4>3, <4>4 DEF Continue
      <3>2. ASSUME (\E x \in Conn : LoseDisconnect(x)) \/ ForgetOffline
            PROVE  ttl' <= ttl
        <4>1. ttl' = ttl
          BY <3>2, Zenon DEF LoseDisconnect, ForgetOffline
        <4> QED BY <2>1, <4>1
      <3>3. ttl' <= ttl
        BY <1>1, <2>3, <3>1, <3>2 DEF Next
      <3> QED BY <2>3, <3>3
    <2> QED BY <2>2, <2>3
  <1>2. TypeOK /\ [Next]_vars => [SilenceRunsDown]_vars
    BY <1>1 DEF SilenceRunsDown
  <1> QED BY <1>2, TypeCorrect, PTL DEF Spec
=============================================================================
