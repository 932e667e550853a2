---------------------------- MODULE RequestsProofs ----------------------------
(***************************************************************************)
(* Theorems about Requests for any requests, handlers and number of asks.  *)
(***************************************************************************)
EXTENDS RequestsInv, TLAPS

CallSet == {Idle} \cup Answering \cup Loading

\* What a handler carries at each stage.
LEMMA CallAt ==
    ASSUME NEW c \in CallSet
    PROVE  /\ c = Idle \/ c \in Answering \/ c \in Loading
           /\ c = Idle => c.at = "idle" /\ c.request = NoRequest
           /\ c \in Answering =>
                /\ c.at \in {"answer", "answered"} /\ c.request \in Request
                /\ c.action \in {"accept", "reject"} /\ c.from \in {"card", "dialog"}
                /\ c.card \in BOOLEAN /\ c.ok \in BOOLEAN
           /\ c \in Loading =>
                /\ c.at \in {"dashboard", "dialog", "pending", "dialogPending"}
                /\ c.request \in Request \cup {NoRequest} /\ c.from \in {"card", "dialog"}
                /\ c.card \in BOOLEAN
                /\ c.at \in {"pending", "dialogPending"} => c.rows \subseteq Request
  BY DEF CallSet, Idle, Answering, Loading

\* The handlers that are made: an answer, a load and its list.
LEMMA CallKinds ==
    ASSUME NEW r \in Request, NEW q \in Request \cup {NoRequest},
           NEW action \in {"accept", "reject"}, NEW from \in {"card", "dialog"},
           NEW card \in BOOLEAN, NEW ok \in BOOLEAN, NEW rows \in SUBSET Request
    PROVE  /\ [at |-> "answer", request |-> r, action |-> action, from |-> from,
               card |-> card, ok |-> ok] \in CallSet
           /\ [at |-> "dashboard", request |-> q, from |-> from, card |-> card] \in CallSet
           /\ [at |-> "dialog", request |-> q, from |-> from, card |-> card] \in CallSet
           /\ [at |-> "pending", request |-> q, from |-> from, card |-> card,
               rows |-> rows] \in CallSet
           /\ [at |-> "dialogPending", request |-> q, from |-> from, card |-> card,
               rows |-> rows] \in CallSet
  BY DEF CallSet, Answering, Loading

\* Rendering the cards anew leaves the handlers where they were.
LEMMA RerenderedKeeps ==
    ASSUME NEW d \in [Call -> CallSet]
    PROVE  /\ Rerendered(d) \in [Call -> CallSet]
           /\ \A h \in Call :
                /\ Rerendered(d)[h].at = d[h].at
                /\ d[h].at = "answer" => Rerendered(d)[h].ok = d[h].ok
                /\ \A r \in Request :
                    /\ LeavesAlone(Rerendered(d)[h], r) <=> LeavesAlone(d[h], r)
                    /\ Brings(Rerendered(d)[h], r) <=> Brings(d[h], r)
                    /\ Clears(Rerendered(d)[h], r) <=> Clears(d[h], r)
  <1>1. ASSUME NEW c \in CallSet, c # Idle, NEW e, e = [c EXCEPT !.card = FALSE]
        PROVE  /\ e \in CallSet /\ e.at = c.at
               /\ c.at = "answer" => e.ok = c.ok
               /\ \A r \in Request :
                    /\ LeavesAlone(e, r) <=> LeavesAlone(c, r)
                    /\ Brings(e, r) <=> Brings(c, r)
                    /\ Clears(e, r) <=> Clears(c, r)
    <2>1. CASE c \in Answering
      BY <1>1, <2>1 DEF CallSet, Answering, LeavesAlone, Brings, Clears
    <2>2. CASE c \in Loading
      <3>1. e \in Loading /\ e.at = c.at /\ e.request = c.request /\ e.from = c.from
        BY <1>1, <2>2 DEF Loading
      <3>2. c.at = "pending" => e.rows = c.rows
        BY <1>1, <2>2 DEF Loading
      <3>3. c.at # "answer" /\ c.at # "answered"
        BY <2>2 DEF Loading
      <3> QED BY <3>1, <3>2, <3>3 DEF CallSet, LeavesAlone, Brings, Clears
    <2> QED BY <1>1, <2>1, <2>2 DEF CallSet
  <1>2. ASSUME NEW h \in Call
        PROVE  /\ Rerendered(d)[h] \in CallSet
               /\ d[h] = Idle => Rerendered(d)[h] = d[h]
               /\ d[h] # Idle => Rerendered(d)[h] = [d[h] EXCEPT !.card = FALSE]
    BY <1>1 DEF Rerendered, CallSet
  <1>3. Rerendered(d) \in [Call -> CallSet]
    BY <1>2 DEF Rerendered
  <1> QED BY <1>1, <1>2, <1>3

\* One handler changes its stage, the others keep theirs.
LEMMA OneCallChanges ==
    ASSUME TypeOK, NEW h \in Call, NEW c \in CallSet
    PROVE  /\ [call EXCEPT ![h] = c] \in [Call -> CallSet]
           /\ [call EXCEPT ![h] = c][h] = c
           /\ \A g \in Call : g # h => [call EXCEPT ![h] = c][g] = call[g]
  BY DEF TypeOK, CallSet

\* Cards are counted within their bounds.
LEMMA CountsBounded ==
    ASSUME IInv, NEW r \in Request
    PROVE  /\ asks \in Nat /\ coming[r] \in Nat /\ friendRequests[r] \in Nat
           /\ coming[r] <= asks /\ asks <= MaxAsks
           /\ friendRequests[r] + coming[r] <= asks + 1
  BY MaxAsksAssumption DEF IInv, TypeOK, CardsAreAsked

(***************************************************************************)
(* The inductive invariant: one lemma per kind of step                     *)
(***************************************************************************)

\* A handler turns to its next stage and the cards stay as they are.
LEMMA CallTurns ==
    ASSUME IInv, NEW h \in Call, NEW c \in CallSet, call' = [call EXCEPT ![h] = c],
           UNCHANGED <<server, friendRequests, due>>,
           loggedIn' \in BOOLEAN, pendingList' \subseteq Request,
           astray \subseteq astray', astray' \subseteq Request,
           c.at = "answer" => ~c.ok,
           \A r \in due : LeavesAlone(c, r),
           \A r \in Request \ Pending :
                /\ Brings(c, r) => r \in astray'
                /\ Clears(call[h], r) => r \in astray' \/ Clears(c, r)
    PROVE  IInv'
  <1>1. /\ call' \in [Call -> CallSet]
        /\ call'[h] = c
        /\ \A g \in Call : g # h => call'[g] = call[g]
    BY OneCallChanges DEF IInv
  <1>2. UNCHANGED <<status, coming, asks, friendRequests, due>>
    BY DEF server
  <1>3. Pending' = Pending
    BY <1>2 DEF Pending
  <1>4. TypeOK'
    BY <1>1, <1>2 DEF IInv, TypeOK, CallSet
  <1>5. CardsAreAsked' /\ ToldIsListed'
    BY <1>2 DEF IInv, CardsAreAsked, ToldIsListed
  <1>6. AnswersComeOnce'
    BY <1>1 DEF IInv, AnswersComeOnce
  <1>7. DueIsSafe'
    BY <1>1, <1>2, <1>3 DEF IInv, DueIsSafe, LeavesAlone
  <1>8. LateIsAstray'
    BY <1>1, <1>2, <1>3 DEF IInv, LateIsAstray, Brings
  <1>9. AnsweredIsCleared'
    BY <1>1, <1>2, <1>3 DEF IInv, AnsweredIsCleared, Clears
  <1> QED BY <1>4, <1>5, <1>6, <1>7, <1>8, <1>9 DEF IInv

\* A handler ends and the cards are made anew: those that remain of an
\* answered request are known to be astray, or another handler clears them.
LEMMA CardsReplaced ==
    ASSUME IInv, NEW h \in Call, call' = Rerendered([call EXCEPT ![h] = Idle]),
           UNCHANGED <<server, loggedIn, pendingList, astray>>,
           friendRequests' \in [Request -> Nat],
           due' \subseteq Pending,
           \A r \in Request :
                /\ friendRequests'[r] <= IF friendRequests[r] > 0 THEN friendRequests[r] ELSE 1
                /\ r \in due' => /\ friendRequests'[r] > 0
                                 /\ \A g \in Call \ {h} : LeavesAlone(call[g], r),
           \A r \in Request \ Pending : friendRequests'[r] > 0 =>
                r \in astray \/ (friendRequests[r] > 0 /\ ~Clears(call[h], r))
    PROVE  IInv'
  <1> DEFINE d == [call EXCEPT ![h] = Idle]
  <1>1. Idle \in CallSet /\ Idle.at = "idle" /\ Idle.request \notin Request
    BY NoRequestAssumption DEF CallSet, Idle
  <1>2. /\ d \in [Call -> CallSet]
        /\ d[h] = Idle
        /\ \A g \in Call : g # h => d[g] = call[g]
    BY <1>1, OneCallChanges DEF IInv
  <1> HIDE DEF d
  <1>3. /\ call' \in [Call -> CallSet]
        /\ \A g \in Call :
             /\ call'[g].at = d[g].at
             /\ d[g].at = "answer" => call'[g].ok = d[g].ok
             /\ \A r \in Request :
                 /\ LeavesAlone(call'[g], r) <=> LeavesAlone(d[g], r)
                 /\ Brings(call'[g], r) <=> Brings(d[g], r)
                 /\ Clears(call'[g], r) <=> Clears(d[g], r)
    BY <1>2, RerenderedKeeps DEF d
  <1>4. UNCHANGED <<status, coming, asks, loggedIn, pendingList, astray>>
    BY DEF server
  <1>5. Pending' = Pending /\ Pending \subseteq Request
    BY <1>4 DEF Pending
  <1>6. ASSUME NEW r \in Request
        PROVE  friendRequests'[r] + coming[r] <= asks + 1 /\ coming[r] <= asks
               /\ friendRequests'[r] \in 0..(MaxAsks + 1)
    BY CountsBounded, MaxAsksAssumption
  <1>7. TypeOK'
    BY <1>3, <1>4, <1>5, <1>6 DEF IInv, TypeOK, CallSet
  <1>8. CardsAreAsked' /\ ToldIsListed'
    BY <1>4, <1>5, <1>6 DEF CardsAreAsked, ToldIsListed
  <1>9. AnswersComeOnce'
    <2>1. ASSUME NEW g \in Call, call'[g].at = "answer"
          PROVE  ~call'[g].ok
      <3>1. d[g].at = "answer" /\ g # h
        BY <1>1, <1>2, <1>3, <2>1
      <3> QED BY <1>2, <1>3, <3>1 DEF IInv, AnswersComeOnce
    <2> QED BY <2>1 DEF AnswersComeOnce
  <1>10. ASSUME NEW r \in Request
         PROVE  LeavesAlone(Idle, r) /\ ~Brings(Idle, r) /\ ~Clears(Idle, r)
    BY <1>1 DEF LeavesAlone, Brings, Clears
  <1>11. DueIsSafe'
    <2>1. ASSUME NEW r \in due', NEW g \in Call
          PROVE  LeavesAlone(call'[g], r)
      BY <1>2, <1>3, <1>5, <1>10
    <2> QED BY <1>5, <2>1 DEF DueIsSafe, LeavesAlone
  <1>12. LateIsAstray'
    <2>1. ASSUME NEW r \in Request \ Pending, NEW g \in Call, Brings(call'[g], r)
          PROVE  r \in astray
      BY <1>2, <1>3, <1>10, <2>1 DEF IInv, LateIsAstray
    <2> QED BY <1>4, <1>5, <2>1 DEF IInv, LateIsAstray, Brings
  <1>13. AnsweredIsCleared'
    <2>1. ASSUME NEW r \in Request \ Pending, friendRequests'[r] > 0, r \notin astray
          PROVE  \E g \in Call : Clears(call'[g], r)
      <3>1. PICK g \in Call : Clears(call[g], r)
        BY <2>1 DEF IInv, AnsweredIsCleared
      <3> QED BY <1>2, <1>3, <2>1, <3>1
    <2> QED BY <1>4, <1>5, <2>1 DEF AnsweredIsCleared, Clears
  <1> QED BY <1>7, <1>8, <1>9, <1>11, <1>12, <1>13 DEF IInv

\* A request becomes pending.  It has no card the user was told of yet, and
\* what brought cards astray is no concern any more.
LEMMA BecomesPending ==
    ASSUME IInv, NEW r \in Request, r \notin Pending,
           status' = [status EXCEPT ![r] = "pending"],
           asks' \in {asks, asks + 1}, asks' <= MaxAsks,
           coming' \in {coming, [coming EXCEPT ![r] = @ + 1]},
           asks' = asks => coming' = coming,
           astray' = astray \ {r},
           UNCHANGED <<loggedIn, friendRequests, pendingList, call, due>>
    PROVE  IInv'
  <1>1. Pending' = Pending \cup {r}
    BY DEF IInv, TypeOK, Pending
  <1>2. ASSUME NEW q \in Request
        PROVE  /\ coming'[q] \in Nat /\ coming'[q] <= asks'
               /\ friendRequests[q] + coming'[q] <= asks' + 1
               /\ q # r => coming'[q] = coming[q]
    <2>1. coming \in [Request -> 0..MaxAsks]
      BY DEF IInv, TypeOK
    <2> QED BY <2>1, CountsBounded
  <1>3. TypeOK'
    <2>1. asks' \in 0..MaxAsks
      BY CountsBounded, MaxAsksAssumption DEF IInv, TypeOK
    <2>2. coming' \in [Request -> 0..MaxAsks]
      <3>1. DOMAIN coming' = Request /\ coming' = [q \in DOMAIN coming' |-> coming'[q]]
        BY DEF IInv, TypeOK
      <3>2. \A q \in Request : coming'[q] \in 0..MaxAsks
        BY <1>2, <2>1, MaxAsksAssumption
      <3> QED BY <3>1, <3>2
    <2> QED BY <2>1, <2>2 DEF IInv, TypeOK
  <1>4. CardsAreAsked' /\ ToldIsListed' /\ AnswersComeOnce'
    BY <1>2 DEF IInv, CardsAreAsked, ToldIsListed, AnswersComeOnce
  <1>5. DueIsSafe'
    BY <1>1 DEF IInv, DueIsSafe, LeavesAlone
  <1>6. LateIsAstray'
    BY <1>1, <1>2 DEF IInv, LateIsAstray, Brings
  <1>7. AnsweredIsCleared'
    BY <1>1 DEF IInv, AnsweredIsCleared, Clears
  <1> QED BY <1>3, <1>4, <1>5, <1>6, <1>7 DEF IInv

\* An event is delivered: a card more, which an answered request's event is
\* known to leave astray.
LEMMA HandleNewRequestStep ==
    ASSUME IInv, NEW r \in Request, HandleNewRequest(r)
    PROVE  IInv'
  <1>1. /\ coming[r] > 0
        /\ coming' = [coming EXCEPT ![r] = @ - 1]
        /\ friendRequests' = [friendRequests EXCEPT ![r] = @ + 1]
        /\ call' = Rerendered(call)
        /\ UNCHANGED <<status, asks, loggedIn, pendingList, astray>>
    BY DEF HandleNewRequest
  <1>2. /\ due \subseteq due' /\ due' \subseteq due \cup {r}
        /\ r \in due' \ due => r \in Pending /\ Secure(r, Call)
    BY DEF HandleNewRequest
  <1>3. Pending' = Pending
    BY <1>1 DEF Pending
  <1>4. call \in [Call -> CallSet]
    BY DEF IInv, TypeOK, CallSet
  <1>5. /\ call' \in [Call -> CallSet]
        /\ \A h \in Call :
             /\ call'[h].at = call[h].at
             /\ call[h].at = "answer" => call'[h].ok = call[h].ok
             /\ \A q \in Request :
                 /\ LeavesAlone(call'[h], q) <=> LeavesAlone(call[h], q)
                 /\ Brings(call'[h], q) <=> Brings(call[h], q)
                 /\ Clears(call'[h], q) <=> Clears(call[h], q)
    BY <1>1, <1>4, RerenderedKeeps
  <1>6. ASSUME NEW q \in Request
        PROVE  /\ coming'[q] \in Nat /\ coming'[q] <= coming[q]
               /\ friendRequests'[q] \in Nat /\ friendRequests'[q] >= friendRequests[q]
               /\ friendRequests'[q] + coming'[q] = friendRequests[q] + coming[q]
               /\ q = r => friendRequests'[q] > 0
               /\ q # r => friendRequests'[q] = friendRequests[q]
    <2>1. coming \in [Request -> 0..MaxAsks] /\ friendRequests \in [Request -> 0..(MaxAsks + 1)]
      BY DEF IInv, TypeOK
    <2> QED BY <1>1, <2>1, CountsBounded
  <1>7. CardsAreAsked'
    BY <1>1, <1>6, CountsBounded DEF CardsAreAsked
  <1>8. TypeOK'
    <2>1. coming' \in [Request -> 0..MaxAsks]
      <3>1. coming' = [q \in Request |-> coming'[q]]
        BY <1>1 DEF IInv, TypeOK
      <3>2. \A q \in Request : coming'[q] \in 0..MaxAsks
        BY <1>6, CountsBounded, MaxAsksAssumption
      <3> QED BY <3>1, <3>2
    <2>2. friendRequests' \in [Request -> 0..(MaxAsks + 1)]
      <3>1. friendRequests' = [q \in Request |-> friendRequests'[q]]
        BY <1>1 DEF IInv, TypeOK
      <3>2. \A q \in Request : friendRequests'[q] \in 0..(MaxAsks + 1)
        BY <1>6, CountsBounded, MaxAsksAssumption
      <3> QED BY <3>1, <3>2
    <2>3. due' \subseteq Request
      BY <1>2 DEF IInv, TypeOK
    <2> QED BY <1>1, <1>5, <2>1, <2>2, <2>3 DEF IInv, TypeOK, CallSet
  <1>9. AnswersComeOnce'
    BY <1>5 DEF IInv, AnswersComeOnce
  <1>10. DueIsSafe'
    <2>1. ASSUME NEW q \in due', NEW h \in Call
          PROVE  q \in Pending /\ LeavesAlone(call'[h], q)
      <3>1. CASE q \in due
        BY <1>5, <3>1 DEF IInv, DueIsSafe, Pending
      <3>2. CASE q \notin due
        <4>1. q \in Pending /\ LeavesAlone(call[h], q)
          BY <1>2, <2>1, <3>2 DEF Secure, InHand, LeavesAlone
        <4> QED BY <1>5, <4>1 DEF Pending
      <3> QED BY <3>1, <3>2
    <2>2. \A q \in due' : q \in Pending
      <3>1. due \subseteq Pending
        BY DEF IInv, DueIsSafe
      <3> QED BY <1>2, <3>1
    <2> QED BY <1>3, <2>1, <2>2 DEF DueIsSafe, LeavesAlone
  <1>11. ToldIsListed'
    <2>1. ASSUME NEW q \in due'
          PROVE  friendRequests'[q] > 0
      <3>1. CASE q = r
        BY <1>6, <3>1
      <3>2. CASE q # r
        BY <1>2, <1>6, <2>1, <3>2 DEF IInv, TypeOK, ToldIsListed
      <3> QED BY <3>1, <3>2
    <2> QED BY <2>1 DEF ToldIsListed
  <1>12. LateIsAstray'
    <2>1. ASSUME NEW q \in Request \ Pending
          PROVE  /\ coming'[q] > 0 => q \in astray
                 /\ \A h \in Call : Brings(call'[h], q) => q \in astray
      BY <1>5, <1>6, CountsBounded DEF IInv, LateIsAstray
    <2> QED BY <1>1, <1>3, <2>1 DEF LateIsAstray, Brings
  <1>13. AnsweredIsCleared'
    <2>1. ASSUME NEW q \in Request \ Pending, friendRequests'[q] > 0, q \notin astray
          PROVE  \E h \in Call : Clears(call'[h], q)
      <3>1. q # r
        BY <1>1, <2>1 DEF IInv, LateIsAstray
      <3>2. PICK h \in Call : Clears(call[h], q)
        BY <1>6, <2>1, <3>1 DEF IInv, AnsweredIsCleared
      <3> QED BY <1>5, <2>1, <3>2
    <2> QED BY <1>1, <1>3, <2>1 DEF AnsweredIsCleared, Clears
  <1> QED BY <1>7, <1>8, <1>9, <1>10, <1>11, <1>12, <1>13 DEF IInv

\* An event is lost.
LEMMA LoseEventStep ==
    ASSUME IInv, NEW r \in Request, LoseEvent(r)
    PROVE  IInv'
  <1>1. /\ coming' = [coming EXCEPT ![r] = @ - 1] /\ coming[r] > 0
        /\ UNCHANGED <<status, asks, loggedIn, friendRequests, pendingList, call, due, astray>>
    BY DEF LoseEvent
  <1>2. coming \in [Request -> 0..MaxAsks]
    BY DEF IInv, TypeOK
  <1>3. ASSUME NEW q \in Request
        PROVE  coming'[q] \in 0..MaxAsks /\ coming'[q] <= coming[q]
    BY <1>1, <1>2, MaxAsksAssumption
  <1>4. coming' \in [Request -> 0..MaxAsks]
    BY <1>1, <1>2, <1>3
  <1>5. TypeOK'
    BY <1>1, <1>4 DEF IInv, TypeOK
  <1>6. CardsAreAsked'
    BY <1>1, <1>3, CountsBounded DEF CardsAreAsked
  <1>7. AnswersComeOnce' /\ DueIsSafe' /\ ToldIsListed' /\ AnsweredIsCleared'
    BY <1>1 DEF IInv, AnswersComeOnce, DueIsSafe, ToldIsListed, AnsweredIsCleared,
       Pending, LeavesAlone, Clears
  <1>8. LateIsAstray'
    <2>1. ASSUME NEW q \in Request, coming'[q] > 0
          PROVE  coming[q] > 0
      BY <1>2, <1>3, <2>1
    <2> QED BY <1>1, <2>1 DEF IInv, LateIsAstray, Pending, Brings
  <1> QED BY <1>5, <1>6, <1>7, <1>8 DEF IInv

\* The server answers a pending request: the handler that asked goes on to
\* clear its cards, unless they are known to be astray.
LEMMA ServeAnswerStep ==
    ASSUME IInv, NEW h \in Call, ServeAnswer(h)
    PROVE  IInv'
  <1>1. PICK j \in CallSet : j = call[h]
    BY DEF IInv, TypeOK, CallSet
  <1> DEFINE r == j.request
  <1>2. j \in Answering /\ r \in Request /\ j.at = "answer"
    BY <1>1, CallAt DEF ServeAnswer
  <1>3. /\ r \in Pending
        /\ status' = [status EXCEPT ![r] = IF j.action = "accept" THEN "accepted" ELSE "rejected"]
        /\ due' = due \ {r}
        /\ UNCHANGED <<coming, asks, loggedIn, friendRequests, pendingList>>
    BY <1>1 DEF ServeAnswer
  <1>4. PICK ok \in BOOLEAN :
            /\ call' = [call EXCEPT ![h].at = "answered", ![h].ok = ok]
            /\ astray' = IF \/ ~ok
                            \/ coming[r] > 0
                            \/ j.from = "dialog" /\ j.action = "reject"
                            \/ \E g \in Call : InHand(g) /\ r \in call[g].rows
                         THEN astray \cup {r} ELSE astray
    BY <1>1 DEF ServeAnswer
  <1> DEFINE c == [j EXCEPT !.at = "answered", !.ok = ok]
  <1>5. /\ c \in Answering /\ c \in CallSet
        /\ c.at = "answered" /\ c.request = r /\ c.ok = ok
        /\ c.action = j.action /\ c.from = j.from
    BY <1>2 DEF Answering, CallSet
  <1>6. call' = [call EXCEPT ![h] = c]
    BY <1>1, <1>4
  <1>7. /\ call' \in [Call -> CallSet]
        /\ call'[h] = c
        /\ \A g \in Call : g # h => call'[g] = call[g]
    BY <1>5, <1>6, OneCallChanges DEF IInv
  <1> HIDE DEF c
  <1>8. Pending' = Pending \ {r}
    <2>1. status \in [Request -> {"none", "pending", "accepted", "rejected"}]
      BY DEF IInv, TypeOK
    <2> QED BY <1>2, <1>3, <2>1 DEF Pending
  <1>9. TypeOK'
    BY <1>2, <1>3, <1>4, <1>7 DEF IInv, TypeOK, CallSet
  <1>10. CardsAreAsked' /\ ToldIsListed'
    BY <1>3 DEF IInv, CardsAreAsked, ToldIsListed
  <1>11. AnswersComeOnce'
    BY <1>5, <1>7 DEF IInv, AnswersComeOnce
  <1>12. DueIsSafe'
    <2>1. ASSUME NEW q \in due', NEW g \in Call
          PROVE  q \in Pending' /\ LeavesAlone(call'[g], q)
      <3>1. q \in due /\ q # r /\ q \in Pending /\ LeavesAlone(call[g], q)
        BY <1>3, <2>1 DEF IInv, DueIsSafe
      <3>2. CASE g = h
        BY <1>5, <1>7, <1>8, <3>1, <3>2 DEF LeavesAlone
      <3>3. CASE g # h
        BY <1>7, <1>8, <2>1, <3>1, <3>3
      <3> QED BY <3>2, <3>3
    <2> QED BY <2>1 DEF DueIsSafe, LeavesAlone
  <1>13. astray \subseteq astray'
    BY <1>4
  <1>14. LateIsAstray'
    <2>1. ASSUME NEW q \in Request \ Pending'
          PROVE  /\ coming[q] > 0 => q \in astray'
                 /\ \A g \in Call : Brings(call[g], q) => q \in astray'
      <3>1. CASE q = r
        BY <1>4, <3>1 DEF Brings, InHand
      <3>2. CASE q # r
        BY <1>8, <1>13, <2>1, <3>2 DEF IInv, LateIsAstray
      <3> QED BY <3>1, <3>2
    <2>2. \A q \in Request, g \in Call : Brings(call'[g], q) => Brings(call[g], q)
      BY <1>5, <1>7 DEF Brings
    <2>3. \A q \in Request : \A g \in Call : Brings(call[g], q)' <=> Brings(call'[g], q)
      BY DEF Brings
    <2> QED BY <1>3, <2>1, <2>2, <2>3 DEF LateIsAstray
  <1>15. AnsweredIsCleared'
    <2>1. ASSUME NEW q \in Request \ Pending', friendRequests[q] > 0, q \notin astray'
          PROVE  \E g \in Call : Clears(call'[g], q)
      <3>1. CASE q = r
        <4>1. ok /\ ~(j.from = "dialog" /\ j.action = "reject")
          BY <1>4, <2>1, <3>1
        <4>2. j.from \in {"card", "dialog"} /\ j.action \in {"accept", "reject"}
          BY <1>2, CallAt
        <4> QED BY <1>5, <1>7, <3>1, <4>1, <4>2 DEF Clears
      <3>2. CASE q # r
        <4>1. PICK g \in Call : Clears(call[g], q)
          BY <1>8, <1>13, <2>1, <3>2 DEF IInv, AnsweredIsCleared
        <4>2. g # h
          BY <1>1, <3>2, <4>1 DEF Clears
        <4> QED BY <1>7, <4>1, <4>2
      <3> QED BY <3>1, <3>2
    <2>2. \A q \in Request : \A g \in Call : Clears(call[g], q)' <=> Clears(call'[g], q)
      BY DEF Clears
    <2> QED BY <1>3, <2>1, <2>2 DEF AnsweredIsCleared
  <1> QED BY <1>9, <1>10, <1>11, <1>12, <1>14, <1>15 DEF IInv

\* The user answers a request from a card or from the dialog.
LEMMA AnswerStep ==
    ASSUME IInv, NEW h \in Call, NEW r \in Request, NEW action \in {"accept", "reject"},
           NEW from \in {"card", "dialog"}, Answer(h, r, action, from)
    PROVE  IInv'
  <1> DEFINE c == [at |-> "answer", request |-> r, action |-> action,
                   from |-> from, card |-> from = "card", ok |-> FALSE]
  <1>1. c \in CallSet
    BY DEF CallSet, Answering
  <1>2. call[h] = Idle /\ call' = [call EXCEPT ![h] = c]
    BY DEF Answer
  <1>3. UNCHANGED <<server, loggedIn, friendRequests, pendingList, due, astray>>
    BY DEF Answer
  <1>4. loggedIn \in BOOLEAN /\ pendingList \subseteq Request /\ astray \subseteq Request
    BY DEF IInv, TypeOK
  <1>5. c.at = "answer" /\ ~c.ok
    OBVIOUS
  <1>6. \A q \in Request : LeavesAlone(c, q) /\ ~Brings(c, q) /\ ~Clears(call[h], q)
    BY <1>2, NoRequestAssumption DEF LeavesAlone, Brings, Clears, Idle
  <1>7. due \subseteq Request
    BY DEF IInv, TypeOK
  <1> HIDE DEF c
  <1> QED BY <1>1, <1>2, <1>3, <1>4, <1>5, <1>6, <1>7, CallTurns

\* A handler that clears no card ends: an answer that failed, a dialog that is
\* shown or cannot be, a list that cannot be loaded.
LEMMA CallEnds ==
    ASSUME IInv, NEW h \in Call, call' = [call EXCEPT ![h] = Idle],
           UNCHANGED <<server, loggedIn, friendRequests, due>>,
           pendingList' \subseteq Request, astray \subseteq astray', astray' \subseteq Request,
           \A r \in Request \ Pending : Clears(call[h], r) => r \in astray'
    PROVE  IInv'
  <1>1. Idle \in CallSet /\ Idle.at = "idle" /\ Idle.request \notin Request
    BY NoRequestAssumption DEF CallSet, Idle
  <1>2. \A q \in Request : LeavesAlone(Idle, q) /\ ~Brings(Idle, q)
    BY <1>1 DEF LeavesAlone, Brings
  <1>3. loggedIn \in BOOLEAN /\ due \subseteq Request
    BY DEF IInv, TypeOK
  <1> QED BY <1>1, <1>2, <1>3, CallTurns

\* A free handler begins to load the dashboard or the dialog for no request in
\* particular, or the handler of a request rejected in the dialog opens it again.
LEMMA LoadBegins ==
    ASSUME IInv, NEW h \in Call, NEW at \in {"dashboard", "dialog"},
           call' = [call EXCEPT ![h] = [at |-> at, request |-> NoRequest,
                                        from |-> "dialog", card |-> FALSE]],
           UNCHANGED <<server, friendRequests, pendingList, due, astray>>,
           loggedIn' \in BOOLEAN,
           \A r \in Request : ~Clears(call[h], r)
    PROVE  IInv'
  <1> DEFINE c == [at |-> at, request |-> NoRequest, from |-> "dialog", card |-> FALSE]
  <1>1. c \in CallSet /\ c.at # "answer"
    BY DEF CallSet, Loading
  <1>2. \A q \in Request : LeavesAlone(c, q) /\ ~Brings(c, q)
    BY NoRequestAssumption DEF LeavesAlone, Brings
  <1>3. pendingList \subseteq Request /\ due \subseteq Request /\ astray \subseteq Request
    BY DEF IInv, TypeOK
  <1> HIDE DEF c
  <1>4. call' = [call EXCEPT ![h] = c]
    BY DEF c
  <1> QED BY <1>1, <1>2, <1>3, <1>4, CallTurns

\* The accepted request's dashboard is loaded; the handler still clears.
LEMMA AcceptedStep ==
    ASSUME IInv, NEW h \in Call, Accepted(h)
    PROVE  IInv'
  <1>1. PICK j \in CallSet : j = call[h]
    BY DEF IInv, TypeOK, CallSet
  <1>2. j \in Answering /\ j.ok
    BY <1>1, CallAt DEF Accepted
  <1> DEFINE c == [at |-> "dashboard", request |-> j.request, from |-> j.from, card |-> j.card]
  <1>3. /\ c \in CallSet /\ c.at = "dashboard" /\ c.request = j.request /\ c.from = j.from
    BY <1>2 DEF CallSet, Answering, Loading
  <1>4. /\ j.at = "answered"
        /\ pendingList' = IF j.from = "dialog" THEN {} ELSE pendingList
        /\ call' = [call EXCEPT ![h] = c]
        /\ UNCHANGED <<server, loggedIn, friendRequests, due, astray>>
    BY <1>1 DEF Accepted
  <1> HIDE DEF c
  <1>5. /\ loggedIn \in BOOLEAN /\ pendingList' \subseteq Request
        /\ due \subseteq Request /\ astray \subseteq Request
    BY <1>4 DEF IInv, TypeOK
  <1>6. \A r \in due : LeavesAlone(c, r)
    <2>1. ASSUME NEW r \in due
          PROVE  LeavesAlone(j, r)
      BY <1>1 DEF IInv, DueIsSafe
    <2> QED BY <1>2, <1>3, <1>4, <2>1 DEF LeavesAlone
  <1>7. \A r \in Request : ~Brings(c, r) /\ (Clears(j, r) => Clears(c, r))
    BY <1>3 DEF Brings, Clears
  <1> QED BY <1>1, <1>3, <1>4, <1>5, <1>6, <1>7, CallTurns

\* The server answers with the requests pending now: all that are due are.
LEMMA GetPendingRequestsStep ==
    ASSUME IInv, NEW h \in Call, GetPendingRequests(h)
    PROVE  IInv'
  <1>1. PICK j \in CallSet : j = call[h]
    BY DEF IInv, TypeOK, CallSet
  <1>2. j \in Loading /\ j.at \in {"dashboard", "dialog"}
    BY <1>1, CallAt DEF GetPendingRequests
  <1> DEFINE at == IF j.at = "dashboard" THEN "pending" ELSE "dialogPending"
             c == [at |-> at, request |-> j.request, from |-> j.from, card |-> j.card,
                   rows |-> Pending]
  <1>3. Pending \subseteq Request
    BY DEF Pending
  <1>4. /\ c \in CallSet /\ c.at = at /\ c.request = j.request /\ c.from = j.from
        /\ c.rows = Pending
    BY <1>2, <1>3 DEF CallSet, Loading
  <1>5. /\ call' = [call EXCEPT ![h] = c]
        /\ UNCHANGED <<server, loggedIn, friendRequests, pendingList, due, astray>>
    BY <1>1 DEF GetPendingRequests
  <1> HIDE DEF c
  <1>6. /\ loggedIn \in BOOLEAN /\ pendingList \subseteq Request
        /\ due \subseteq Request /\ astray \subseteq Request
    BY DEF IInv, TypeOK
  <1>7. \A r \in due : LeavesAlone(c, r)
    <2>1. ASSUME NEW r \in due
          PROVE  r \in Pending /\ LeavesAlone(j, r)
      BY <1>1 DEF IInv, DueIsSafe
    <2> QED BY <1>2, <1>4, <2>1 DEF LeavesAlone
  <1>8. \A r \in Request \ Pending : ~Brings(c, r) /\ (Clears(j, r) => Clears(c, r))
    BY <1>2, <1>4 DEF Brings, Clears
  <1>9. c.at # "answer"
    BY <1>4
  <1> QED BY <1>1, <1>4, <1>5, <1>6, <1>7, <1>8, <1>9, CallTurns

\* A handler that was about a card clears its request's cards: none of them was
\* due, the others stay.
LEMMA CardsCleared ==
    ASSUME IInv, NEW h \in Call, call[h].from = "card",
           \/ call[h].at = "answered" /\ call[h].ok
           \/ call[h].at \in {"dashboard", "pending"},
           friendRequests' = [friendRequests EXCEPT ![call[h].request] = 0],
           call' = Rerendered([call EXCEPT ![h] = Idle]),
           UNCHANGED <<server, loggedIn, pendingList, due, astray>>
    PROVE  IInv'
  <1> DEFINE p == call[h].request
  <1>1. friendRequests \in [Request -> 0..(MaxAsks + 1)] /\ due \subseteq Pending
        /\ due \subseteq Request
    BY DEF IInv, TypeOK, DueIsSafe
  <1>2. \A r \in Request : friendRequests'[r] = IF r = p THEN 0 ELSE friendRequests[r]
    BY <1>1
  <1>3. friendRequests' \in [Request -> Nat]
    <2>1. friendRequests \in [Request -> Nat]
      <3>1. 0..(MaxAsks + 1) \subseteq Nat
        BY MaxAsksAssumption
      <3> QED BY <1>1, <3>1
    <2> QED BY <2>1
  <1>4. p \notin due
    BY DEF IInv, DueIsSafe, LeavesAlone
  <1>5. \A r \in due : friendRequests[r] > 0 /\ \A g \in Call : LeavesAlone(call[g], r)
    BY DEF IInv, DueIsSafe, ToldIsListed
  <1>6. ASSUME NEW r \in Request
        PROVE  /\ friendRequests'[r] <= IF friendRequests[r] > 0 THEN friendRequests[r] ELSE 1
               /\ r \in due' => /\ friendRequests'[r] > 0
                                /\ \A g \in Call \ {h} : LeavesAlone(call[g], r)
    BY <1>1, <1>2, <1>4, <1>5, CountsBounded
  <1>7. \A r \in Request \ Pending : friendRequests'[r] > 0 =>
                r \in astray \/ (friendRequests[r] > 0 /\ ~Clears(call[h], r))
    BY <1>2 DEF Clears
  <1>8. due' \subseteq Pending
    BY <1>1
  <1>9. UNCHANGED <<server, loggedIn, pendingList, astray>>
    OBVIOUS
  <1> HIDE DEF p
  <1> QED BY <1>3, <1>6, <1>7, <1>8, <1>9, CardsReplaced

\* The list that has come replaces the cards.  It has every request that is due
\* and, of those answered meanwhile, only what is astray.
LEMMA FetchFriendRequestsStep ==
    ASSUME IInv, NEW h \in Call, FetchFriendRequests(h)
    PROVE  IInv'
  <1>1. PICK j \in CallSet : j = call[h]
    BY DEF IInv, TypeOK, CallSet
  <1> DEFINE rows == IF j.from = "card" THEN j.rows \ {j.request} ELSE j.rows
  <1>2. j.at = "pending" /\ j.rows \subseteq Request
    BY <1>1, CallAt DEF FetchFriendRequests, InHand
  <1>3. /\ friendRequests' = [r \in Request |-> IF r \in rows THEN 1 ELSE 0]
        /\ call' = Rerendered([call EXCEPT ![h] = Idle])
        /\ due' = due \cup {r \in rows \cap Pending : Secure(r, Call \ {h})}
        /\ UNCHANGED <<server, loggedIn, pendingList, astray>>
    BY <1>1 DEF FetchFriendRequests
  <1>4. ASSUME NEW r \in due
        PROVE  r \in rows /\ r \in Pending /\ \A g \in Call : LeavesAlone(call[g], r)
    <2>1. r \in Pending /\ \A g \in Call : LeavesAlone(call[g], r)
      BY DEF IInv, DueIsSafe
    <2> QED BY <1>1, <1>2, <2>1 DEF LeavesAlone
  <1>5. ASSUME NEW r, Secure(r, Call \ {h})
        PROVE  \A g \in Call \ {h} : LeavesAlone(call[g], r)
    BY <1>5 DEF Secure, InHand, LeavesAlone
  <1> HIDE DEF rows
  <1>6. \A r \in due' : r \in rows /\ r \in Pending
                        /\ \A g \in Call \ {h} : LeavesAlone(call[g], r)
    BY <1>3, <1>4, <1>5
  <1>7. ASSUME NEW r \in Request
        PROVE  /\ friendRequests'[r] <= IF friendRequests[r] > 0 THEN friendRequests[r] ELSE 1
               /\ r \in due' => /\ friendRequests'[r] > 0
                                /\ \A g \in Call \ {h} : LeavesAlone(call[g], r)
    <2>1. friendRequests'[r] \in {0, 1} /\ friendRequests[r] \in Nat
      BY <1>3, CountsBounded
    <2>2. r \in rows => friendRequests'[r] = 1
      BY <1>3
    <2> QED BY <1>6, <2>1, <2>2
  <1>8. ASSUME NEW r \in Request \ Pending, friendRequests'[r] > 0
        PROVE  r \in astray
    <2>1. r \in j.rows
      BY <1>3, <1>8 DEF rows
    <2> QED BY <1>1, <1>2, <2>1 DEF IInv, LateIsAstray, Brings
  <1>9. friendRequests' \in [Request -> Nat] /\ due' \subseteq Pending
    BY <1>3, <1>6
  <1> QED BY <1>3, <1>7, <1>8, <1>9, CardsReplaced

\* The list cannot be loaded: the card goes all the same, and without a card
\* those of an accepted request are astray.
LEMMA FetchFailsStep ==
    ASSUME IInv, NEW h \in Call, FetchFails(h)
    PROVE  IInv'
  <1>1. call[h].at \in {"dashboard", "pending"}
    BY DEF FetchFails
  <1>2. CASE call[h].from = "card"
    BY <1>1, <1>2, CardsCleared DEF FetchFails
  <1>3. CASE call[h].from # "card"
    <2> DEFINE answered == IF call[h].request \in Request \ Pending
                           THEN {call[h].request} ELSE {}
    <2>1. /\ call' = [call EXCEPT ![h] = Idle]
          /\ astray' = astray \cup answered
          /\ UNCHANGED <<server, loggedIn, friendRequests, pendingList, due>>
      BY <1>3 DEF FetchFails
    <2>2. pendingList \subseteq Request /\ astray' \subseteq Request
      BY <2>1 DEF IInv, TypeOK
    <2>3. \A r \in Request \ Pending : Clears(call[h], r) => r \in astray'
      BY <2>1 DEF Clears
    <2> QED BY <2>1, <2>2, <2>3, CallEnds
  <1> QED BY <1>2, <1>3

(***************************************************************************)
(* The theorems                                                            *)
(***************************************************************************)

\* There are no cards before the first login.
LEMMA InitInv == Init => IInv
  <1> SUFFICES ASSUME Init
               PROVE  IInv
    OBVIOUS
  <1>1. TypeOK
    <2>1. 0 \in 0..MaxAsks /\ 0 \in 0..(MaxAsks + 1)
      BY MaxAsksAssumption
    <2> QED BY <2>1 DEF Init, TypeOK
  <1>2. CardsAreAsked /\ AnswersComeOnce /\ DueIsSafe /\ ToldIsListed /\ LateIsAstray
        /\ AnsweredIsCleared
    BY DEF Init, CardsAreAsked, AnswersComeOnce, DueIsSafe, ToldIsListed, LateIsAstray,
       AnsweredIsCleared, Idle, Brings
  <1> QED BY <1>1, <1>2 DEF IInv

\* What a request, its events and the loss of one do.
LEMMA RequestSteps ==
    ASSUME IInv, NEW r \in Request,
           Ask(r) \/ AskBack(r) \/ HandleNewRequest(r) \/ LoseEvent(r)
    PROVE  IInv'
  <1>1. r \in Pending <=> status[r] = "pending"
    BY DEF Pending
  <1>2. asks \in 0..MaxAsks
    BY DEF IInv, TypeOK
  <1>3. CASE Ask(r)
    <2>1. asks' \in {asks, asks + 1} /\ asks' <= MaxAsks /\ asks' # asks
      BY <1>2, <1>3, MaxAsksAssumption DEF Ask
    <2>2. r \notin Pending
      BY <1>1, <1>3 DEF Ask
    <2> QED BY <1>3, <2>1, <2>2, BecomesPending DEF Ask
  <1>4. CASE AskBack(r)
    <2>1. asks' = asks /\ asks' <= MaxAsks /\ coming' = coming
      BY <1>2, <1>4, MaxAsksAssumption DEF AskBack
    <2>2. r \notin Pending
      BY <1>1, <1>4 DEF AskBack
    <2> QED BY <1>4, <2>1, <2>2, BecomesPending DEF AskBack
  <1> QED BY <1>3, <1>4, HandleNewRequestStep, LoseEventStep

\* What an answer does.
LEMMA AnswerSteps ==
    ASSUME IInv, NEW h \in Call,
           \/ \E r \in Request, action \in {"accept", "reject"} :
                HandleFriendRequestAction(h, r, action) \/ AnswerInDialog(h, r, action)
           \/ ServeAnswer(h) \/ RefuseAnswer(h) \/ AnswerFailed(h)
           \/ Ignored(h) \/ RejectedInDialog(h) \/ Accepted(h)
    PROVE  IInv'
  <1>1. PICK j \in CallSet : j = call[h]
    BY DEF IInv, TypeOK, CallSet
  <1>2. pendingList \subseteq Request /\ astray \subseteq Request /\ due \subseteq Request
        /\ loggedIn \in BOOLEAN
    BY DEF IInv, TypeOK
  <1>3. CASE \E r \in Request, action \in {"accept", "reject"} :
                HandleFriendRequestAction(h, r, action) \/ AnswerInDialog(h, r, action)
    BY <1>3, AnswerStep DEF HandleFriendRequestAction, AnswerInDialog
  <1>4. CASE ServeAnswer(h)
    BY <1>4, ServeAnswerStep
  <1>5. CASE RefuseAnswer(h)
    <2>1. j.at = "answer" /\ j \in Answering /\ ~j.ok
      BY <1>1, <1>5, CallAt DEF RefuseAnswer, IInv, AnswersComeOnce
    <2> DEFINE c == [j EXCEPT !.at = "answered"]
    <2>2. c \in CallSet /\ c.at = "answered" /\ c.ok = j.ok /\ c.request = j.request
      BY <2>1 DEF CallSet, Answering
    <2>3. call' = [call EXCEPT ![h] = c]
          /\ UNCHANGED <<server, loggedIn, friendRequests, pendingList, due, astray>>
      BY <1>1, <1>5 DEF RefuseAnswer
    <2> HIDE DEF c
    <2>4. \A r \in Request : LeavesAlone(c, r) /\ ~Brings(c, r) /\ ~Clears(j, r)
      BY <2>1, <2>2 DEF LeavesAlone, Brings, Clears
    <2> QED BY <1>1, <1>2, <2>2, <2>3, <2>4, CallTurns
  <1>6. CASE AnswerFailed(h)
    <2>1. \A r \in Request : ~Clears(call[h], r)
      BY <1>6 DEF AnswerFailed, Clears
    <2> QED BY <1>2, <1>6, <2>1, CallEnds DEF AnswerFailed
  <1>7. CASE Ignored(h)
    BY <1>7, CardsCleared DEF Ignored
  <1>8. CASE RejectedInDialog(h)
    <2>1. \A r \in Request : ~Clears(call[h], r)
      BY <1>8 DEF RejectedInDialog, Clears
    <2> QED BY <1>2, <1>8, <2>1, LoadBegins DEF RejectedInDialog
  <1>9. CASE Accepted(h)
    BY <1>9, AcceptedStep
  <1> QED BY <1>3, <1>4, <1>5, <1>6, <1>7, <1>8, <1>9

\* What loading the dashboard and the dialog does.
LEMMA LoadSteps ==
    ASSUME IInv, NEW h \in Call,
           \/ LoadDashboard(h) \/ GetPendingRequests(h) \/ FetchFriendRequests(h)
           \/ FetchFails(h) \/ HandleOpenPending(h) \/ ShowPending(h) \/ OpenPendingFails(h)
    PROVE  IInv'
  <1>1. PICK j \in CallSet : j = call[h]
    BY DEF IInv, TypeOK, CallSet
  <1>2. pendingList \subseteq Request /\ astray \subseteq Request /\ loggedIn \in BOOLEAN
    BY DEF IInv, TypeOK
  <1>3. ASSUME call[h] = Idle
        PROVE  \A r \in Request : ~Clears(call[h], r)
    BY <1>3, NoRequestAssumption DEF Clears, Idle
  <1>4. CASE LoadDashboard(h)
    BY <1>2, <1>3, <1>4, LoadBegins DEF LoadDashboard
  <1>5. CASE GetPendingRequests(h)
    BY <1>5, GetPendingRequestsStep
  <1>6. CASE FetchFriendRequests(h)
    BY <1>6, FetchFriendRequestsStep
  <1>7. CASE FetchFails(h)
    BY <1>7, FetchFailsStep
  <1>8. CASE HandleOpenPending(h)
    BY <1>2, <1>3, <1>8, LoadBegins DEF HandleOpenPending
  <1>9. CASE ShowPending(h)
    <2>1. call[h].rows \subseteq Request
      BY <1>1, <1>9, CallAt DEF ShowPending
    <2>2. \A r \in Request : ~Clears(call[h], r)
      BY <1>9 DEF ShowPending, Clears
    <2> QED BY <1>2, <1>9, <2>1, <2>2, CallEnds DEF ShowPending
  <1>10. CASE OpenPendingFails(h)
    <2>1. \A r \in Request : ~Clears(call[h], r)
      BY <1>10 DEF OpenPendingFails, Clears
    <2> QED BY <1>2, <1>10, <2>1, CallEnds DEF OpenPendingFails
  <1> QED BY <1>4, <1>5, <1>6, <1>7, <1>8, <1>9, <1>10

\* Every step keeps the invariant.
LEMMA NextInv == IInv /\ [Next]_vars => IInv'
  <1> SUFFICES ASSUME IInv, [Next]_vars
               PROVE  IInv'
    OBVIOUS
  <1>1. ASSUME NEW r \in Request,
               Ask(r) \/ AskBack(r) \/ HandleNewRequest(r) \/ LoseEvent(r)
        PROVE  IInv'
    BY <1>1, RequestSteps
  <1>2. ASSUME NEW h \in Call,
               \/ \E r \in Request, action \in {"accept", "reject"} :
                    HandleFriendRequestAction(h, r, action) \/ AnswerInDialog(h, r, action)
               \/ ServeAnswer(h) \/ RefuseAnswer(h) \/ AnswerFailed(h)
               \/ Ignored(h) \/ RejectedInDialog(h) \/ Accepted(h)
        PROVE  IInv'
    BY <1>2, AnswerSteps
  <1>3. ASSUME NEW h \in Call,
               \/ LoadDashboard(h) \/ GetPendingRequests(h) \/ FetchFriendRequests(h)
               \/ FetchFails(h) \/ HandleOpenPending(h) \/ ShowPending(h) \/ OpenPendingFails(h)
        PROVE  IInv'
    BY <1>3, LoadSteps
  <1>4. CASE ClosePending \/ HandleLogout \/ UNCHANGED vars
    <2>1. /\ UNCHANGED <<status, coming, asks, friendRequests, call, due, astray>>
          /\ loggedIn' \in BOOLEAN /\ pendingList' \subseteq Request
      BY <1>4 DEF ClosePending, HandleLogout, vars, server, IInv, TypeOK
    <2>2. TypeOK'
      BY <2>1 DEF IInv, TypeOK
    <2>3. CardsAreAsked' /\ AnswersComeOnce' /\ ToldIsListed'
      BY <2>1 DEF IInv, CardsAreAsked, AnswersComeOnce, ToldIsListed
    <2>4. DueIsSafe' /\ LateIsAstray' /\ AnsweredIsCleared'
      BY <2>1 DEF IInv, DueIsSafe, LateIsAstray, AnsweredIsCleared, Pending, LeavesAlone,
         Brings, Clears
    <2> QED BY <2>2, <2>3, <2>4 DEF IInv
  <1> QED BY <1>1, <1>2, <1>3, <1>4 DEF Next, Step

\* The cards, the lists on their way and the answers under way fit together,
\* whatever the number of requests and of handlers.
THEOREM Invariance == Spec => []IInv
  <1> QED BY InitInv, NextInv, PTL DEF Spec

\* The tables, the cards and the handlers keep their types; there are never
\* more cards of a request than it was asked for, and one.
THEOREM TypeCorrect == Spec => []TypeOK
  <1>1. IInv => TypeOK
    BY DEF IInv
  <1> QED BY <1>1, Invariance, PTL

\* A request the user was told of keeps its card until it is answered.
THEOREM ToldStaysListed == Spec => []ToldIsListed
  <1>1. IInv => ToldIsListed
    BY DEF IInv
  <1> QED BY <1>1, Invariance, PTL

\* An answered request loses its cards with the last handler about it, but for
\* those of which it is known why they are astray.
THEOREM AnsweredGoes == Spec => []AnsweredIsGone
  <1>1. IInv => AnsweredIsGone
    BY DEF IInv, AnsweredIsCleared, Clears, AnsweredIsGone
  <1> QED BY <1>1, Invariance, PTL
=============================================================================
