--------------------------- MODULE FriendshipProofs ---------------------------
(***************************************************************************)
(* Theorems about Friendship for any users, requests and conversation ids. *)
(***************************************************************************)
EXTENDS FriendshipInv, TLAPS

(***************************************************************************)
(* Pairs                                                                   *)
(***************************************************************************)

\* The row of two different users has them as its ends, in either direction.
LEMMA PairFacts ==
    ASSUME NEW p \in Pair
    PROVE  /\ p = <<p[1], p[2]>>
           /\ p[1] \in User /\ p[2] \in User /\ p[1] # p[2]
           /\ Reversed(p) \in Pair
           /\ Ends(Reversed(p)) = Ends(p)
           /\ Reversed(p) # p
           /\ Ends(p) \in SUBSET User
           /\ Ends(p) # {}
  BY DEF Pair, Reversed, Ends

\* Two rows between the same users are the same row or each other's reverse.
LEMMA SameEnds ==
    ASSUME NEW p \in Pair, NEW q \in Pair, Ends(p) \subseteq Ends(q)
    PROVE  Ends(p) = Ends(q) /\ (p = q \/ p = Reversed(q))
  BY DEF Pair, Reversed, Ends

(***************************************************************************)
(* Types                                                                   *)
(***************************************************************************)

\* A request in flight has a job, with a row and a user.
LEMMA JobInFlight ==
    ASSUME TypeOK, NEW h \in Handler
    PROVE  /\ job[h] = Idle \/ job[h] \in Job
           /\ job[h].at # "idle" => job[h] \in Job
           /\ job[h] \in Job => job[h] # Idle /\ job[h].at # "idle"
           /\ Idle.at = "idle"
  BY DEF TypeOK, Job, Idle, Statement, Publish

\* A request begins within the types.
LEMMA BeginType ==
    ASSUME TypeOK, NEW h \in Handler, NEW at \in Statement \cup Publish,
           NEW u \in User, NEW r \in Pair, Begin(h, at, u, r)
    PROVE  job' \in [Handler -> Job \cup {Idle}] /\ crossed' \subseteq SUBSET User
  <1>1. [at |-> at, user |-> u, row |-> r, conv |-> NoConv] \in Job
    BY DEF Job
  <1>2. job' \in [Handler -> Job \cup {Idle}]
    BY <1>1 DEF Begin, TypeOK
  <1>3. crossed' \subseteq SUBSET User
    BY PairFacts DEF Begin, TypeOK
  <1> QED BY <1>2, <1>3

\* A request goes to its next statement within the types.
LEMMA GotoType ==
    ASSUME TypeOK, NEW h \in Handler, job[h] \in Job,
           NEW at \in Statement \cup Publish, Goto(h, at)
    PROVE  job' \in [Handler -> Job \cup {Idle}]
  <1>1. [job[h] EXCEPT !.at = at] \in Job
    BY DEF Job
  <1>2. job' = [job EXCEPT ![h] = [job[h] EXCEPT !.at = at]]
    BY DEF Goto, TypeOK
  <1> QED BY <1>1, <1>2 DEF TypeOK

\* A request returns within the types.
LEMMA ReturnType ==
    ASSUME TypeOK, NEW h \in Handler, Return(h)
    PROVE  job' \in [Handler -> Job \cup {Idle}]
  BY DEF Return, TypeOK


\* The effect of the three ways a request's job changes, on its own job and
\* on the others'.
LEMMA BeginEffect ==
    ASSUME TypeOK, NEW h \in Handler, NEW at, NEW u, NEW r, Begin(h, at, u, r)
    PROVE  /\ job[h] = Idle
           /\ job'[h] = [at |-> at, user |-> u, row |-> r, conv |-> NoConv]
           /\ \A g \in Handler : g # h => job'[g] = job[g]
           /\ crossed \subseteq crossed'
           /\ crossed' \subseteq crossed \cup {Ends(r)}
           /\ Ends(r) \notin crossed' => ~Crossing(at, r)
           /\ UNCHANGED <<stale, cut>>
  BY DEF Begin, TypeOK

\* Going to another statement, a request keeps what it knows, and so do the others.
LEMMA GotoEffect ==
    ASSUME TypeOK, NEW h \in Handler, job[h] \in Job, NEW at, Goto(h, at)
    PROVE  /\ job'[h].at = at
           /\ job'[h].user = job[h].user
           /\ job'[h].row = job[h].row
           /\ job'[h].conv = job[h].conv
           /\ at # "idle" => job'[h] # Idle
           /\ \A g \in Handler : g # h => job'[g] = job[g]
  BY DEF Goto, TypeOK, Job, Idle

\* A request that returns is gone, the others are where they were.
LEMMA ReturnEffect ==
    ASSUME TypeOK, NEW h \in Handler, Return(h)
    PROVE  /\ job'[h] = Idle
           /\ \A g \in Handler : g # h => job'[g] = job[g]
  BY DEF Return, TypeOK

\* An agreement keeps its conversation, or what stands for it, through a step
\* of a request that does not itself let go of it.
LEMMA AgreementKept ==
    ASSUME AgreedHaveConversation, TypeOK, NEW h \in Handler,
           \A g \in Handler : g # h => job'[g] = job[g],
           \A p \in Pair : DirectBetween(Ends(p)) # {} => DirectBetween(Ends(p))' # {},
           cut \subseteq cut', served' \subseteq Pair, agreed' \subseteq Pair,
           \A p \in served' : p \in served \/ DirectBetween(Ends(p))' # {},
           \A p \in agreed' : \/ p \in agreed
                              \/ /\ job'[h] # Idle /\ job'[h].row = p
                                 /\ job'[h].at \in Linking,
           \A p \in Pair :
               (WorksOn(h, Ends(p)) /\ job[h].at \in Linking) =>
                   \/ DirectBetween(Ends(p))' # {}
                   \/ Ends(p) \in cut'
                   \/ /\ job'[h] # Idle /\ Ends(job'[h].row) = Ends(p)
                      /\ job'[h].at \in Linking
    PROVE  AgreedHaveConversation'
  <1>1. ASSUME NEW p \in served'
        PROVE  DirectBetween(Ends(p))' # {}
    BY <1>1 DEF AgreedHaveConversation
  <1>2. ASSUME NEW p \in agreed'
        PROVE  \/ DirectBetween(Ends(p))' # {}
               \/ \E g \in Handler : WorksOn(g, Ends(p))' /\ job'[g].at \in Linking
               \/ Ends(p) \in cut'
    <2>1. CASE p \notin agreed
      BY <2>1, <1>2 DEF WorksOn
    <2>p. p \in Pair
      BY <1>2
    <2>2. CASE p \in agreed /\ DirectBetween(Ends(p)) # {}
      BY <1>2, <2>2
    <2>3. CASE p \in agreed /\ Ends(p) \in cut
      BY <2>3
    <2>4. CASE p \in agreed /\ \E g \in Handler :
                    WorksOn(g, Ends(p)) /\ job[g].at \in Linking
      <3>1. PICK g \in Handler : WorksOn(g, Ends(p)) /\ job[g].at \in Linking
        BY <2>4
      <3>2. CASE g = h
        BY <2>p, <3>1, <3>2 DEF WorksOn
      <3>3. CASE g # h
        BY <3>1, <3>3 DEF WorksOn
      <3> QED BY <3>2, <3>3
    <2> QED BY <2>1, <2>2, <2>3, <2>4 DEF AgreedHaveConversation
  <1> QED BY <1>1, <1>2 DEF AgreedHaveConversation

(***************************************************************************)
(* The inductive invariant: one lemma per action.                          *)
(***************************************************************************)

\* A request begins: it has read its row, and nothing is written yet.
LEMMA BeginStep ==
    ASSUME IInv, NEW h \in Handler, NEW u \in User, NEW r \in Pair,
           NEW at \in {"create", "reopen", "accept", "reject"},
           u \in Ends(r),
           at \in {"accept", "reject"} => status[r] = "pending",
           at = "reopen" => status[r] = "rejected",
           at = "create" => status[r] = "none" /\ status[Reversed(r)] = "none",
           Begin(h, at, u, r),
           UNCHANGED <<tables, notices, agreed, served, raced>>
    PROVE  IInv'
  <1> USE DEF IInv
  <1>0. UNCHANGED <<status, conversations, participants, requestNotices,
                    conversationNotices, agreed, served, raced>>
    BY DEF tables, notices
  <1>e. /\ job[h] = Idle
        /\ job'[h] = [at |-> at, user |-> u, row |-> r, conv |-> NoConv]
        /\ \A g \in Handler : g # h => job'[g] = job[g]
        /\ crossed \subseteq crossed'
        /\ crossed' \subseteq crossed \cup {Ends(r)}
        /\ Ends(r) \notin crossed' => ~Crossing(at, r)
        /\ UNCHANGED <<stale, cut>>
    BY BeginEffect
  <1>t. TypeOK'
    <2>1. job' \in [Handler -> Job \cup {Idle}] /\ crossed' \subseteq SUBSET User
      BY BeginType DEF Statement, Publish
    <2> QED BY <1>0, <1>e, <2>1 DEF TypeOK
  <1>1. RowsInHand'
    BY <1>0, <1>e DEF RowsInHand, AfterAccept
  <1>2. ConversationsInHand'
    BY <1>0, <1>e DEF ConversationsInHand, Notifying
  <1>3. ReadsInHand'
    BY <1>0, <1>e DEF ReadsInHand
  <1>4. AskedOneWay'
    <2> SUFFICES ASSUME NEW k \in Handler, job'[k].at = "create",
                        Ends(job'[k].row) \notin crossed'
                 PROVE  /\ status[Reversed(job'[k].row)] = "none"
                        /\ \A g \in Handler :
                            job'[g].at = "create" => job'[g].row # Reversed(job'[k].row)
      BY <1>0 DEF AskedOneWay
    <2>1. CASE k = h
      <3>1. at = "create" /\ job'[k].row = r /\ Ends(r) \notin crossed'
        BY <1>e, <2>1
      <3>2. \A g \in Handler : job[g].at = "create" => job[g].row # Reversed(r)
        BY <1>e, <3>1 DEF Crossing
      <3> QED BY <1>e, <3>1, <3>2, PairFacts
    <2>2. CASE k # h
      <3>1. /\ job'[k] = job[k] /\ job[k].at = "create" /\ job[k].row \in Pair
            /\ Ends(job[k].row) \notin crossed
        BY <1>e, <2>2, JobInFlight DEF Job
      <3>2. /\ status[Reversed(job[k].row)] = "none"
            /\ \A g \in Handler : job[g].at = "create" => job[g].row # Reversed(job[k].row)
        BY <3>1 DEF AskedOneWay
      <3>3. ASSUME at = "create", r = Reversed(job[k].row)
            PROVE  FALSE
        <4>1. job[k].row = Reversed(r) /\ Ends(r) = Ends(job[k].row)
          BY <3>1, <3>3, PairFacts DEF Reversed
        <4> QED BY <1>e, <3>1, <3>3, <4>1 DEF Crossing
      <3> QED BY <1>e, <3>1, <3>2, <3>3
    <2> QED BY <2>1, <2>2
  <1>5. OneRowUnlessCrossed' /\ OneConversationUnlessRaced'
    BY <1>0, <1>e DEF OneRowUnlessCrossed, OneConversationUnlessRaced,
                      DirectBetween
  <1>6. AgreedRowsExist' /\ ParticipantsAgreed' /\ ToldOnlyOfUsableConversations'
    BY <1>0 DEF AgreedRowsExist, ParticipantsAgreed, ToldOnlyOfUsableConversations
  <1>7. AgreedHaveConversation'
    <2>1. \A p \in Pair : DirectBetween(Ends(p))' = DirectBetween(Ends(p))
      BY <1>0 DEF DirectBetween
    <2>2. \A p \in Pair : ~WorksOn(h, Ends(p))
      BY <1>e DEF WorksOn
    <2>3. /\ agreed' = agreed /\ agreed' \subseteq Pair
          /\ served' = served /\ served' \subseteq Pair
      BY <1>0 DEF TypeOK
    <2> QED BY <1>e, <2>1, <2>2, <2>3, AgreementKept
  <1>8. OpeningInHand'
    <2>1. \A g \in Handler : \A p \in Pair : Opening(g, Ends(p))' => Opening(g, Ends(p))
      BY <1>e DEF Opening, WorksOn
    <2> QED BY <1>0, <2>1 DEF OpeningInHand, DirectBetween
  <1> QED BY <1>t, <1>1, <1>2, <1>3, <1>4, <1>5, <1>6, <1>7, <1>8

\* A request leaves without writing any table; what it published or answered
\* last is true.
LEMMA ReturnStep ==
    ASSUME IInv, NEW h \in Handler, job[h] \in Job, Return(h),
           UNCHANGED <<tables, agreed, crossed, raced>>,
           requestNotices' \subseteq RequestNotice,
           conversationNotices' \subseteq ConversationNotice,
           served' \subseteq Pair, cut' \subseteq SUBSET User, cut \subseteq cut',
           stale' \subseteq stale, stale \subseteq stale' \cup {h},
           ToldOnlyOfUsableConversations',
           \A p \in served' : p \in served \/ DirectBetween(Ends(p)) # {},
           job[h].at \in Linking => \/ DirectBetween(Ends(job[h].row)) # {}
                                   \/ Ends(job[h].row) \in cut'
    PROVE  IInv'
  <1> USE DEF IInv
  <1>0. UNCHANGED <<status, conversations, participants, agreed, crossed, raced>>
    BY DEF tables
  <1>t. TypeOK'
    BY <1>0, ReturnType DEF TypeOK
  <1>e. job'[h] = Idle /\ \A g \in Handler : g # h => job'[g] = job[g]
    BY ReturnEffect
  <1>i. Idle.at = "idle"
    BY DEF Idle
  <1>1. RowsInHand'
    BY <1>0, <1>e DEF RowsInHand
  <1>2. ConversationsInHand'
    BY <1>0, <1>e, <1>i DEF ConversationsInHand, Notifying
  <1>3. ReadsInHand' /\ AskedOneWay'
    BY <1>0, <1>e, <1>i DEF ReadsInHand, AskedOneWay
  <1>4. AgreedRowsExist' /\ ParticipantsAgreed'
          /\ OneRowUnlessCrossed' /\ OneConversationUnlessRaced'
    BY <1>0 DEF AgreedRowsExist, ParticipantsAgreed,
                OneRowUnlessCrossed, OneConversationUnlessRaced, DirectBetween
  <1>5. AgreedHaveConversation'
    <2>1. \A p \in Pair : DirectBetween(Ends(p))' = DirectBetween(Ends(p))
      BY <1>0 DEF DirectBetween
    <2>2. \A p \in Pair : (WorksOn(h, Ends(p)) /\ job[h].at \in Linking) =>
            DirectBetween(Ends(p))' # {} \/ Ends(p) \in cut'
      BY <2>1 DEF WorksOn
    <2>3. \A p \in served' : p \in served \/ DirectBetween(Ends(p))' # {}
      BY <2>1
    <2>4. agreed' \subseteq Pair /\ agreed' = agreed
      BY <1>0 DEF TypeOK
    <2> QED BY <1>e, <2>1, <2>2, <2>3, <2>4, AgreementKept
  <1>6. OpeningInHand'
    <2>1. \A g \in Handler : \A p \in Pair : Opening(g, Ends(p))' => Opening(g, Ends(p))
      BY <1>e DEF Opening, WorksOn
    <2> QED BY <1>0, <2>1 DEF OpeningInHand, DirectBetween
  <1> QED BY <1>t, <1>1, <1>2, <1>3, <1>4, <1>5, <1>6

\* A request writes the status of its row and goes on, or returns.
LEMMA StatusStep ==
    ASSUME IInv, NEW h \in Handler, job[h] \in Job,
           NEW st \in Status \ {"none"},
           WriteStatus(h, st),
           job' \in [Handler -> Job \cup {Idle}],
           \A g \in Handler : g # h => job'[g] = job[g],
           \/ job'[h] = Idle
           \/ /\ job'[h].at \in {"notifyTarget", "findDirect"}
              /\ job'[h].user = job[h].user
              /\ job'[h].row = job[h].row,
           agreed' = IF job'[h].at = "findDirect"
                     THEN agreed \cup {job[h].row} ELSE agreed,
           job[h].at = "create" => status[job[h].row] = "none",
           job[h].at \in {"create", "reopen", "accept", "reject"},
           UNCHANGED <<conversations, participants, notices, served, crossed,
                       raced, cut>>
    PROVE  IInv'
  <1> USE DEF IInv
  <1>0. UNCHANGED <<requestNotices, conversationNotices>>
    BY DEF notices
  <1>r. job[h].row \in Pair /\ job[h] # Idle /\ Idle.at = "idle"
    BY JobInFlight DEF Job
  <1>s. /\ status' = [status EXCEPT ![job[h].row] = st]
        /\ status'[job[h].row] = st
        /\ \A p \in Pair : p # job[h].row => status'[p] = status[p]
    BY <1>r DEF TypeOK, WriteStatus
  <1>o. /\ stale' \subseteq Handler
        /\ \A k \in Handler : (k # h /\ k \notin stale') =>
            /\ k \notin stale
            /\ job[k].at \in {"reopen", "accept", "reject"} => job[k].row # job[h].row
    BY DEF WriteStatus, TypeOK
  <1>t. TypeOK'
    BY <1>0, <1>r, <1>s, <1>o DEF TypeOK
  <1>j. \A g \in Handler : job[g].at # "idle" => job[g].row \in Pair /\ job[g] # Idle
    BY JobInFlight DEF Job
  <1>1. RowsInHand'
    <2> SUFFICES ASSUME NEW k \in Handler, job'[k] # Idle
                 PROVE  /\ job'[k].user \in Ends(job'[k].row)
                        /\ job'[k].at # "create" => status'[job'[k].row] # "none"
                        /\ job'[k].at \in AfterAccept => job'[k].row \in agreed'
      BY DEF RowsInHand
    <2>1. CASE k = h
      BY <1>r, <1>s, <2>1 DEF RowsInHand, AfterAccept
    <2>2. CASE k # h
      <3>1. job'[k] = job[k] /\ job[k].row \in Pair
        BY <2>2, JobInFlight DEF Job
      <3> QED BY <1>s, <3>1 DEF RowsInHand, AfterAccept
    <2> QED BY <2>1, <2>2
  <1>2. ConversationsInHand'
    BY <1>r DEF ConversationsInHand, Notifying
  <1>3. AgreedRowsExist'
    BY <1>r, <1>s DEF AgreedRowsExist, TypeOK
  <1>4. ParticipantsAgreed' /\ ToldOnlyOfUsableConversations'
          /\ OneConversationUnlessRaced'
    BY <1>0 DEF ParticipantsAgreed, ToldOnlyOfUsableConversations,
                OneConversationUnlessRaced, DirectBetween
  <1>5. AgreedHaveConversation'
    <2>1. \A p \in Pair : DirectBetween(Ends(p))' = DirectBetween(Ends(p))
      BY DEF DirectBetween
    <2>2. job[h].at \notin Linking
      BY DEF Linking
    <2>3. \A p \in agreed' : p \in agreed \/ (/\ job'[h] # Idle /\ job'[h].row = p
                                              /\ job'[h].at \in Linking)
      BY <1>r DEF Linking
    <2>4. agreed' \subseteq Pair /\ served' \subseteq Pair
      BY <1>t DEF TypeOK
    <2> QED BY <2>1, <2>2, <2>3, <2>4, AgreementKept
  <1>6. ReadsInHand'
    <2> SUFFICES ASSUME NEW k \in Handler, k \notin stale'
                 PROVE  /\ job'[k].at \in {"accept", "reject"} =>
                            status'[job'[k].row] = "pending"
                        /\ job'[k].at = "reopen" => status'[job'[k].row] = "rejected"
      BY DEF ReadsInHand
    <2>1. CASE k = h
      BY <1>r, <2>1
    <2>2. CASE k # h /\ job[k].at \in {"reopen", "accept", "reject"}
      BY <1>s, <1>o, <1>j, <2>2 DEF ReadsInHand
    <2>3. CASE k # h /\ job[k].at \notin {"reopen", "accept", "reject"}
      BY <2>3
    <2> QED BY <2>1, <2>2, <2>3
  <1>7. AskedOneWay'
    <2> SUFFICES ASSUME NEW k \in Handler, job'[k].at = "create",
                        Ends(job'[k].row) \notin crossed
                 PROVE  /\ status'[Reversed(job'[k].row)] = "none"
                        /\ \A g \in Handler :
                            job'[g].at = "create" => job'[g].row # Reversed(job'[k].row)
      BY DEF AskedOneWay
    <2>1. k # h /\ job'[k] = job[k] /\ job[k].row \in Pair
      BY <1>r, <1>j
    <2>2. /\ status[Reversed(job[k].row)] = "none"
          /\ \A g \in Handler : job[g].at = "create" => job[g].row # Reversed(job[k].row)
      BY <2>1 DEF AskedOneWay
    <2>3. job[h].row # Reversed(job[k].row)
      BY <1>r, <2>2 DEF RowsInHand
    <2>4. status'[Reversed(job[k].row)] = "none"
      BY <1>s, <2>1, <2>2, <2>3, PairFacts
    <2> QED BY <1>r, <2>1, <2>2, <2>4
  <1>8. OneRowUnlessCrossed'
    <2> SUFFICES ASSUME NEW p \in Pair, Ends(p) \notin crossed,
                        status'[p] # "none", status'[Reversed(p)] # "none"
                 PROVE  FALSE
      BY DEF OneRowUnlessCrossed
    <2>1. Reversed(p) \in Pair /\ Ends(Reversed(p)) = Ends(p)
      BY PairFacts
    <2>2. CASE Ends(job[h].row) = Ends(p)
      <3>2. p = job[h].row \/ p = Reversed(job[h].row)
        BY <1>r, <2>2, SameEnds
      <3>3. Reversed(Reversed(job[h].row)) = job[h].row
        BY <1>r, PairFacts DEF Reversed
      <3>4. CASE job[h].at = "create"
        <4>1. status[Reversed(job[h].row)] = "none"
          BY <2>2, <3>4 DEF AskedOneWay
        <4>2. Reversed(job[h].row) \in Pair /\ Reversed(job[h].row) # job[h].row
          BY <1>r, PairFacts
        <4>3. status'[Reversed(job[h].row)] = "none"
          BY <1>s, <4>1, <4>2
        <4> QED BY <3>2, <3>3, <4>3
      <3>5. CASE job[h].at # "create"
        <4>1. status[job[h].row] # "none"
          BY <1>r, <3>5 DEF RowsInHand
        <4>2. status[p] # "none" /\ status[Reversed(p)] # "none"
          BY <1>s, <2>1, <4>1
        <4> QED BY <4>2 DEF OneRowUnlessCrossed
      <3> QED BY <3>4, <3>5
    <2>3. CASE Ends(job[h].row) # Ends(p)
      <3>1. status'[p] = status[p] /\ status'[Reversed(p)] = status[Reversed(p)]
        BY <1>s, <2>1, <2>3
      <3> QED BY <3>1 DEF OneRowUnlessCrossed
    <2> QED BY <2>2, <2>3
  <1>9. OpeningInHand'
    <2>1. \A g \in Handler : \A p \in Pair : Opening(g, Ends(p))' => Opening(g, Ends(p))
      BY <1>r DEF Opening, WorksOn
    <2> QED BY <2>1 DEF OpeningInHand, DirectBetween
  <1> QED BY <1>t, <1>1, <1>2, <1>3, <1>4, <1>5, <1>6, <1>7, <1>8, <1>9

\* The lookup finds the shared conversation, or knows that without a race there is none.
LEMMA FindDirectStep ==
    ASSUME IInv, NEW h \in Handler, FindDirect(h)
    PROVE  IInv'
  <1> USE DEF IInv
  <1>r. job[h] \in Job /\ job[h].row \in Pair /\ job[h].at = "findDirect"
          /\ job[h] # Idle
    BY JobInFlight DEF FindDirect, Job
  <1>0. UNCHANGED <<status, conversations, participants, requestNotices,
                    conversationNotices, agreed, crossed, stale, cut>>
    BY DEF FindDirect, tables, notices
  <1>1. CASE /\ DirectBetween(Ends(job[h].row)) = {}
             /\ raced' = IF \E g \in Handler : Opening(g, Ends(job[h].row))
                         THEN raced \cup {Ends(job[h].row)} ELSE raced
             /\ Goto(h, "createConv")
             /\ UNCHANGED served
    <2>e. /\ job'[h].at = "createConv" /\ job'[h].user = job[h].user
          /\ job'[h].row = job[h].row /\ job'[h] # Idle
          /\ \A g \in Handler : g # h => job'[g] = job[g]
      BY <1>1, <1>r, GotoEffect
    <2>t. TypeOK'
      <3>1. job' \in [Handler -> Job \cup {Idle}]
        BY <1>1, <1>r, GotoType DEF Statement, Publish
      <3>2. raced' \subseteq SUBSET User
        <4>1. Ends(job[h].row) \in SUBSET User /\ raced \subseteq SUBSET User
          BY <1>r, PairFacts DEF TypeOK
        <4>2. raced' \subseteq raced \cup {Ends(job[h].row)}
          BY <1>1
        <4> QED BY <4>1, <4>2
      <3> QED BY <1>0, <1>1, <3>1, <3>2 DEF TypeOK
    <2>1. RowsInHand'
      BY <1>0, <1>r, <2>e DEF RowsInHand, AfterAccept
    <2>2. ConversationsInHand'
      BY <1>0, <1>r, <2>e DEF ConversationsInHand, Notifying
    <2>3. ReadsInHand' /\ AskedOneWay'
      BY <1>0, <1>r, <2>e DEF ReadsInHand, AskedOneWay
    <2>6. AgreedHaveConversation'
      <3>1. \A p \in Pair : DirectBetween(Ends(p))' = DirectBetween(Ends(p))
        BY <1>0 DEF DirectBetween
      <3>2. /\ job'[h].at \in Linking
            /\ \A p \in Pair : WorksOn(h, Ends(p)) => Ends(job'[h].row) = Ends(p)
        BY <2>e DEF Linking, WorksOn
      <3> QED BY <1>0, <1>1, <2>e, <3>1, <3>2, AgreementKept DEF TypeOK
    <2>4. AgreedRowsExist' /\ ParticipantsAgreed' /\ ToldOnlyOfUsableConversations'
            /\ OneRowUnlessCrossed' /\ OneConversationUnlessRaced'
      BY <1>0, <1>1 DEF AgreedRowsExist, ParticipantsAgreed,
              ToldOnlyOfUsableConversations,
              OneRowUnlessCrossed, OneConversationUnlessRaced, DirectBetween
    <2>5. OpeningInHand'
      <3> SUFFICES ASSUME NEW k \in Handler, NEW p \in Pair, Opening(k, Ends(p))',
                          Ends(p) \notin raced'
                   PROVE  /\ \A g \in Handler : Opening(g, Ends(p))' => g = k
                          /\ DirectBetween(Ends(p))' = {}
        BY DEF OpeningInHand
      <3>1. /\ \A g \in Handler : g # h =>
                (Opening(g, Ends(p))' <=> Opening(g, Ends(p)))
            /\ Opening(h, Ends(p))' <=> Ends(p) = Ends(job[h].row)
            /\ ~Opening(h, Ends(p))
        BY <1>r, <2>e DEF Opening, WorksOn
      <3>2. Ends(p) \notin raced /\ (DirectBetween(Ends(p))' = DirectBetween(Ends(p)))
        BY <1>0, <1>1 DEF DirectBetween
      <3>3. CASE k = h
        BY <1>1, <3>1, <3>2, <3>3
      <3>4. CASE k # h
        BY <1>1, <3>1, <3>2, <3>4 DEF OpeningInHand
      <3> QED BY <3>3, <3>4
    <2> QED BY <2>t, <2>1, <2>2, <2>3, <2>4, <2>5, <2>6
  <1>2. CASE /\ DirectBetween(Ends(job[h].row)) # {}
             /\ served' = served \cup {job[h].row}
             /\ Return(h)
             /\ UNCHANGED raced
    <2>1. \A p \in served' : p \in served \/ DirectBetween(Ends(p)) # {}
      BY <1>2
    <2>2. /\ served' \subseteq Pair /\ cut' \subseteq SUBSET User
          /\ requestNotices' \subseteq RequestNotice
          /\ conversationNotices' \subseteq ConversationNotice
          /\ ToldOnlyOfUsableConversations'
      BY <1>0, <1>2, <1>r DEF TypeOK, ToldOnlyOfUsableConversations
    <2> QED BY <1>0, <1>2, <1>r, <2>1, <2>2, ReturnStep DEF tables
  <1> QED BY <1>1, <1>2 DEF FindDirect

\* The new conversation is empty and the request's own.
LEMMA CreateConversationStep ==
    ASSUME IInv, NEW h \in Handler, CreateConversation(h)
    PROVE  IInv'
  <1> USE DEF IInv
  <1>r. job[h] \in Job /\ job[h].row \in Pair /\ job[h].at = "createConv"
          /\ job[h] # Idle
    BY JobInFlight DEF CreateConversation, Job
  <1>0. UNCHANGED <<status, participants, requestNotices, conversationNotices,
                    agreed, served, crossed, stale, raced, cut>>
    BY DEF CreateConversation, notices, history
  <1>c. PICK c \in ConvId \ conversations :
            /\ conversations' = conversations \cup {c}
            /\ job' = [job EXCEPT ![h].at = "addParticipants", ![h].conv = c]
    BY DEF CreateConversation
  <1>n. c \in ConvId /\ c \notin conversations /\ conversations' = conversations \cup {c}
    BY <1>c
  <1>e. /\ job'[h].at = "addParticipants" /\ job'[h].user = job[h].user
        /\ job'[h].row = job[h].row /\ job'[h].conv = c /\ job'[h] # Idle
        /\ job'[h] \in Job
        /\ \A g \in Handler : g # h => job'[g] = job[g]
    BY <1>c, <1>r DEF TypeOK, Job, Idle, Statement
  <1>t. TypeOK'
    <2>1. job' \in [Handler -> Job \cup {Idle}]
      BY <1>c, <1>e DEF TypeOK
    <2> QED BY <1>0, <1>c, <2>1 DEF TypeOK
  <1>f. participants[c] = {}
    BY <1>c DEF ConversationsInHand
  <1>d. \A p \in Pair : DirectBetween(Ends(p))' = DirectBetween(Ends(p))
    <2> SUFFICES ASSUME NEW p \in Pair
                 PROVE  DirectBetween(Ends(p))' = DirectBetween(Ends(p))
      OBVIOUS
    <2>1. ~(Ends(p) \subseteq participants[c])
      BY <1>f, PairFacts
    <2> QED BY <1>0, <1>c, <2>1 DEF DirectBetween
  <1>1. RowsInHand'
    BY <1>0, <1>r, <1>e DEF RowsInHand, AfterAccept
  <1>2. ConversationsInHand'
    <2>1. \A g \in Handler : job'[g].at = "addParticipants" =>
            /\ job'[g].conv \in conversations'
            /\ participants[job'[g].conv] = {}
      BY <1>n, <1>e, <1>f DEF ConversationsInHand
    <2>2. \A g \in Handler : job'[g].at \in Notifying =>
            /\ job'[g].conv \in conversations'
            /\ participants[job'[g].conv] = Ends(job'[g].row)
      BY <1>n, <1>e DEF ConversationsInHand, Notifying
    <2>3. \A g, k \in Handler :
            (/\ job'[g].at = "addParticipants"
             /\ job'[k].at = "addParticipants"
             /\ job'[g].conv = job'[k].conv) => g = k
      BY <1>n, <1>e DEF ConversationsInHand
    <2>4. \A d \in ConvId \ conversations' : participants[d] = {}
      BY <1>n DEF ConversationsInHand
    <2> QED BY <1>0, <2>1, <2>2, <2>3, <2>4 DEF ConversationsInHand
  <1>3. ReadsInHand' /\ AskedOneWay'
    BY <1>0, <1>r, <1>e DEF ReadsInHand, AskedOneWay
  <1>4. AgreedRowsExist' /\ OneRowUnlessCrossed'
    BY <1>0 DEF AgreedRowsExist, OneRowUnlessCrossed
  <1>5. ParticipantsAgreed' /\ ToldOnlyOfUsableConversations'
    BY <1>0, <1>c, <1>f DEF ParticipantsAgreed, ToldOnlyOfUsableConversations
  <1>6. OneConversationUnlessRaced'
    BY <1>0, <1>d DEF OneConversationUnlessRaced
  <1>8. AgreedHaveConversation'
    <2>1. /\ job'[h].at \in Linking
          /\ \A p \in Pair : WorksOn(h, Ends(p)) => Ends(job'[h].row) = Ends(p)
      BY <1>e DEF Linking, WorksOn
    <2> QED BY <1>0, <1>d, <1>e, <2>1, AgreementKept DEF TypeOK
  <1>7. OpeningInHand'
    <2>1. \A g \in Handler : \A p \in Pair : Opening(g, Ends(p))' <=> Opening(g, Ends(p))
      BY <1>r, <1>e DEF Opening, WorksOn
    <2> QED BY <1>0, <1>d, <2>1 DEF OpeningInHand
  <1> QED BY <1>t, <1>1, <1>2, <1>3, <1>4, <1>5, <1>6, <1>7, <1>8

\* The two users of an agreed row become participants together.
LEMMA AddParticipantsStep ==
    ASSUME IInv, NEW h \in Handler, AddParticipants(h)
    PROVE  IInv'
  <1> USE DEF IInv
  <1> DEFINE c == job[h].conv
             mine == Ends(job[h].row)
  <1>r. job[h] \in Job /\ job[h].row \in Pair /\ job[h].at = "addParticipants"
          /\ job[h] # Idle
    BY JobInFlight DEF AddParticipants, Job
  <1>0. UNCHANGED <<status, conversations, requestNotices, conversationNotices,
                    agreed, served, crossed, stale, raced, cut>>
    BY DEF AddParticipants, notices, history
  <1>h. c \in conversations /\ c \in ConvId /\ participants[c] = {}
          /\ job[h].row \in agreed
    BY <1>r DEF ConversationsInHand, RowsInHand, AfterAccept, TypeOK
  <1>p. /\ participants'[c] = mine
        /\ \A d \in ConvId : d # c => participants'[d] = participants[d]
    BY <1>h DEF AddParticipants, TypeOK
  <1>e. /\ job'[h].at = "notifyRequester" /\ job'[h].user = job[h].user
        /\ job'[h].row = job[h].row /\ job'[h].conv = c /\ job'[h] # Idle
        /\ \A g \in Handler : g # h => job'[g] = job[g]
    BY <1>r, GotoEffect DEF AddParticipants
  <1>t. TypeOK'
    <2>1. job' \in [Handler -> Job \cup {Idle}]
      BY <1>r, GotoType DEF AddParticipants, Statement, Publish
    <2>2. participants' \in [ConvId -> SUBSET User]
      BY <1>r, PairFacts DEF AddParticipants, TypeOK
    <2> QED BY <1>0, <2>1, <2>2 DEF TypeOK
  <1>d. \A p \in Pair : DirectBetween(Ends(p))' =
            IF Ends(p) = mine THEN DirectBetween(Ends(p)) \cup {c}
                              ELSE DirectBetween(Ends(p))
    <2> SUFFICES ASSUME NEW p \in Pair
                 PROVE  DirectBetween(Ends(p))' =
                            IF Ends(p) = mine THEN DirectBetween(Ends(p)) \cup {c}
                                              ELSE DirectBetween(Ends(p))
      OBVIOUS
    <2>1. c \notin DirectBetween(Ends(p))
      BY <1>h, PairFacts DEF DirectBetween
    <2>2. Ends(p) \subseteq mine <=> Ends(p) = mine
      BY <1>r, SameEnds
    <2>3. \A d \in conversations : d # c =>
            (d \in DirectBetween(Ends(p))' <=> d \in DirectBetween(Ends(p)))
      BY <1>0, <1>p DEF DirectBetween, TypeOK
    <2>4. c \in DirectBetween(Ends(p))' <=> Ends(p) = mine
      BY <1>0, <1>h, <1>p, <2>2 DEF DirectBetween
    <2>5. DirectBetween(Ends(p))' \subseteq conversations
            /\ DirectBetween(Ends(p)) \subseteq conversations
      BY <1>0 DEF DirectBetween
    <2> QED BY <1>h, <2>1, <2>3, <2>4, <2>5
  <1>1. RowsInHand'
    BY <1>0, <1>r, <1>e DEF RowsInHand, AfterAccept
  <1>2. ConversationsInHand'
    <2>1. \A g \in Handler : job'[g].at = "addParticipants" =>
            /\ job'[g].conv \in conversations
            /\ participants'[job'[g].conv] = {}
      BY <1>r, <1>h, <1>p, <1>e DEF ConversationsInHand, TypeOK
    <2>2. \A g \in Handler : job'[g].at \in Notifying =>
            /\ job'[g].conv \in conversations
            /\ participants'[job'[g].conv] = Ends(job'[g].row)
      <3> SUFFICES ASSUME NEW g \in Handler, job'[g].at \in Notifying
                   PROVE  /\ job'[g].conv \in conversations
                          /\ participants'[job'[g].conv] = Ends(job'[g].row)
        OBVIOUS
      <3>1. CASE g = h
        BY <1>h, <1>p, <1>e, <3>1
      <3>2. CASE g # h
        <4>1. job'[g] = job[g] /\ job[g] \in Job
          BY <1>e, <3>2, JobInFlight DEF Notifying
        <4>2. /\ job[g].conv \in conversations
              /\ participants[job[g].conv] = Ends(job[g].row)
          BY <4>1 DEF ConversationsInHand
        <4>3. job[g].conv # c
          BY <1>h, <4>1, <4>2, PairFacts DEF Job
        <4> QED BY <1>p, <4>1, <4>2, <4>3 DEF TypeOK
      <3> QED BY <3>1, <3>2
    <2>3. \A d \in ConvId \ conversations : participants'[d] = {}
      BY <1>h, <1>p DEF ConversationsInHand
    <2> QED BY <1>0, <1>e, <2>1, <2>2, <2>3 DEF ConversationsInHand
  <1>3. ReadsInHand' /\ AskedOneWay'
    BY <1>0, <1>r, <1>e DEF ReadsInHand, AskedOneWay
  <1>4. AgreedRowsExist' /\ OneRowUnlessCrossed'
    BY <1>0 DEF AgreedRowsExist, OneRowUnlessCrossed
  <1>5. ParticipantsAgreed'
    BY <1>0, <1>h, <1>p DEF ParticipantsAgreed, TypeOK
  <1>6. ToldOnlyOfUsableConversations'
    BY <1>0, <1>h, <1>p DEF ToldOnlyOfUsableConversations, TypeOK, ConversationNotice
  <1>7. AgreedHaveConversation'
    <2>1. \A p \in Pair : WorksOn(h, Ends(p)) => DirectBetween(Ends(p))' # {}
      BY <1>d DEF WorksOn
    <2>2. \A p \in Pair : DirectBetween(Ends(p)) # {} => DirectBetween(Ends(p))' # {}
      BY <1>d
    <2> QED BY <1>0, <1>e, <2>1, <2>2, AgreementKept DEF TypeOK
  <1>8. OneConversationUnlessRaced'
    <2> SUFFICES ASSUME NEW p \in Pair, Ends(p) \notin raced
                 PROVE  \A d1, d2 \in DirectBetween(Ends(p))' : d1 = d2
      BY <1>0 DEF OneConversationUnlessRaced
    <2>1. CASE Ends(p) = mine
      <3>1. DirectBetween(mine) = {}
        BY <1>r, <2>1 DEF OpeningInHand, Opening, WorksOn
      <3> QED BY <1>d, <2>1, <3>1
    <2>2. CASE Ends(p) # mine
      BY <1>d, <2>2 DEF OneConversationUnlessRaced
    <2> QED BY <2>1, <2>2
  <1>9. OpeningInHand'
    <2> SUFFICES ASSUME NEW k \in Handler, NEW p \in Pair, Opening(k, Ends(p))',
                        Ends(p) \notin raced
                 PROVE  /\ \A g \in Handler : Opening(g, Ends(p))' => g = k
                        /\ DirectBetween(Ends(p))' = {}
      BY <1>0 DEF OpeningInHand
    <2>1. /\ \A g \in Handler : Opening(g, Ends(p))' => Opening(g, Ends(p)) /\ g # h
          /\ Opening(h, mine)
      BY <1>r, <1>e DEF Opening, WorksOn
    <2>2. \A g \in Handler : Opening(g, Ends(p)) => g = k
      BY <2>1 DEF OpeningInHand
    <2>3. DirectBetween(Ends(p)) = {}
      BY <2>1 DEF OpeningInHand
    <2>4. Ends(p) # mine
      BY <2>1, <2>2
    <2>5. DirectBetween(Ends(p))' = {}
      BY <1>d, <2>3, <2>4
    <2> QED BY <2>1, <2>2, <2>5
  <1> QED BY <1>t, <1>1, <1>2, <1>3, <1>4, <1>5, <1>6, <1>7, <1>8, <1>9

\* An event about the conversation in hand is true when it is published.
LEMMA PublishTellsTruth ==
    ASSUME IInv, NEW h \in Handler, job[h] \in Job, job[h].at \in Notifying,
           NEW to, NEW peer, {to, peer} = Ends(job[h].row),
           UNCHANGED tables,
           PublishConversationCreated(h, to, peer)
    PROVE  /\ conversationNotices' \subseteq ConversationNotice
           /\ ToldOnlyOfUsableConversations'
  <1> USE DEF IInv
  <1>0. UNCHANGED <<status, conversations, participants>>
    BY DEF tables
  <1>1. /\ job[h].conv \in conversations
        /\ participants[job[h].conv] = {to, peer}
    BY DEF ConversationsInHand
  <1>2. to \in User /\ peer \in User /\ job[h].conv \in ConvId
    BY <1>1, PairFacts DEF TypeOK, Job
  <1>3. conversationNotices' \subseteq ConversationNotice
    BY <1>2 DEF PublishConversationCreated, TypeOK, ConversationNotice
  <1>4. ToldOnlyOfUsableConversations'
    BY <1>0, <1>1 DEF PublishConversationCreated, ToldOnlyOfUsableConversations
  <1> QED BY <1>3, <1>4

\* The requester is told of a conversation of the two.
LEMMA NotifyRequesterStep ==
    ASSUME IInv, NEW h \in Handler, NotifyRequester(h)
    PROVE  IInv'
  <1> USE DEF IInv
  <1>r. job[h] \in Job /\ job[h].row \in Pair /\ job[h].at = "notifyRequester"
          /\ job[h] # Idle
    BY JobInFlight DEF NotifyRequester, Job
  <1>0. UNCHANGED <<status, conversations, participants, requestNotices,
                    agreed, served, crossed, stale, raced, cut>>
    BY DEF NotifyRequester, tables, history
  <1>e. /\ job'[h].at = "notifyReceiver" /\ job'[h].user = job[h].user
        /\ job'[h].row = job[h].row /\ job'[h].conv = job[h].conv /\ job'[h] # Idle
        /\ \A g \in Handler : g # h => job'[g] = job[g]
    BY <1>r, GotoEffect DEF NotifyRequester
  <1>n. /\ conversationNotices' \subseteq ConversationNotice
        /\ ToldOnlyOfUsableConversations'
    BY <1>r, <1>0, PublishTellsTruth, PairFacts
       DEF NotifyRequester, Notifying, Requester, Receiver, Ends, tables
  <1>t. TypeOK'
    <2>1. job' \in [Handler -> Job \cup {Idle}]
      BY <1>r, GotoType DEF NotifyRequester, Statement, Publish
    <2> QED BY <1>0, <1>n, <2>1 DEF TypeOK
  <1>1. RowsInHand'
    BY <1>0, <1>r, <1>e DEF RowsInHand, AfterAccept
  <1>2. ConversationsInHand'
    BY <1>0, <1>r, <1>e DEF ConversationsInHand, Notifying
  <1>3. ReadsInHand' /\ AskedOneWay'
    BY <1>0, <1>r, <1>e DEF ReadsInHand, AskedOneWay
  <1>4. AgreedRowsExist' /\ ParticipantsAgreed'
          /\ OneRowUnlessCrossed' /\ OneConversationUnlessRaced'
    BY <1>0 DEF AgreedRowsExist, ParticipantsAgreed,
                OneRowUnlessCrossed, OneConversationUnlessRaced, DirectBetween
  <1>6. AgreedHaveConversation'
    <2>1. \A p \in Pair : DirectBetween(Ends(p))' = DirectBetween(Ends(p))
      BY <1>0 DEF DirectBetween
    <2>2. job[h].at \notin Linking
      BY <1>r DEF Linking
    <2> QED BY <1>0, <1>e, <2>1, <2>2, AgreementKept DEF TypeOK
  <1>5. OpeningInHand'
    <2>1. \A g \in Handler : \A p \in Pair : Opening(g, Ends(p))' => Opening(g, Ends(p))
      BY <1>r, <1>e DEF Opening, WorksOn
    <2> QED BY <1>0, <2>1 DEF OpeningInHand, DirectBetween
  <1> QED BY <1>t, <1>n, <1>1, <1>2, <1>3, <1>4, <1>5, <1>6

\* The receiver is told, and the request returns.
LEMMA NotifyReceiverStep ==
    ASSUME IInv, NEW h \in Handler, NotifyReceiver(h)
    PROVE  IInv'
  <1> USE DEF IInv
  <1>r. job[h] \in Job /\ job[h].row \in Pair /\ job[h].at = "notifyReceiver"
    BY JobInFlight DEF NotifyReceiver, Job
  <1>0. /\ UNCHANGED <<tables, requestNotices, agreed, crossed, stale, raced, cut>>
        /\ Return(h)
        /\ served' = served \cup {job[h].row}
    BY DEF NotifyReceiver
  <1>1. /\ conversationNotices' \subseteq ConversationNotice
        /\ ToldOnlyOfUsableConversations'
    BY <1>r, <1>0, PublishTellsTruth, PairFacts
       DEF NotifyReceiver, Notifying, Requester, Receiver, Ends
  <1>2. \A p \in served' : p \in served \/ DirectBetween(Ends(p)) # {}
    <2>1. job[h].conv \in DirectBetween(Ends(job[h].row))
      BY <1>r DEF ConversationsInHand, Notifying, DirectBetween
    <2> QED BY <1>0, <2>1
  <1>3. /\ served' \subseteq Pair /\ requestNotices' \subseteq RequestNotice
        /\ cut' \subseteq SUBSET User
    BY <1>r, <1>0 DEF TypeOK
  <1>4. job[h].at \notin Linking
    BY <1>r DEF Linking
  <1> QED BY <1>r, <1>0, <1>1, <1>2, <1>3, <1>4, ReturnStep

\* The two ways out that write nothing else: the target of a friend request
\* is notified, or a statement fails.
LEMMA LeaveStep ==
    ASSUME IInv, NEW h \in Handler, NotifyTarget(h) \/ StatementFails(h)
    PROVE  IInv'
  <1> USE DEF IInv
  <1>r. job[h] \in Job /\ job[h].row \in Pair /\ job[h].user \in Ends(job[h].row)
    BY JobInFlight DEF NotifyTarget, StatementFails, Statement, Job, RowsInHand
  <1>0. UNCHANGED <<tables, conversationNotices, agreed, served, crossed, raced>>
          /\ Return(h)
    BY DEF NotifyTarget, StatementFails, notices, history
  <1>1. requestNotices' \subseteq RequestNotice
    <2>1. CASE NotifyTarget(h)
      <3>1. Target(h) \in User
        BY <1>r, PairFacts DEF Target, Ends
      <3> QED BY <1>r, <2>1, <3>1 DEF NotifyTarget, RequestNotice, TypeOK
    <2>2. CASE StatementFails(h)
      BY <2>2 DEF StatementFails, notices, TypeOK
    <2> QED BY <2>1, <2>2
  <1>2. ToldOnlyOfUsableConversations'
    BY <1>0 DEF ToldOnlyOfUsableConversations, tables
  <1>3. /\ stale' \subseteq stale /\ stale \subseteq stale' \cup {h}
        /\ cut \subseteq cut' /\ cut' \subseteq SUBSET User
        /\ job[h].at \in Linking => Ends(job[h].row) \in cut'
    <2>1. CASE NotifyTarget(h)
      BY <2>1 DEF NotifyTarget, history, Linking, TypeOK
    <2>2. CASE StatementFails(h)
      BY <1>r, <2>2, PairFacts DEF StatementFails, TypeOK
    <2> QED BY <2>1, <2>2
  <1> QED BY <1>r, <1>0, <1>1, <1>2, <1>3, ReturnStep DEF TypeOK

\* Reading the row, and refusing unless it is as the handler wants it.
LEMMA StartStep ==
    ASSUME IInv, NEW h \in Handler, Start(h)
    PROVE  IInv'
  <1>1. ASSUME NEW u \in User, NEW v \in User, RequestFriend(h, u, v)
        PROVE  IInv'
    <2>0. UNCHANGED <<tables, notices, agreed, served, raced>> /\ u # v
      BY <1>1 DEF RequestFriend
    <2>1. CASE RowsBetween({u, v}) = {} /\ Begin(h, "create", u, <<u, v>>)
      <3> DEFINE r == <<u, v>>
      <3>1. r \in Pair /\ u \in Ends(r) /\ Ends(r) = {u, v}
        BY <2>0 DEF Pair, Ends
      <3>2. Reversed(r) \in Pair /\ Ends(Reversed(r)) = {u, v}
        BY <3>1, PairFacts
      <3>3. status[r] = "none" /\ status[Reversed(r)] = "none"
        BY <2>1, <3>1, <3>2 DEF RowsBetween
      <3>4. Begin(h, "create", u, r)
        BY <2>1
      <3> HIDE DEF r
      <3> QED BY <2>0, <3>1, <3>3, <3>4, BeginStep
    <2>2. CASE \E r \in RowsBetween({u, v}) :
                    status[r] = "rejected" /\ Begin(h, "reopen", u, r)
      <3>1. PICK r \in RowsBetween({u, v}) :
                    status[r] = "rejected" /\ Begin(h, "reopen", u, r)
        BY <2>2
      <3>2. r \in Pair /\ u \in Ends(r)
        BY <3>1 DEF RowsBetween
      <3> QED BY <2>0, <3>1, <3>2, BeginStep
    <2> QED BY <1>1, <2>1, <2>2 DEF RequestFriend
  <1>2. ASSUME NEW u \in User, NEW r \in Pair, AcceptFriendRequest(h, u, r)
        PROVE  IInv'
    BY <1>2, BeginStep DEF AcceptFriendRequest, Receiver, Ends
  <1>3. ASSUME NEW u \in User, NEW r \in Pair, RejectFriendRequest(h, u, r)
        PROVE  IInv'
    BY <1>3, BeginStep DEF RejectFriendRequest, Receiver, Ends
  <1> QED BY <1>1, <1>2, <1>3 DEF Start

\* Writing the status of the row, whatever it has become.
LEMMA WriteStep ==
    ASSUME IInv, NEW h \in Handler,
           \/ CreateFriendship(h) \/ ReopenFriendship(h)
           \/ WriteAccepted(h) \/ WriteRejected(h)
    PROVE  IInv'
  <1>t. TypeOK
    BY DEF IInv
  <1>1. CASE CreateFriendship(h) \/ ReopenFriendship(h)
    <2>1. job[h] \in Job /\ job[h].at \in {"create", "reopen"}
            /\ Goto(h, "notifyTarget")
            /\ (job[h].at = "create" => status[job[h].row] = "none")
            /\ WriteStatus(h, "pending")
            /\ UNCHANGED <<conversations, participants, notices, agreed, served,
                           crossed, raced, cut>>
      BY <1>1, <1>t, JobInFlight DEF CreateFriendship, ReopenFriendship
    <2>2. job' \in [Handler -> Job \cup {Idle}]
      BY <1>t, <2>1, GotoType DEF Statement, Publish
    <2>3. /\ job'[h].at = "notifyTarget" /\ job'[h].user = job[h].user
          /\ job'[h].row = job[h].row
          /\ \A g \in Handler : g # h => job'[g] = job[g]
      BY <1>t, <2>1, GotoEffect
    <2> QED BY <2>1, <2>2, <2>3, StatusStep DEF Status
  <1>2. CASE WriteAccepted(h)
    <2>1. job[h] \in Job /\ job[h].at = "accept" /\ Goto(h, "findDirect")
            /\ agreed' = agreed \cup {job[h].row}
            /\ WriteStatus(h, "accepted")
            /\ UNCHANGED <<conversations, participants, notices, served, crossed,
                           raced, cut>>
      BY <1>2, <1>t, JobInFlight DEF WriteAccepted
    <2>2. job' \in [Handler -> Job \cup {Idle}]
      BY <1>t, <2>1, GotoType DEF Statement, Publish
    <2>3. /\ job'[h].at = "findDirect" /\ job'[h].user = job[h].user
          /\ job'[h].row = job[h].row
          /\ \A g \in Handler : g # h => job'[g] = job[g]
      BY <1>t, <2>1, GotoEffect
    <2> QED BY <2>1, <2>2, <2>3, StatusStep DEF Status
  <1>3. CASE WriteRejected(h)
    <2>1. job[h] \in Job /\ job[h].at = "reject" /\ Return(h)
            /\ WriteStatus(h, "rejected")
            /\ UNCHANGED <<conversations, participants, notices, agreed, served,
                           crossed, raced, cut>>
      BY <1>3, <1>t, JobInFlight DEF WriteRejected
    <2>2. job' \in [Handler -> Job \cup {Idle}] /\ job'[h] = Idle
            /\ \A g \in Handler : g # h => job'[g] = job[g]
      BY <1>t, <2>1, ReturnType, ReturnEffect
    <2>3. Idle.at = "idle"
      BY DEF Idle
    <2> QED BY <2>1, <2>2, <2>3, StatusStep DEF Status
  <1> QED BY <1>1, <1>2, <1>3

\* Empty tables and no request.
LEMMA InitEstablishes == Init => IInv
  <1> SUFFICES ASSUME Init PROVE IInv
    OBVIOUS
  <1>i. \A h \in Handler : job[h] = Idle /\ job[h].at = "idle"
    BY DEF Init, Idle
  <1>1. TypeOK
    BY DEF Init, TypeOK, Status
  <1>2. RowsInHand /\ ConversationsInHand /\ ReadsInHand /\ AskedOneWay
          /\ OpeningInHand
    BY <1>i DEF Init, RowsInHand, ConversationsInHand, ReadsInHand, AskedOneWay,
                OpeningInHand, Opening, WorksOn, Notifying
  <1>3. AgreedRowsExist /\ ParticipantsAgreed /\ ToldOnlyOfUsableConversations
          /\ AgreedHaveConversation
    BY DEF Init, AgreedRowsExist, ParticipantsAgreed, ToldOnlyOfUsableConversations,
           AgreedHaveConversation
  <1>4. OneRowUnlessCrossed /\ OneConversationUnlessRaced
    BY PairFacts DEF Init, OneRowUnlessCrossed, OneConversationUnlessRaced,
                     DirectBetween
  <1> QED BY <1>1, <1>2, <1>3, <1>4 DEF IInv

\* Every step keeps the invariant.
LEMMA NextPreserves == IInv /\ [Next]_vars => IInv'
  <1> SUFFICES ASSUME IInv, [Next]_vars PROVE IInv'
    OBVIOUS
  <1>1. ASSUME NEW h \in Handler, Start(h) PROVE IInv'
    BY <1>1, StartStep
  <1>2. ASSUME NEW h \in Handler, Continue(h) PROVE IInv'
    <2>1. CASE \/ CreateFriendship(h) \/ ReopenFriendship(h)
               \/ WriteAccepted(h) \/ WriteRejected(h)
      BY <2>1, WriteStep
    <2>2. CASE NotifyTarget(h) \/ StatementFails(h)
      BY <2>2, LeaveStep
    <2>3. CASE FindDirect(h)
      BY <2>3, FindDirectStep
    <2>4. CASE CreateConversation(h)
      BY <2>4, CreateConversationStep
    <2>5. CASE AddParticipants(h)
      BY <2>5, AddParticipantsStep
    <2>6. CASE NotifyRequester(h)
      BY <2>6, NotifyRequesterStep
    <2>7. CASE NotifyReceiver(h)
      BY <2>7, NotifyReceiverStep
    <2> QED BY <1>2, <2>1, <2>2, <2>3, <2>4, <2>5, <2>6, <2>7 DEF Continue
  <1>3. CASE UNCHANGED vars
    BY <1>3 DEF vars, tables, notices, history, IInv, TypeOK, RowsInHand,
            ConversationsInHand, AgreedRowsExist, ParticipantsAgreed,
            ToldOnlyOfUsableConversations, AgreedHaveConversation,
            ReadsInHand, AskedOneWay, OpeningInHand, Opening,
            WorksOn, DirectBetween,
            OneRowUnlessCrossed, OneConversationUnlessRaced
  <1> QED BY <1>1, <1>2, <1>3 DEF Next

(***************************************************************************)
(* The theorems                                                            *)
(***************************************************************************)

\* In every reachable state the requests in flight and the tables agree as
\* IInv says.
THEOREM Invariance == Spec => []IInv
  BY InitEstablishes, NextPreserves, PTL DEF Spec

\* Every variable keeps its type.
THEOREM TypeCorrect == Spec => []TypeOK
  <1>1. IInv => TypeOK
    BY DEF IInv
  <1> QED BY <1>1, Invariance, PTL

\* conversation_created names a conversation its addressee and the peer share.
THEOREM NoticesAreTrue == Spec => []ToldOnlyOfUsableConversations
  <1>1. IInv => ToldOnlyOfUsableConversations
    BY DEF IInv
  <1> QED BY <1>1, Invariance, PTL

\* Two users of whom one agreed share a conversation unless one is on its way
\* or a failure cut it off, and after 200 OK in any case.
THEOREM AgreementIsKept == Spec => []AgreedHaveConversation
  <1>1. IInv => AgreedHaveConversation
    BY DEF IInv
  <1> QED BY <1>1, Invariance, PTL

\* Whoever participates in a direct conversation is one of two users that
\* agreed to it.
THEOREM ConversationsAreAgreed == Spec => []ParticipantsAgreed
  <1>1. IInv => ParticipantsAgreed
    BY DEF IInv
  <1> QED BY <1>1, Invariance, PTL

\* Two users have one row between them unless they asked each other at once.
THEOREM RowsAreUnique == Spec => []OneRowUnlessCrossed
  <1>1. IInv => OneRowUnlessCrossed
    BY DEF IInv
  <1> QED BY <1>1, Invariance, PTL

\* Two users for whom no two accepts opened a conversation at once have at
\* most one conversation.
THEOREM ConversationsAreUnique == Spec => []OneConversationUnlessRaced
  <1>1. IInv => OneConversationUnlessRaced
    BY DEF IInv
  <1> QED BY <1>1, Invariance, PTL

\* A status leaves the lifecycle only by the write of a request whose row was
\* written by another since it read it.
THEOREM LifecycleIsFollowed == Spec => FreshWritesFollowLifecycle
  <1>1. IInv /\ [Next]_vars =>
          [\A p \in Pair :
              (/\ status'[p] # status[p]
               /\ \A h \in stale : job[h].row = p => job'[h] = job[h])
                  => <<status[p], status'[p]>> \in Lifecycle]_vars
    <2> SUFFICES ASSUME IInv, Next, NEW p \in Pair, status'[p] # status[p],
                        \A h \in stale : job[h].row = p => job'[h] = job[h]
                 PROVE  <<status[p], status'[p]>> \in Lifecycle
      OBVIOUS
    <2>1. PICK h \in Handler : \/ CreateFriendship(h) \/ ReopenFriendship(h)
                               \/ WriteAccepted(h) \/ WriteRejected(h)
      <3>1. PICK h \in Handler : Start(h) \/ Continue(h)
        BY DEF Next
      <3>2. ~Start(h)
        BY DEF Start, RequestFriend, AcceptFriendRequest, RejectFriendRequest, tables
      <3>3. ~(\/ NotifyTarget(h) \/ FindDirect(h) \/ CreateConversation(h)
              \/ AddParticipants(h) \/ NotifyRequester(h) \/ NotifyReceiver(h)
              \/ StatementFails(h))
        BY DEF NotifyTarget, FindDirect, CreateConversation, AddParticipants,
               NotifyRequester, NotifyReceiver, StatementFails, tables
      <3> QED BY <3>1, <3>2, <3>3 DEF Continue
    <2>2. /\ job[h] \in Job /\ TypeOK /\ status \in [Pair -> Status]
          /\ job[h].at \in {"create", "reopen", "accept", "reject"}
      BY <2>1, JobInFlight DEF CreateFriendship, ReopenFriendship, WriteAccepted,
                  WriteRejected, IInv, TypeOK
    <2>3. p = job[h].row
      BY <2>1, <2>2 DEF CreateFriendship, ReopenFriendship, WriteAccepted, WriteRejected,
                  WriteStatus
    <2>4. job'[h] # job[h]
      <3>1. CASE CreateFriendship(h) \/ ReopenFriendship(h) \/ WriteAccepted(h)
        <4>1. job'[h].at \in {"notifyTarget", "findDirect"}
          BY <2>2, <3>1, GotoEffect DEF CreateFriendship, ReopenFriendship, WriteAccepted
        <4> QED BY <2>2, <4>1
      <3>2. CASE WriteRejected(h)
        BY <2>2, <3>2, ReturnEffect, JobInFlight DEF WriteRejected
      <3> QED BY <2>1, <3>1, <3>2
    <2>5. h \notin stale
      BY <2>3, <2>4
    <2>6. /\ job[h].at \in {"accept", "reject"} => status[job[h].row] = "pending"
          /\ job[h].at = "reopen" => status[job[h].row] = "rejected"
      BY <2>5 DEF IInv, ReadsInHand
    <2> QED BY <2>1, <2>2, <2>3, <2>6
            DEF CreateFriendship, ReopenFriendship, WriteAccepted, WriteRejected,
                WriteStatus, Lifecycle
  <1> QED BY <1>1, Invariance, PTL DEF Spec, FreshWritesFollowLifecycle

(***************************************************************************)
(* Refinement of Consent                                                   *)
(***************************************************************************)
Asked == {p \in Pair : status[p] # "none"}
Linked == {participants[c] : c \in conversations} \ {{}}
Told == {<<n.to, {n.to, n.peer}>> : n \in conversationNotices}

\* Consent speaks of the same rows.
LEMMA SamePairs ==
    Promise!Pair = Pair /\ \A p \in Pair : Promise!Ends(p) = Ends(p)
  BY DEF Promise!Pair, Pair, Promise!Ends, Ends

\* A step of Consent about a row is a step of Consent.
LEMMA RowStep ==
    ASSUME NEW p \in Pair, Promise!Ask(p) \/ Promise!Agree(p) \/ Promise!Link(p)
    PROVE  Promise!Next
  <1>1. p \in Promise!Pair
    BY SamePairs
  <1> QED BY <1>1, Zenon DEF Promise!Next

\* A publish about the conversation in hand tells its addressee of a link.
LEMMA TellMaps ==
    ASSUME IInv, IInv', NEW h \in Handler, job[h] \in Job, job[h].at \in Notifying,
           NEW to \in User, NEW peer \in User, {to, peer} = Ends(job[h].row),
           UNCHANGED <<tables, agreed>>,
           PublishConversationCreated(h, to, peer)
    PROVE  Promise!Next \/ UNCHANGED <<Asked, agreed, Linked, Told>>
  <1>1. UNCHANGED <<Asked, agreed, Linked>>
    BY DEF tables, Asked, Linked
  <1>2. CASE UNCHANGED conversationNotices
    BY <1>1, <1>2 DEF Told
  <1>3. CASE conversationNotices' = conversationNotices \cup
                {[to |-> to, conv |-> job[h].conv, peer |-> peer]}
    <2> DEFINE m == [to |-> to, conv |-> job[h].conv, peer |-> peer]
    <2>0. m.to = to /\ m.peer = peer /\ conversationNotices' = conversationNotices \cup {m}
      BY <1>3
    <2> HIDE DEF m
    <2>1. Told' = Told \cup {<<to, {to, peer}>>}
      BY <2>0 DEF Told
    <2>2. {to, peer} \in Linked
      BY PairFacts DEF Linked, IInv, ConversationsInHand
    <2>3. Promise!Tell(to, {to, peer})
      BY <1>1, <2>1, <2>2 DEF Promise!Tell, Asked, Linked, Told
    <2> QED BY <2>2, <2>3 DEF Promise!Next, Linked
  <1> QED BY <1>2, <1>3 DEF PublishConversationCreated

\* Every step is a step of Consent or none.
LEMMA StepMaps ==
    ASSUME IInv, IInv', [Next]_vars
    PROVE  Promise!Next \/ UNCHANGED <<Asked, agreed, Linked, Told>>
  <1>1. CASE UNCHANGED vars
    BY <1>1 DEF vars, tables, notices, history, Asked, Linked, Told
  <1>2. ASSUME NEW h \in Handler, Start(h)
        PROVE  UNCHANGED <<Asked, agreed, Linked, Told>>
    BY <1>2 DEF Start, RequestFriend, AcceptFriendRequest, RejectFriendRequest,
            tables, notices, Asked, Linked, Told
  <1>3. ASSUME NEW h \in Handler, Continue(h)
        PROVE  Promise!Next \/ UNCHANGED <<Asked, agreed, Linked, Told>>
    <2>t. TypeOK
      BY DEF IInv
    <2>j. job[h].at # "idle" =>
            /\ job[h] \in Job /\ job[h].row \in Pair
            /\ job[h].at # "create" => status[job[h].row] # "none"
      BY <2>t, JobInFlight DEF IInv, RowsInHand, Job
    <2>1. CASE CreateFriendship(h)
      <3>1. job[h].row \in Pair /\ UNCHANGED <<agreed, Linked, Told>>
        BY <2>1, <2>j DEF CreateFriendship, notices, Linked, Told
      <3>2. Asked' = Asked \cup {job[h].row}
        BY <2>1, <3>1 DEF CreateFriendship, WriteStatus, Asked, IInv, TypeOK
      <3>7. PICK p \in Pair : p = job[h].row
        BY <3>1, <3>2
      <3>8. Promise!Ask(p)
        BY <3>1, <3>2, <3>7 DEF Promise!Ask, Asked, Linked, Told
      <3> QED BY <3>8, RowStep
    <2>2. CASE ReopenFriendship(h) \/ WriteRejected(h)
      <3>1. job[h].row \in Pair /\ status[job[h].row] # "none"
        BY <2>2, <2>j DEF ReopenFriendship, WriteRejected
      <3>2. Asked' = Asked
        BY <2>2, <3>1 DEF ReopenFriendship, WriteRejected, WriteStatus, Asked,
                          IInv, TypeOK
      <3> QED BY <2>2, <3>2
              DEF ReopenFriendship, WriteRejected, notices, Linked, Told
    <2>3. CASE WriteAccepted(h)
      <3>1. job[h].row \in Pair /\ status[job[h].row] # "none"
        BY <2>3, <2>j DEF WriteAccepted
      <3>2. Asked' = Asked /\ job[h].row \in Asked
        BY <2>3, <3>1 DEF WriteAccepted, WriteStatus, Asked, IInv, TypeOK
      <3>3. agreed' = agreed \cup {job[h].row} /\ UNCHANGED <<Linked, Told>>
        BY <2>3 DEF WriteAccepted, notices, Linked, Told
      <3>7. PICK p \in Pair : p = job[h].row
        BY <3>1, <3>2, <3>3
      <3>8. Promise!Agree(p)
        BY <3>1, <3>2, <3>3, <3>7 DEF Promise!Agree, Asked, Linked, Told
      <3> QED BY <3>8, RowStep
    <2>4. CASE NotifyTarget(h) \/ FindDirect(h) \/ StatementFails(h)
      BY <2>4 DEF NotifyTarget, FindDirect, StatementFails, tables, notices, history,
                  Asked, Linked, Told
    <2>5. CASE CreateConversation(h)
      <3>1. UNCHANGED <<Asked, agreed, Told>>
        BY <2>5 DEF CreateConversation, notices, history, Asked, Told
      <3>2. PICK c \in ConvId \ conversations : conversations' = conversations \cup {c}
        BY <2>5 DEF CreateConversation
      <3>3. participants[c] = {} /\ participants' = participants
        BY <2>5, <3>2 DEF IInv, ConversationsInHand, CreateConversation
      <3>4. Linked' = Linked
        BY <3>2, <3>3 DEF Linked
      <3> QED BY <3>1, <3>4
    <2>6. CASE AddParticipants(h)
      <3>1. UNCHANGED <<Asked, agreed, Told>>
        BY <2>6 DEF AddParticipants, notices, history, Asked, Told
      <3>2. job[h].row \in agreed /\ job[h].row \in Pair
        BY <2>6, <2>j, JobInFlight
           DEF AddParticipants, IInv, RowsInHand, AfterAccept
      <3>3. /\ job[h].conv \in conversations /\ job[h].conv \in ConvId
            /\ participants[job[h].conv] = {}
        BY <2>6 DEF AddParticipants, IInv, ConversationsInHand, TypeOK
      <3>4. /\ participants'[job[h].conv] = Ends(job[h].row)
            /\ \A c \in ConvId : c # job[h].conv => participants'[c] = participants[c]
            /\ conversations' = conversations /\ conversations \subseteq ConvId
        BY <2>6, <3>3 DEF AddParticipants, IInv, TypeOK
      <3>5. Ends(job[h].row) # {}
        BY <3>2, PairFacts
      <3>6. Linked' = Linked \cup {Ends(job[h].row)}
        BY <3>3, <3>4, <3>5 DEF Linked
      <3>7. PICK p \in Pair : p = job[h].row
        BY <3>1, <3>2
      <3>8. Promise!Link(p)
        BY <3>1, <3>2, <3>6, SamePairs, <3>7 DEF Promise!Link, Asked, Linked, Told
      <3> QED BY <3>8, RowStep
    <2>7. CASE NotifyRequester(h) \/ NotifyReceiver(h)
      <3>1. job[h] \in Job /\ job[h].at \in Notifying /\ UNCHANGED <<tables, agreed>>
        BY <2>7, <2>j DEF NotifyRequester, NotifyReceiver, Notifying, history
      <3>2. /\ job[h].row[1] \in User /\ job[h].row[2] \in User
            /\ {job[h].row[1], job[h].row[2]} = Ends(job[h].row)
            /\ {job[h].row[2], job[h].row[1]} = Ends(job[h].row)
        BY <3>1, PairFacts DEF Job, Ends
      <3> QED BY <2>7, <3>1, <3>2, TellMaps
              DEF NotifyRequester, NotifyReceiver, Requester, Receiver
    <2> QED BY <1>3, <2>1, <2>2, <2>3, <2>4, <2>5, <2>6, <2>7 DEF Continue
  <1> QED BY <1>1, <1>2, <1>3 DEF Next

\* The handlers implement Consent: ask, agree, link, tell, in this order.
THEOREM Refinement == Spec => ConsentIsKept
  <1>1. Init => Promise!Init
    BY DEF Init, Promise!Init
  <1>2. IInv /\ IInv' /\ [Next]_vars => [Promise!Next]_(Promise!vars)
    BY StepMaps DEF Promise!vars, Asked, Linked, Told
  <1> QED BY <1>1, <1>2, Invariance, PTL DEF Spec, ConsentIsKept, Promise!Spec
=============================================================================
