---------------------------- MODULE MessagesProofs ----------------------------
(***************************************************************************)
(* Theorems about Messages for any conversations, senders, readers, limits *)
(* and any number of messages.                                             *)
(***************************************************************************)
EXTENDS MessagesInv, FiniteSetTheorems, TLAPS

(***************************************************************************)
(* The order of the table and its pages                                    *)
(***************************************************************************)

\* The clustering order is a strict partial order.
LEMMA PrecedesOrders ==
    /\ \A m \in Message : ~Precedes(m, m)
    /\ \A k, m, n \in Message : Precedes(k, m) /\ Precedes(m, n) => Precedes(k, n)
  BY DEF Precedes, Message

\* What is younger comes first.
LEMMA YoungerPrecedes ==
    ASSUME NEW m \in Message, NEW n \in Message, m.created_at > n.created_at
    PROVE  Precedes(m, n)
  BY DEF Precedes

\* A page is a prefix of what matches.
LEMMA PageIsPrefix ==
    ASSUME NEW S \in SUBSET Message, IsFiniteSet(S), NEW n \in Nat,
           NEW m \in S, NEW k \in Page(S, n), Precedes(m, k)
    PROVE  m \in Page(S, n)
  <1> DEFINE Before(x) == {y \in S : Precedes(y, x)}
  <1>1. k \in S /\ Cardinality(Before(k)) < n
    BY DEF Page
  <1>2. Before(m) \in SUBSET Before(k)
    BY <1>1, PrecedesOrders
  <1>3. IsFiniteSet(Before(k))
    BY FS_Subset
  <1>4. Cardinality(Before(m)) <= Cardinality(Before(k))
    BY <1>2, <1>3, FS_Subset
  <1>5. Cardinality(Before(m)) \in Nat /\ Cardinality(Before(k)) \in Nat
    BY FS_Subset, FS_CardinalityType
  <1>6. Cardinality(Before(m)) < n
    BY <1>1, <1>4, <1>5
  <1> QED BY <1>6 DEF Page

\* A page is empty only when nothing matches: what comes first is on it.
LEMMA PageFindsSome ==
    ASSUME NEW S \in SUBSET Message, IsFiniteSet(S), S # {}, NEW n \in Nat \ {0}
    PROVE  Page(S, n) # {}
  <1> DEFINE Before(x) == {y \in S : Precedes(y, x)}
             T == {Before(x) : x \in S}
  <1>1. T \subseteq FiniteSubsetsOf(S) /\ T # {}
    <2>1. \A x \in S : Before(x) \subseteq S /\ IsFiniteSet(Before(x))
      BY FS_Subset
    <2> QED BY <2>1 DEF FiniteSubsetsOf
  <1>2. IsWellFoundedOn(StrictSubsetOrdering(S), FiniteSubsetsOf(S))
    BY FS_StrictSubsetOrderingWellFounded
  <1>3. \E U \in T : \A V \in T : ~(<<V, U>> \in StrictSubsetOrdering(S))
    <2> HIDE DEF T
    <2> QED BY <1>1, <1>2, WFMin
  <1>4. PICK x \in S : \A y \in S : ~(<<Before(y), Before(x)>> \in StrictSubsetOrdering(S))
    BY <1>3
  <1>5. Before(x) = {}
    <2>1. SUFFICES ASSUME NEW y \in Before(x)
                   PROVE  FALSE
      BY Zenon
    <2>2. Before(y) \subseteq Before(x) /\ y \notin Before(y)
      BY PrecedesOrders
    <2>3. <<Before(y), Before(x)>> \in StrictSubsetOrdering(S)
      BY <2>2 DEF StrictSubsetOrdering
    <2> QED BY <1>4, <2>3
  <1>6. Cardinality(Before(x)) = 0
    BY <1>5, FS_EmptySet
  <1>7. x \in Page(S, n)
    BY <1>6 DEF Page
  <1> QED BY <1>7

\* A page that does not reach down to m ends in its very millisecond.
LEMMA PageEndsAt ==
    ASSUME NEW S \in SUBSET Message, IsFiniteSet(S), NEW n \in Nat,
           NEW oldest \in Page(S, n), NEW m \in S, m \notin Page(S, n),
           m.created_at >= oldest.created_at
    PROVE  m.created_at = oldest.created_at
  <1>1. oldest \in Message /\ m \in Message /\ oldest.created_at \in Nat /\ m.created_at \in Nat
    BY DEF Page, Message
  <1>2. ~(m.created_at > oldest.created_at)
    BY <1>1, YoungerPrecedes, PageIsPrefix
  <1> QED BY <1>1, <1>2

\* Whatever limit is asked for, the server's is in range.
LEMMA LimitInRange ==
    ASSUME NEW n \in Int
    PROVE  Limit(n) \in 1..MaxLimit
  BY LimitAssumption DEF Limit

(***************************************************************************)
(* What senders and readers carry                                          *)
(***************************************************************************)

\* What a send carries.
LEMMA SendingAt ==
    ASSUME TypeOK, NEW s \in Sender
    PROVE  /\ Idle.at = "idle"
           /\ sending[s] \in {Idle} \cup Sending
           /\ sending[s] \in Sending =>
                sending[s] # Idle /\ sending[s].msg \in Message
                /\ sending[s].at \in {"insert", "publish"}
           /\ sending[s].at \in {"insert", "publish"} => sending[s] \in Sending
  BY DEF TypeOK, Sending, Idle

\* What a reading carries.
LEMMA ReadingAt ==
    ASSUME TypeOK, NEW r \in Reader
    PROVE  /\ reading[r] \in {Idle} \cup Reading
           /\ r \in Active <=> reading[r] \in Reading
           /\ reading[r] \in Reading => LET j == reading[r] IN
                /\ j.at \in {"read", "answer"} /\ j.audit \in BOOLEAN
                /\ j.conv \in Conv /\ j.limit \in 1..MaxLimit
                /\ j.before \in Nat /\ j.page \subseteq Message /\ j.read \subseteq Message
                /\ j.start \subseteq Message /\ j.cuts \subseteq Nat
  <1>1. reading[r] \in {Idle} \cup Reading
    BY DEF TypeOK
  <1>2. CASE reading[r] = Idle
    BY <1>2 DEF Active, Idle, Reading
  <1>3. CASE reading[r] \in Reading
    BY <1>3 DEF Active, Reading
  <1> QED BY <1>1, <1>2, <1>3

\* What CursorSeparates and OnlyTiesAreSkipped say of one reading.
Separates(j) ==
    /\ j.before = ZeroTime => j.read \cup j.page = {}
    /\ j.before # ZeroTime => \A m \in j.read \cup j.page : m.created_at >= j.before
    /\ j.start \subseteq messages

Finds(j) ==
    \A m \in j.start :
        (m.conv = j.conv
         /\ (j.at = "answer" \/ (j.before # ZeroTime /\ m.created_at >= j.before)))
        => /\ m \in j.read \cup j.page \/ m.created_at \in j.cuts
           /\ m \notin j.read \cap j.page

(***************************************************************************)
(* The inductive invariant: one lemma per kind of step                     *)
(***************************************************************************)

\* Senders leave the readings alone, and take nothing away.
LEMMA SendersKeep ==
    ASSUME IInv, TypeOK', IsFiniteSet(messages'), Stamped', PublishedIsStored',
           messages \subseteq messages', UNCHANGED reading
    PROVE  IInv'
  <1>1. Active' = Active
    BY DEF Active
  <1>2. CursorSeparates'
    BY <1>1 DEF IInv, CursorSeparates
  <1>3. OnlyTiesAreSkipped'
    BY <1>1 DEF IInv, OnlyTiesAreSkipped
  <1> QED BY <1>2, <1>3 DEF IInv

\* A send turns to its next stage.
LEMMA SendTurns ==
    ASSUME IInv, NEW s \in Sender, NEW j \in {Idle} \cup Sending,
           sending' = [sending EXCEPT ![s] = j],
           NEW new \in SUBSET Message, IsFiniteSet(new), messages' = messages \cup new,
           \A m \in new : m.created_at # ZeroTime,
           published \subseteq published', published' \subseteq messages,
           j # Idle => j.msg.created_at # ZeroTime,
           j.at = "publish" => j.msg \in messages',
           clock' \in Nat \ {ZeroTime}, lastId' \in Nat,
           UNCHANGED reading
    PROVE  IInv'
  <1>1. /\ sending' \in [Sender -> {Idle} \cup Sending]
        /\ sending'[s] = j
        /\ \A t \in Sender : t # s => sending'[t] = sending[t]
    BY DEF IInv, TypeOK
  <1>2. TypeOK'
    BY <1>1 DEF IInv, TypeOK
  <1>3. IsFiniteSet(messages')
    BY FS_Union DEF IInv
  <1>4. Stamped'
    BY <1>1 DEF IInv, Stamped
  <1>5. PublishedIsStored'
    BY <1>1 DEF IInv, PublishedIsStored
  <1> QED BY <1>2, <1>3, <1>4, <1>5, SendersKeep

\* A reader turns to its next page, and nothing else happens.
LEMMA ReadingTurns ==
    ASSUME IInv, NEW r \in Reader, NEW j \in {Idle} \cup Reading,
           reading' = [reading EXCEPT ![r] = j],
           UNCHANGED <<clock, lastId, messages, published, sending>>,
           j \in Reading => Separates(j) /\ Finds(j)
    PROVE  IInv'
  <1>1. /\ reading' \in [Reader -> {Idle} \cup Reading]
        /\ reading'[r] = j
        /\ \A q \in Reader : q # r => reading'[q] = reading[q]
    BY DEF IInv, TypeOK
  <1>2. TypeOK'
    BY <1>1 DEF IInv, TypeOK
  <1>3. Stamped' /\ PublishedIsStored' /\ IsFiniteSet(messages)'
    BY DEF IInv, Stamped, PublishedIsStored
  <1>4. ASSUME NEW q \in Active'
        PROVE  Separates(reading'[q]) /\ Finds(reading'[q])
    <2>1. CASE q = r
      <3>1. j \in Reading
        BY <1>1, <1>4, <2>1 DEF Active, Idle
      <3> QED BY <1>1, <2>1, <3>1
    <2>2. CASE q # r
      <3>1. q \in Active /\ reading'[q] = reading[q]
        BY <1>1, <2>2 DEF Active
      <3>2. Separates(reading[q]) /\ Finds(reading[q])
        BY <3>1 DEF IInv, CursorSeparates, OnlyTiesAreSkipped, Separates, Finds
      <3> QED BY <3>1, <3>2
    <2> QED BY <2>1, <2>2
  <1>5. CursorSeparates'
    BY <1>4 DEF CursorSeparates, Separates
  <1>6. OnlyTiesAreSkipped'
    BY <1>4 DEF OnlyTiesAreSkipped, Finds
  <1> QED BY <1>2, <1>3, <1>5, <1>6 DEF IInv

\* The message is stamped with the clock, which has left the zero time.
LEMMA SendMessageStep ==
    ASSUME IInv, NEW s \in Sender, NEW c \in Conv, SendMessage(s, c)
    PROVE  IInv'
  <1> DEFINE m == [id |-> lastId + 1, conv |-> c, created_at |-> clock]
             j == [at |-> "insert", msg |-> m]
  <1>1. clock \in Nat \ {ZeroTime} /\ lastId \in Nat
    BY DEF IInv, TypeOK
  <1>2. m \in Message /\ m.created_at # ZeroTime
    BY <1>1 DEF Message
  <1>3. j \in {Idle} \cup Sending /\ j.at = "insert" /\ j.msg = m
    BY <1>2 DEF Sending
  <1>4. /\ sending' = [sending EXCEPT ![s] = j] /\ lastId' = lastId + 1
        /\ UNCHANGED <<clock, messages, published, reading>>
    BY DEF SendMessage
  <1> HIDE DEF m, j
  <1>5. published \subseteq messages
    BY DEF IInv, PublishedIsStored
  <1>6. messages' = messages \cup {} /\ IsFiniteSet({}) /\ lastId' \in Nat
    BY <1>1, <1>4, FS_EmptySet
  <1> QED BY <1>1, <1>2, <1>3, <1>4, <1>5, <1>6, SendTurns

\* The insert takes effect; the message is published next.
LEMMA InsertMessageStep ==
    ASSUME IInv, NEW s \in Sender, InsertMessage(s)
    PROVE  IInv'
  <1> DEFINE m == sending[s].msg
             j == [sending[s] EXCEPT !.at = "publish"]
  <1>1. sending[s] \in Sending /\ m \in Message /\ m.created_at # ZeroTime
    BY SendingAt DEF InsertMessage, IInv, Stamped
  <1>2. j \in {Idle} \cup Sending /\ j.msg = m
    BY <1>1 DEF Sending
  <1>3. /\ sending' = [sending EXCEPT ![s] = j] /\ messages' = messages \cup {m}
        /\ UNCHANGED <<clock, lastId, published, reading>>
    BY DEF InsertMessage
  <1> HIDE DEF m, j
  <1>4. clock \in Nat \ {ZeroTime} /\ lastId \in Nat /\ published \subseteq messages
    BY DEF IInv, TypeOK, PublishedIsStored
  <1>5. IsFiniteSet({m}) /\ {m} \in SUBSET Message
    BY <1>1, FS_Singleton
  <1>6. \A x \in {m} : x.created_at # ZeroTime
    BY <1>1
  <1> QED BY <1>1, <1>2, <1>3, <1>4, <1>5, <1>6, SendTurns

\* The insert fails, and may have taken effect.
LEMMA InsertFailsStep ==
    ASSUME IInv, NEW s \in Sender, InsertFails(s)
    PROVE  IInv'
  <1> DEFINE m == sending[s].msg
  <1>1. m \in Message /\ m.created_at # ZeroTime
    BY SendingAt DEF InsertFails, IInv, Stamped
  <1>2. /\ sending' = [sending EXCEPT ![s] = Idle]
        /\ messages' \in {messages, messages \cup {m}}
        /\ UNCHANGED <<clock, lastId, published, reading>>
    BY DEF InsertFails
  <1> HIDE DEF m
  <1>3. PICK new \in {{}, {m}} : messages' = messages \cup new
    BY <1>2
  <1>4. new \in SUBSET Message /\ IsFiniteSet(new) /\ \A x \in new : x.created_at # ZeroTime
    BY <1>1, <1>3, FS_EmptySet, FS_Singleton
  <1>5. clock \in Nat \ {ZeroTime} /\ lastId \in Nat /\ published \subseteq messages
    BY DEF IInv, TypeOK, PublishedIsStored
  <1>6. Idle \in {Idle} \cup Sending /\ Idle.at # "publish"
    BY DEF Idle
  <1> QED BY <1>2, <1>3, <1>4, <1>5, <1>6, SendTurns

\* A stored message is published, or is not.
LEMMA PublishMessageStep ==
    ASSUME IInv, NEW s \in Sender, PublishMessage(s)
    PROVE  IInv'
  <1>1. sending[s].msg \in messages /\ published \subseteq messages
    BY DEF PublishMessage, IInv, PublishedIsStored
  <1>2. /\ published' \in {published, published \cup {sending[s].msg}}
        /\ sending' = [sending EXCEPT ![s] = Idle]
        /\ UNCHANGED <<clock, lastId, messages, reading>>
    BY DEF PublishMessage
  <1>3. published \subseteq published' /\ published' \subseteq messages
    BY <1>1, <1>2
  <1>4. clock \in Nat \ {ZeroTime} /\ lastId \in Nat
    BY DEF IInv, TypeOK
  <1>5. Idle \in {Idle} \cup Sending /\ Idle.at # "publish"
    BY DEF Idle
  <1>6. messages' = messages \cup {} /\ IsFiniteSet({})
    BY <1>2, FS_EmptySet
  <1> QED BY <1>2, <1>3, <1>4, <1>5, <1>6, SendTurns

\* A reading begins before the first page.
LEMMA StartReadingStep ==
    ASSUME IInv, NEW r \in Reader, NEW c \in Conv, NEW audit \in BOOLEAN,
           NEW limit \in 1..MaxLimit, StartReading(r, c, audit, limit)
    PROVE  IInv'
  <1> DEFINE j == [at |-> "read", audit |-> audit, conv |-> c, limit |-> limit,
                   before |-> ZeroTime, page |-> {}, read |-> {},
                   start |-> messages \cup published, cuts |-> {}]
  <1>1. published \subseteq messages /\ messages \subseteq Message
    BY DEF IInv, TypeOK, PublishedIsStored
  <1>2. j \in Reading
    BY <1>1 DEF Reading, ZeroTime
  <1>3. Separates(j)
    BY <1>1 DEF Separates
  <1>4. Finds(j)
    BY DEF Finds
  <1>5. reading' = [reading EXCEPT ![r] = j]
        /\ UNCHANGED <<clock, lastId, messages, published, sending>>
    BY DEF StartReading
  <1> HIDE DEF j
  <1> QED BY <1>2, <1>3, <1>4, <1>5, ReadingTurns

\* What a reading has, and what matches its cursor, before a query.
LEMMA BeforeQuery ==
    ASSUME IInv, NEW r \in Reader, reading[r].at = "read"
    PROVE  LET j == reading[r]
               S == Matching(j.conv, j.before) IN
           /\ j \in Reading /\ Separates(j) /\ Finds(j)
           /\ S \in SUBSET Message /\ IsFiniteSet(S)
           /\ j.limit \in Nat \ {0}
  <1> DEFINE j == reading[r]
             S == Matching(j.conv, j.before)
  <1>1. r \in Active /\ j \in Reading
    BY ReadingAt DEF Active, IInv
  <1>2. Separates(j) /\ Finds(j)
    BY <1>1 DEF IInv, CursorSeparates, OnlyTiesAreSkipped, Separates, Finds
  <1>3. S \in SUBSET messages
    BY DEF Matching
  <1>4. S \in SUBSET Message /\ IsFiniteSet(S)
    BY <1>3, FS_Subset DEF IInv, TypeOK
  <1>5. j.limit \in Nat \ {0}
    BY <1>1, LimitAssumption DEF Reading
  <1> QED BY <1>1, <1>2, <1>4, <1>5

\* A page: all of it is older than the cursor was, and what is not on it and
\* not older than it ends was stamped when it ends.
LEMMA GetMessagesStep ==
    ASSUME IInv, NEW r \in Reader, GetMessages(r)
    PROVE  IInv'
  <1>1. PICK j : j = reading[r]
    OBVIOUS
  <1> DEFINE S == Matching(j.conv, j.before)
             page == Page(S, j.limit)
  <1>2. j.at = "read" /\ j \in Reading /\ Separates(j) /\ Finds(j)
        /\ S \in SUBSET Message /\ IsFiniteSet(S) /\ j.limit \in Nat \ {0}
    BY <1>1, BeforeQuery DEF GetMessages
  <1>3. PICK oldest \in page :
            /\ \A m \in page : oldest.created_at <= m.created_at
            /\ reading' = [reading EXCEPT ![r] =
                [j EXCEPT !.before = oldest.created_at, !.page = page,
                          !.read = @ \cup j.page,
                          !.cuts = @ \cup {oldest.created_at}]]
    BY <1>1 DEF GetMessages
  <1> DEFINE n == [j EXCEPT !.before = oldest.created_at, !.page = page,
                            !.read = @ \cup j.page,
                            !.cuts = @ \cup {oldest.created_at}]
  <1>4. page \subseteq S /\ page \subseteq Message
    BY <1>2 DEF Page
  <1>5. oldest \in Message /\ oldest.created_at \in Nat /\ oldest \in messages
    BY <1>3, <1>4 DEF Message, Matching
  <1>6. oldest.created_at # ZeroTime
    BY <1>5 DEF IInv, Stamped
  <1>7. /\ n \in Reading
        /\ n.at = "read" /\ n.conv = j.conv /\ n.start = j.start
        /\ n.before = oldest.created_at /\ n.page = page /\ n.read = j.read \cup j.page
        /\ n.cuts = j.cuts \cup {oldest.created_at}
    BY <1>2, <1>4, <1>5 DEF Reading
  <1>8. /\ j.before \in Nat /\ j.read \subseteq Message /\ j.page \subseteq Message
        /\ j.start \subseteq Message
    BY <1>2 DEF Reading
  <1>9. \A m \in Message : m.created_at \in Nat
    BY DEF Message
  <1>10. \A m \in S : m \in messages /\ m.conv = j.conv
                      /\ (j.before = ZeroTime \/ m.created_at < j.before)
    BY DEF Matching
  <1>11. \A m \in messages : m.conv = j.conv /\ (j.before = ZeroTime \/ m.created_at < j.before)
                      => m \in S
    BY DEF Matching
  <1> HIDE DEF S, page, n
  <1>12. Separates(n)
    <2>1. ASSUME NEW m \in n.read \cup n.page
          PROVE  m.created_at >= oldest.created_at
      <3>1. CASE m \in page
        BY <1>3, <1>4, <1>5, <1>9, <3>1
      <3>2. CASE m \in j.read \cup j.page
        <4>1. j.before # ZeroTime /\ m.created_at >= j.before
          BY <1>2, <3>2 DEF Separates
        <4>2. oldest.created_at < j.before
          BY <1>3, <1>4, <1>10, <4>1
        <4> QED BY <1>5, <1>8, <1>9, <3>2, <4>1, <4>2
      <3> QED BY <1>7, <2>1, <3>1, <3>2
    <2> QED BY <1>2, <1>6, <1>7, <2>1 DEF Separates
  <1>13. Finds(n)
    <2> SUFFICES ASSUME NEW m \in j.start, m.conv = j.conv,
                        m.created_at >= oldest.created_at
                 PROVE  /\ m \in j.read \cup j.page \cup page
                           \/ m.created_at \in j.cuts \cup {oldest.created_at}
                        /\ m \notin (j.read \cup j.page) \cap page
      BY <1>7 DEF Finds
    <2>1. m \in messages /\ m \in Message
      BY <1>2, <1>8 DEF Separates
    <2>2. m \notin (j.read \cup j.page) \cap page
      <3> SUFFICES ASSUME m \in j.read \cup j.page, m \in page
                   PROVE  FALSE
        OBVIOUS
      <3>1. j.before # ZeroTime /\ m.created_at >= j.before
        BY <1>2 DEF Separates
      <3>2. m.created_at < j.before
        BY <1>4, <1>10, <3>1
      <3> QED BY <1>8, <1>9, <2>1, <3>1, <3>2
    <2>3. CASE m \in S
      <3>1. m \in page \/ m.created_at = oldest.created_at
        BY <1>2, <1>3, <2>3, PageEndsAt DEF page
      <3> QED BY <2>2, <3>1
    <2>4. CASE m \notin S
      <3>1. j.before # ZeroTime /\ m.created_at >= j.before
        BY <1>8, <1>9, <1>11, <2>1, <2>4
      <3>2. m \in j.read \cup j.page \/ m.created_at \in j.cuts
        BY <1>2, <3>1 DEF Finds
      <3> QED BY <2>2, <3>2
    <2> QED BY <2>3, <2>4
  <1>14. UNCHANGED <<clock, lastId, messages, published, sending>>
    BY DEF GetMessages
  <1>15. reading' = [reading EXCEPT ![r] = n]
    BY <1>3 DEF n
  <1> QED BY <1>7, <1>12, <1>13, <1>14, <1>15, ReadingTurns

\* An empty page: nothing of the conversation is older than the cursor.
LEMMA ReachEndStep ==
    ASSUME IInv, NEW r \in Reader, ReachEnd(r)
    PROVE  IInv'
  <1>1. PICK j : j = reading[r]
    OBVIOUS
  <1> DEFINE S == Matching(j.conv, j.before)
             n == [j EXCEPT !.at = "answer", !.page = {}, !.read = @ \cup j.page]
  <1>2. j.at = "read" /\ j \in Reading /\ Separates(j) /\ Finds(j)
        /\ S \in SUBSET Message /\ IsFiniteSet(S) /\ j.limit \in Nat \ {0}
    BY <1>1, BeforeQuery DEF ReachEnd
  <1>3. S = {}
    <2>1. Page(S, j.limit) = {}
      BY <1>1 DEF ReachEnd
    <2> QED BY <1>2, <2>1, PageFindsSome
  <1>4. /\ n \in Reading
        /\ n.at = "answer" /\ n.conv = j.conv /\ n.start = j.start /\ n.before = j.before
        /\ n.page = {} /\ n.read = j.read \cup j.page /\ n.cuts = j.cuts
    BY <1>2 DEF Reading
  <1>5. j.before \in Nat /\ j.start \subseteq Message
    BY <1>2 DEF Reading
  <1>6. \A m \in Message : m.created_at \in Nat
    BY DEF Message
  <1>7. \A m \in messages : m.conv = j.conv =>
            j.before # ZeroTime /\ ~(m.created_at < j.before)
    BY <1>3 DEF Matching
  <1> HIDE DEF S, n
  <1>8. Separates(n)
    BY <1>2, <1>4 DEF Separates
  <1>9. Finds(n)
    <2>1. ASSUME NEW m \in j.start, m.conv = j.conv
          PROVE  m \in j.read \cup j.page \/ m.created_at \in j.cuts
      <3>1. j.before # ZeroTime /\ m.created_at >= j.before
        BY <1>2, <1>5, <1>6, <1>7, <2>1 DEF Separates
      <3> QED BY <1>2, <2>1, <3>1 DEF Finds
    <2> QED BY <1>4, <2>1 DEF Finds
  <1>10. /\ reading' = [reading EXCEPT ![r] = n]
         /\ UNCHANGED <<clock, lastId, messages, published, sending>>
    BY <1>1 DEF ReachEnd, n
  <1> QED BY <1>4, <1>8, <1>9, <1>10, ReadingTurns

(***************************************************************************)
(* The theorems                                                            *)
(***************************************************************************)

\* Nothing is stored at first.
LEMMA InitInv == Init => IInv
  <1> SUFFICES ASSUME Init
               PROVE  IInv
    OBVIOUS
  <1>1. TypeOK
    BY DEF Init, TypeOK, ZeroTime
  <1>2. IsFiniteSet(messages) /\ Stamped /\ PublishedIsStored
    BY FS_EmptySet DEF Init, Stamped, PublishedIsStored, Idle
  <1>3. Active = {}
    BY DEF Init, Active, Idle
  <1>4. CursorSeparates /\ OnlyTiesAreSkipped
    BY <1>3 DEF CursorSeparates, OnlyTiesAreSkipped
  <1> QED BY <1>1, <1>2, <1>4 DEF IInv

\* Every step keeps the invariant.
LEMMA NextInv == IInv /\ [Next]_vars => IInv'
  <1> SUFFICES ASSUME IInv, [Next]_vars
               PROVE  IInv'
    OBVIOUS
  <1>1. CASE Tick \/ UNCHANGED vars
    <2>1. clock' \in Nat \ {ZeroTime} /\ UNCHANGED <<lastId, messages, published, sending, reading>>
      BY <1>1 DEF Tick, vars, IInv, TypeOK, ZeroTime
    <2>2. TypeOK' /\ IsFiniteSet(messages)' /\ Stamped' /\ PublishedIsStored'
      BY <2>1 DEF IInv, TypeOK, Stamped, PublishedIsStored
    <2> QED BY <2>1, <2>2, SendersKeep
  <1>2. ASSUME NEW s \in Sender,
               \/ \E c \in Conv : SendMessage(s, c)
               \/ InsertMessage(s) \/ InsertFails(s) \/ PublishMessage(s)
        PROVE  IInv'
    BY <1>2, SendMessageStep, InsertMessageStep, InsertFailsStep, PublishMessageStep
  <1>3. ASSUME NEW r \in Reader, NEW c \in Conv, AuditGroupMessages(r, c) \/ OpenHistory(r, c)
        PROVE  IInv'
    <2>1. MaxLimit \in 1..MaxLimit
      BY LimitAssumption
    <2>2. \A n \in Requested : Limit(n) \in 1..MaxLimit
      BY LimitAssumption, LimitInRange
    <2> QED BY <1>3, <2>1, <2>2, StartReadingStep DEF AuditGroupMessages, OpenHistory
  <1>4. ASSUME NEW r \in Reader, StopReading(r)
        PROVE  IInv'
    <2>1. Idle \in {Idle} \cup Reading /\ Idle \notin Reading
      BY DEF Idle, Reading
    <2> QED BY <1>4, <2>1, ReadingTurns DEF StopReading
  <1>5. ASSUME NEW r \in Reader, GetMessages(r) \/ ReachEnd(r)
        PROVE  IInv'
    BY <1>5, GetMessagesStep, ReachEndStep
  <1> QED BY <1>1, <1>2, <1>3, <1>4, <1>5 DEF Next

\* What is stored, shown and read fit together.
THEOREM Invariance == Spec => []IInv
  <1> QED BY InitInv, NextInv, PTL DEF Spec

\* Messages, sends and readings keep their types; every limit is in range.
THEOREM TypeCorrect == Spec => []TypeOK
  <1>1. IInv => TypeOK
    BY DEF IInv
  <1> QED BY <1>1, Invariance, PTL

\* A page query with the time of the oldest message as its cursor skips and
\* repeats nothing but messages of the millisecond at which a page ended.
THEOREM OnlyTiesSkipped == Spec => []OnlyTiesAreSkipped
  <1>1. IInv => OnlyTiesAreSkipped
    BY DEF IInv
  <1> QED BY <1>1, Invariance, PTL

\* No subscriber is shown a message the history does not have.
THEOREM ShownIsInHistory == Spec => [](published \subseteq messages)
  <1>1. IInv => published \subseteq messages
    BY DEF IInv, PublishedIsStored
  <1> QED BY <1>1, Invariance, PTL

\* A page lowers the cursor, and not to the zero time that would start the
\* reading again.
CursorGoesBack ==
    \A r \in Reader : GetMessages(r) =>
        /\ reading'[r].before # ZeroTime
        /\ reading[r].before = ZeroTime \/ reading'[r].before < reading[r].before

\* Every page lowers the cursor: the audit's loop has no more rounds than there
\* are milliseconds below its first page, whoever goes on sending.
THEOREM CursorNeverReturns == Spec => [][CursorGoesBack]_vars
  <1>1. ASSUME IInv, NEW r \in Reader, GetMessages(r)
        PROVE  /\ reading'[r].before # ZeroTime
               /\ reading[r].before = ZeroTime \/ reading'[r].before < reading[r].before
    <2>1. PICK j : j = reading[r]
      OBVIOUS
    <2>2. j \in Reading
      BY <1>1, <2>1, BeforeQuery DEF GetMessages
    <2>3. PICK oldest \in Page(Matching(j.conv, j.before), j.limit) :
            reading' = [reading EXCEPT ![r] =
                [j EXCEPT !.before = oldest.created_at,
                          !.page = Page(Matching(j.conv, j.before), j.limit),
                          !.read = @ \cup j.page,
                          !.cuts = @ \cup {oldest.created_at}]]
      BY <1>1, <2>1 DEF GetMessages
    <2>4. reading'[r].before = oldest.created_at
      BY <1>1, <2>2, <2>3 DEF IInv, TypeOK, Reading
    <2>5. oldest \in messages /\ (j.before = ZeroTime \/ oldest.created_at < j.before)
      BY <2>3 DEF Page, Matching
    <2> QED BY <1>1, <2>1, <2>4, <2>5 DEF IInv, Stamped
  <1>2. IInv /\ [Next]_vars => [CursorGoesBack]_vars
    BY <1>1 DEF CursorGoesBack
  <1> QED BY <1>2, Invariance, PTL DEF Spec

(***************************************************************************)
(* Messages implements History                                             *)
(***************************************************************************)

\* One reader turns the page; the others' views stay.
LEMMA ViewTurns ==
    ASSUME IInv, NEW r \in Reader, NEW j \in {Idle} \cup Reading,
           reading' = [reading EXCEPT ![r] = j]
    PROVE  Views[r] = ViewOf(reading[r]) /\ Views' = [Views EXCEPT ![r] = ViewOf(j)]
  <1>1. reading'[r] = j /\ \A q \in Reader : q # r => reading'[q] = reading[q]
    BY DEF IInv, TypeOK
  <1>2. /\ \A q \in Reader : Views[q] = ViewOf(reading[q]) /\ Views'[q] = ViewOf(reading'[q])
        /\ Views = [q \in Reader |-> Views[q]] /\ Views' = [q \in Reader |-> Views'[q]]
    BY DEF Views
  <1>3. Views'[r] = ViewOf(j) /\ \A q \in Reader : q # r => Views'[q] = Views[q]
    BY <1>1, <1>2
  <1> QED BY <1>2, <1>3

\* The view of a reading that goes on.
LEMMA ViewIs ==
    ASSUME NEW j \in Reading
    PROVE  LET v == ViewOf(j) IN
           /\ j # Idle
           /\ v = [at |-> IF j.at = "read" THEN "open" ELSE "end", conv |-> j.conv,
                   seen |-> j.read \cup j.page, floor |-> j.before]
           /\ v.at \in {"open", "end"}
  BY DEF ViewOf, Reading, Idle

\* A sender stores a message, or one that is there already.
LEMMA StoreMaps ==
    ASSUME NEW s \in Sender, InsertMessage(s) \/ InsertFails(s)
    PROVE  Promise!Store \/ UNCHANGED Promise!vars
  <1>1. PICK m : m = sending[s].msg
    OBVIOUS
  <1>2. messages' \in {messages, messages \cup {m}} /\ UNCHANGED <<published, Views>>
    BY <1>1 DEF InsertMessage, InsertFails, Views
  <1>3. CASE messages' = messages
    BY <1>2, <1>3 DEF Promise!vars
  <1>4. CASE messages' # messages
    <2>1. m \in messages' \ messages /\ messages' = messages \cup {m}
      BY <1>2, <1>4
    <2> QED BY <1>2, <2>1 DEF Promise!Store
  <1> QED BY <1>3, <1>4

\* A sender shows a message that is stored, or does not.
LEMMA ShowMaps ==
    ASSUME IInv, NEW s \in Sender, PublishMessage(s)
    PROVE  (\E m \in messages : Promise!Show(m)) \/ UNCHANGED Promise!vars
  <1>1. sending[s].msg \in messages
    BY DEF PublishMessage, IInv, PublishedIsStored
  <1>2. /\ published' \in {published, published \cup {sending[s].msg}}
        /\ UNCHANGED <<messages, reading>>
    BY DEF PublishMessage
  <1>3. CASE published' = published
    BY <1>2, <1>3 DEF Promise!vars, Views
  <1>4. CASE published' = published \cup {sending[s].msg}
    BY <1>1, <1>2, <1>4 DEF Promise!Show, Views
  <1> QED BY <1>2, <1>3, <1>4

\* A reading begins with nothing seen.
LEMMA OpenMaps ==
    ASSUME IInv, NEW r \in Reader, NEW c \in Conv, NEW audit \in BOOLEAN,
           NEW limit \in 1..MaxLimit, StartReading(r, c, audit, limit)
    PROVE  Promise!Open(r, c)
  <1> DEFINE j == [at |-> "read", audit |-> audit, conv |-> c, limit |-> limit,
                   before |-> ZeroTime, page |-> {}, read |-> {},
                   start |-> messages \cup published, cuts |-> {}]
  <1>1. messages \cup published \subseteq Message
    BY DEF IInv, TypeOK
  <1>2. j \in Reading
    BY <1>1 DEF Reading, ZeroTime
  <1>3. /\ reading[r] = Idle /\ reading' = [reading EXCEPT ![r] = j]
        /\ UNCHANGED <<messages, published>>
    BY DEF StartReading
  <1>4. ViewOf(j) = Promise!Opened(c)
    BY <1>2, ViewIs DEF Promise!Opened
  <1>5. ViewOf(Idle) = Promise!Closed
    BY DEF ViewOf, Promise!Closed
  <1> HIDE DEF j
  <1> QED BY <1>2, <1>3, <1>4, <1>5, ViewTurns DEF Promise!Open

\* A page goes down to the time of its oldest message: it has all that is
\* younger, and what it has of that time is not nothing.
LEMMA DescendMaps ==
    ASSUME IInv, NEW r \in Reader, GetMessages(r)
    PROVE  \E m \in messages : Promise!Descend(r, m.created_at)
  <1>1. PICK j : j = reading[r]
    OBVIOUS
  <1> DEFINE S == Matching(j.conv, j.before)
             page == Page(S, j.limit)
  <1>2. j.at = "read" /\ j \in Reading
        /\ S \in SUBSET Message /\ IsFiniteSet(S) /\ j.limit \in Nat
    BY <1>1, BeforeQuery DEF GetMessages
  <1>3. PICK oldest \in page :
            /\ \A m \in page : oldest.created_at <= m.created_at
            /\ reading' = [reading EXCEPT ![r] =
                [j EXCEPT !.before = oldest.created_at, !.page = page,
                          !.read = @ \cup j.page,
                          !.cuts = @ \cup {oldest.created_at}]]
    BY <1>1 DEF GetMessages
  <1> DEFINE t == oldest.created_at
             n == [j EXCEPT !.before = t, !.page = page, !.read = @ \cup j.page,
                            !.cuts = @ \cup {t}]
             v == ViewOf(j)
             between == {m \in S : m.created_at > t}
             moment == {m \in S : m.created_at = t}
             some == {m \in page : m.created_at = t}
  <1>4. page \subseteq S /\ \A m \in S : m.created_at \in Nat
    BY <1>2 DEF Page, Message
  <1>5. oldest \in messages /\ t \in Nat
    BY <1>3, <1>4 DEF Matching
  <1>6. /\ n \in Reading /\ n.at = "read" /\ n.conv = j.conv /\ n.before = t
        /\ n.page = page /\ n.read = j.read \cup j.page
    BY <1>2, <1>4, <1>5 DEF Reading
  <1>7. reading' = [reading EXCEPT ![r] = n] /\ UNCHANGED <<messages, published>>
    BY <1>3 DEF GetMessages
  <1>8. page = between \cup some
    <2>1. between \subseteq page
      <3> SUFFICES ASSUME NEW m \in S, m.created_at > t
                   PROVE  m \in page
        OBVIOUS
      <3> QED BY <1>2, <1>3, <1>4, <1>5, PageEndsAt
    <2>2. \A m \in page : m.created_at > t \/ m.created_at = t
      BY <1>3, <1>4, <1>5
    <2> QED BY <1>4, <2>1, <2>2
  <1>9. some \in (SUBSET moment) \ {{}}
    BY <1>3, <1>4
  <1>10. v = [at |-> "open", conv |-> j.conv, seen |-> j.read \cup j.page,
              floor |-> j.before]
    BY <1>2, ViewIs
  <1>11. ViewOf(n) = [at |-> "open", conv |-> j.conv,
                      seen |-> (j.read \cup j.page) \cup page, floor |-> t]
    BY <1>6, ViewIs
  <1>12. Promise!Below(v) = S
    BY <1>10 DEF Promise!Below, Matching
  <1> HIDE DEF S, page, t, n, v, between, moment, some
  <1>13. Views[r] = v /\ Views' = [Views EXCEPT ![r] = ViewOf(n)]
    BY <1>1, <1>6, <1>7, ViewTurns DEF v
  <1>14. ViewOf(n) = [at |-> "open", conv |-> v.conv,
                      seen |-> v.seen \cup between \cup some, floor |-> t]
    <2>1. (j.read \cup j.page) \cup page = v.seen \cup between \cup some /\ v.conv = j.conv
      BY <1>8, <1>10
    <2> QED BY <1>11, <2>1
  <1>15. \E x \in (SUBSET moment) \ {{}} :
            Views' = [Views EXCEPT ![r] =
                [at |-> "open", conv |-> v.conv, seen |-> v.seen \cup between \cup x, floor |-> t]]
    BY <1>9, <1>13, <1>14
  <1>16. Promise!Descend(r, t)
    <2>1. /\ between = {m \in Promise!Below(v) : m.created_at > t}
          /\ moment = {m \in Promise!Below(v) : m.created_at = t}
      BY <1>12 DEF between, moment
    <2>2. v.at = "open"
      BY <1>10
    <2> QED BY <1>7, <1>13, <1>15, <2>1, <2>2 DEF Promise!Descend
  <1> QED BY <1>5, <1>16 DEF t

\* An empty page: nothing is left below.
LEMMA FinishMaps ==
    ASSUME IInv, NEW r \in Reader, ReachEnd(r)
    PROVE  Promise!Finish(r)
  <1>1. PICK j : j = reading[r]
    OBVIOUS
  <1> DEFINE S == Matching(j.conv, j.before)
             n == [j EXCEPT !.at = "answer", !.page = {}, !.read = @ \cup j.page]
             v == ViewOf(j)
  <1>2. j.at = "read" /\ j \in Reading
        /\ S \in SUBSET Message /\ IsFiniteSet(S) /\ j.limit \in Nat \ {0}
    BY <1>1, BeforeQuery DEF ReachEnd
  <1>3. S = {}
    <2>1. Page(S, j.limit) = {}
      BY <1>1 DEF ReachEnd
    <2> QED BY <1>2, <2>1, PageFindsSome
  <1>4. /\ n \in Reading /\ n.at = "answer" /\ n.conv = j.conv /\ n.before = j.before
        /\ n.page = {} /\ n.read = j.read \cup j.page
    BY <1>2 DEF Reading
  <1>5. reading' = [reading EXCEPT ![r] = n] /\ UNCHANGED <<messages, published>>
    BY <1>1 DEF ReachEnd
  <1>6. v = [at |-> "open", conv |-> j.conv, seen |-> j.read \cup j.page,
             floor |-> j.before]
    BY <1>2, ViewIs
  <1>7. ViewOf(n) = [at |-> "end", conv |-> j.conv, seen |-> j.read \cup j.page,
                     floor |-> j.before]
    BY <1>4, ViewIs
  <1>8. Promise!Below(v) = {}
    BY <1>3, <1>6 DEF Promise!Below, Matching
  <1> HIDE DEF S, n, v
  <1>9. ViewOf(n) = [v EXCEPT !.at = "end"]
    BY <1>6, <1>7
  <1>10. Views[r] = v /\ Views' = [Views EXCEPT ![r] = ViewOf(n)]
    BY <1>1, <1>4, <1>5, ViewTurns DEF v
  <1> QED BY <1>5, <1>6, <1>8, <1>9, <1>10 DEF Promise!Finish

\* The reader is done, or gives up.
LEMMA CloseMaps ==
    ASSUME IInv, NEW r \in Reader, StopReading(r)
    PROVE  Promise!Close(r)
  <1>1. reading[r] \in Reading
    BY ReadingAt DEF StopReading, Active, IInv
  <1>2. ViewOf(reading[r]).at \in {"open", "end"} /\ ViewOf(Idle) = Promise!Closed
    BY <1>1, ViewIs DEF ViewOf, Promise!Closed
  <1>3. reading' = [reading EXCEPT ![r] = Idle] /\ UNCHANGED <<messages, published>>
    BY DEF StopReading
  <1> QED BY <1>2, <1>3, ViewTurns DEF Promise!Close

\* Every step of the service is a step of the promise or nothing to a reader.
LEMMA StepMaps ==
    ASSUME IInv, [Next]_vars
    PROVE  Promise!Next \/ UNCHANGED Promise!vars
  <1>1. CASE Tick \/ UNCHANGED vars \/ \E s \in Sender, c \in Conv : SendMessage(s, c)
    BY <1>1 DEF Tick, vars, SendMessage, Promise!vars, Views
  <1>2. ASSUME NEW s \in Sender, InsertMessage(s) \/ InsertFails(s)
        PROVE  Promise!Next \/ UNCHANGED Promise!vars
    BY <1>2, StoreMaps DEF Promise!Next
  <1>3. ASSUME NEW s \in Sender, PublishMessage(s)
        PROVE  Promise!Next \/ UNCHANGED Promise!vars
    BY <1>3, ShowMaps DEF Promise!Next
  <1>4. ASSUME NEW r \in Reader, NEW c \in Conv, AuditGroupMessages(r, c) \/ OpenHistory(r, c)
        PROVE  Promise!Next
    <2>1. MaxLimit \in 1..MaxLimit /\ \A n \in Requested : Limit(n) \in 1..MaxLimit
      BY LimitAssumption, LimitInRange
    <2>2. Promise!Open(r, c)
      BY <1>4, <2>1, OpenMaps DEF AuditGroupMessages, OpenHistory
    <2> QED BY <2>2 DEF Promise!Next
  <1>5. ASSUME NEW r \in Reader, GetMessages(r)
        PROVE  Promise!Next
    BY <1>5, DescendMaps DEF Promise!Next
  <1>6. ASSUME NEW r \in Reader, ReachEnd(r) \/ StopReading(r)
        PROVE  Promise!Next
    BY <1>6, FinishMaps, CloseMaps DEF Promise!Next
  <1> QED BY <1>1, <1>2, <1>3, <1>4, <1>5, <1>6 DEF Next

\* For any page sizes and however sends fail or overtake each other, readers
\* are shown the history backwards and without gaps but for ties.
THEOREM Refinement == Spec => HistoryIsKept
  <1>1. Init => Promise!Init
    BY DEF Init, Promise!Init, Promise!Closed, ViewOf, Views
  <1>2. IInv /\ [Next]_vars => [Promise!Next]_(Promise!vars)
    BY StepMaps
  <1> QED BY <1>1, <1>2, Invariance, PTL DEF Spec, HistoryIsKept, Promise!Spec
=============================================================================
