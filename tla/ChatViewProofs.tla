---------------------------- MODULE ChatViewProofs ----------------------------
(***************************************************************************)
(* Theorems about ChatView for any conversations, loads, sends, page size  *)
(* and number of messages.                                                 *)
(***************************************************************************)
EXTENDS ChatViewInv, SequenceTheorems, TLAPS

(***************************************************************************)
(* The pane and the pages as sequences                                     *)
(***************************************************************************)

\* One entry on top moves the others down.
LEMMA OnTop ==
    ASSUME NEW q \in Seq(Entry), NEW e \in Entry
    PROVE  /\ <<e>> \o q \in Seq(Entry)
           /\ Len(<<e>> \o q) = Len(q) + 1
           /\ (<<e>> \o q)[1] = e
           /\ \A i \in 2..(Len(q) + 1) : i - 1 \in 1..Len(q) /\ (<<e>> \o q)[i] = q[i - 1]
  <1>1. <<e>> \in Seq(Entry) /\ Len(<<e>>) = 1 /\ <<e>>[1] = e
    OBVIOUS
  <1>2. Len(q) \in Nat
    OBVIOUS
  <1>3. /\ <<e>> \o q \in Seq(Entry)
        /\ Len(<<e>> \o q) = 1 + Len(q)
        /\ \A i \in 1 .. 1 + Len(q) : (<<e>> \o q)[i] = IF i <= 1 THEN <<e>>[i] ELSE q[i - 1]
    BY <1>1, ConcatProperties
  <1> QED BY <1>1, <1>2, <1>3

\* One entry below leaves the others in place.
LEMMA OnBottom ==
    ASSUME NEW q \in Seq(Entry), NEW e \in Entry
    PROVE  /\ Append(q, e) \in Seq(Entry)
           /\ Len(Append(q, e)) = Len(q) + 1
           /\ \A i \in 1..Len(q) : Append(q, e)[i] = q[i]
           /\ Append(q, e)[Len(q) + 1] = e
  BY AppendProperties

\* The rest of a page.
LEMMA RestOfPage ==
    ASSUME NEW p \in Seq(Place), p # <<>>
    PROVE  /\ Len(p) \in Nat \ {0} /\ Head(p) = p[1] /\ p[1] \in Place
           /\ Last(p) = p[Len(p)] /\ Last(p) \in Place
           /\ Tail(p) \in Seq(Place) /\ Len(Tail(p)) = Len(p) - 1
           /\ \A i \in 1..Len(Tail(p)) : Tail(p)[i] = p[i + 1]
           /\ Len(p) # 1 => Tail(p) # <<>> /\ Last(Tail(p)) = Last(p) /\ Tail(p)[1] = p[2]
  <1>1. Len(p) \in Nat \ {0}
    BY EmptySeq
  <1>2. Head(p) = p[1] /\ p[1] \in Place /\ Last(p) = p[Len(p)] /\ Last(p) \in Place
    BY <1>1 DEF Last
  <1>3. /\ Tail(p) \in Seq(Place) /\ Len(Tail(p)) = Len(p) - 1
        /\ \A i \in 1..Len(Tail(p)) : Tail(p)[i] = p[i + 1]
    BY HeadTailProperties
  <1>4. ASSUME Len(p) # 1
        PROVE  Tail(p) # <<>> /\ Last(Tail(p)) = Last(p) /\ Tail(p)[1] = p[2]
    <2>1. Len(Tail(p)) \in Nat \ {0}
      BY <1>1, <1>3, <1>4
    <2>2. Tail(p)[Len(Tail(p))] = p[Len(p)] /\ Tail(p)[1] = p[2]
      BY <1>1, <1>3, <2>1
    <2>3. Last(Tail(p)) = Last(p)
      BY <1>2, <2>2 DEF Last
    <2>4. Tail(p) # <<>>
      BY <2>1, EmptySeq
    <2> QED BY <2>2, <2>3, <2>4
  <1> QED BY <1>1, <1>2, <1>3, <1>4

\* The rest of an unbroken page is unbroken.
LEMMA RestIsUnbroken ==
    ASSUME NEW p \in Seq(Place), p # <<>>, Len(p) # 1,
           \A i \in 1..Len(p) : p[i] = p[1] + 1 - i
    PROVE  /\ p[2] = p[1] - 1 /\ p[1] = p[2] + 1
           /\ \A i \in 1..Len(Tail(p)) : /\ i + 1 \in 1..Len(p) /\ Tail(p)[i] = p[i + 1]
                                         /\ Tail(p)[i] = Tail(p)[1] + 1 - i
  <1>1. /\ Len(p) \in Nat \ {0} /\ Len(Tail(p)) = Len(p) - 1 /\ Tail(p)[1] = p[2]
        /\ \A i \in 1..Len(Tail(p)) : Tail(p)[i] = p[i + 1]
    BY RestOfPage
  <1>2. p[1] \in Nat
    BY RestOfPage DEF Place
  <1>3. 2 \in 1..Len(p)
    BY <1>1
  <1>4. p[2] = p[1] - 1
    BY <1>2, <1>3
  <1>5. ASSUME NEW i \in 1..Len(Tail(p))
        PROVE  i + 1 \in 1..Len(p) /\ Tail(p)[i] = p[i + 1] /\ p[i + 1] = p[1] - i
    <2>1. i + 1 \in 1..Len(p)
      BY <1>1
    <2>2. p[i + 1] = p[1] + 1 - (i + 1)
      BY <2>1
    <2> QED BY <1>1, <1>2, <2>1, <2>2
  <1>6. p[1] = p[2] + 1
    BY <1>2, <1>4
  <1>7. ASSUME NEW i \in 1..Len(Tail(p))
        PROVE  Tail(p)[i] = Tail(p)[1] + 1 - i
    <2>1. Tail(p)[i] = p[1] - i /\ Tail(p)[1] = p[1] - 1 /\ i \in Nat
      BY <1>1, <1>4, <1>5
    <2> QED BY <1>2, <2>1
  <1> QED BY <1>4, <1>5, <1>6, <1>7

\* A page: an unbroken stretch that ends below the cursor, or at the newest
\* message when there is none, and is empty only if nothing is there.
LEMMA PageIs ==
    ASSUME log \in [Conv -> Seq({"me", "peer"})], NEW c \in Conv, NEW before \in Nat,
           NEW p, p = Page(c, before)
    PROVE  /\ p \in Seq(Place)
           /\ \A i \in 1..Len(p) : p[i] = p[1] + 1 - i /\ p[i] <= Len(log[c])
           /\ p # <<>> => p[1] = IF before \in 1..Len(log[c]) THEN before - 1 ELSE Len(log[c])
           /\ p = <<>> => before = 1 \/ Len(log[c]) = 0
  <1> DEFINE below == IF before \in 1..Len(log[c]) THEN before - 1 ELSE Len(log[c])
             size == IF below < PageSize THEN below ELSE PageSize
  <1>1. Len(log[c]) \in Nat /\ PageSize \in Nat \ {0}
    BY ChatViewAssumption
  <1>2. below \in Nat /\ below <= Len(log[c]) /\ size \in Nat /\ size <= below
        /\ (size = 0 => below = 0)
    BY <1>1
  <1>3. p = [i \in 1..size |-> below + 1 - i]
    BY DEF Page
  <1> HIDE DEF below, size
  <1>4. \A i \in 1..size : below + 1 - i \in Place /\ below + 1 - i <= Len(log[c])
    BY <1>1, <1>2 DEF Place
  <1>5. p \in Seq(Place) /\ Len(p) = size
    BY <1>2, <1>3, <1>4
  <1>6. \A i \in 1..Len(p) : p[i] = below + 1 - i
    BY <1>3, <1>5
  <1>7. p # <<>> => size > 0 /\ p[1] = below
    BY <1>2, <1>5, <1>6, EmptySeq
  <1>8. p = <<>> => below = 0
    BY <1>2, <1>5
  <1>9. \A i \in 1..Len(p) : p[i] = p[1] + 1 - i /\ p[i] <= Len(log[c])
    BY <1>1, <1>2, <1>4, <1>5, <1>6
  <1>10. below = 0 => before = 1 \/ Len(log[c]) = 0
    BY <1>1 DEF below
  <1> QED BY <1>5, <1>7, <1>8, <1>9, <1>10 DEF below

\* A message more leaves the stored ones where they are.
LEMMA LogGrows ==
    ASSUME log \in [Conv -> Seq({"me", "peer"})], NEW c \in Conv, NEW who \in {"me", "peer"},
           log' = [log EXCEPT ![c] = Append(@, who)]
    PROVE  /\ log' \in [Conv -> Seq({"me", "peer"})]
           /\ \A d \in Conv : Len(log[d]) \in Nat /\ Len(log'[d]) \in Nat
                              /\ Len(log[d]) <= Len(log'[d])
           /\ \A d \in Conv : \A n \in 1..Len(log[d]) : log'[d][n] = log[d][n]
           /\ \A d \in Conv \ {c} : log'[d] = log[d]
           /\ Len(log'[c]) = Len(log[c]) + 1
           /\ log'[c][Len(log[c]) + 1] = who
  <1>1. log[c] \in Seq({"me", "peer"})
    OBVIOUS
  <1>2. /\ Append(log[c], who) \in Seq({"me", "peer"})
        /\ Len(Append(log[c], who)) = Len(log[c]) + 1
        /\ \A i \in 1..Len(log[c]) : Append(log[c], who)[i] = log[c][i]
        /\ Append(log[c], who)[Len(log[c]) + 1] = who
    BY <1>1, AppendProperties
  <1>3. log'[c] = Append(log[c], who) /\ \A d \in Conv \ {c} : log'[d] = log[d]
    OBVIOUS
  <1>4. log' \in [Conv -> Seq({"me", "peer"})]
    BY <1>2
  <1>5. \A d \in Conv : Len(log[d]) \in Nat /\ Len(log'[d]) \in Nat
    BY <1>4
  <1> QED BY <1>2, <1>3, <1>4, <1>5

(***************************************************************************)
(* What loads and sends carry                                              *)
(***************************************************************************)

LoadSet == {Idle} \cup Loading
SendSet == {Idle} \cup Sending

\* What a load carries.
LEMMA LoadAt ==
    ASSUME NEW j \in LoadSet
    PROVE  /\ Idle.at = "idle"
           /\ j.at \in {"key", "ask", "answered", "prepend"} => j # Idle
           /\ j # Idle => /\ j \in Loading
                          /\ j.at \in {"key", "ask", "answered", "prepend"}
                          /\ j.conv \in Conv /\ j.before \in Nat /\ j.page \in Seq(Place)
  BY DEF LoadSet, Loading, Idle, Place

\* What a send carries.
LEMMA SendAt ==
    ASSUME NEW j \in SendSet
    PROVE  /\ Idle.at = "idle"
           /\ j.at \in {"encrypt", "post", "posted"} => j # Idle
           /\ j # Idle => /\ j \in Sending
                          /\ j.at \in {"encrypt", "post", "posted"}
                          /\ j.for \in Conv /\ j.conv \in Conv \cup {NoConv} /\ j.place \in Nat
  BY DEF SendSet, Sending, Idle, Place

\* One load changes, the others keep their stages.
LEMMA OneLoadChanges ==
    ASSUME TypeOK, NEW l \in LoadCall, NEW j \in LoadSet, load' = [load EXCEPT ![l] = j]
    PROVE  /\ load' \in [LoadCall -> LoadSet]
           /\ load'[l] = j
           /\ \A k \in LoadCall : k # l => load'[k] = load[k]
  BY DEF TypeOK, LoadSet

\* One send changes, the others keep their stages.
LEMMA OneSendChanges ==
    ASSUME TypeOK, NEW s \in SendCall, NEW j \in SendSet, send' = [send EXCEPT ![s] = j]
    PROVE  /\ send' \in [SendCall -> SendSet]
           /\ send'[s] = j
           /\ \A t \in SendCall : t # s => send'[t] = send[t]
  BY DEF TypeOK, SendSet

\* What PagesAreUnbroken says of one load.
PageGood(j) ==
    /\ j.at \in {"key", "ask"} => j.page = <<>>
    /\ j.at = "prepend" => j.page # <<>>
    /\ \A i \in 1..Len(j.page) : j.page[i] = j.page[1] + 1 - i /\ j.page[i] <= Len(log[j.conv])

\* What NothingMissed says of one load: it brings message n, or an older one.
Loads(j, n) ==
    /\ j # Idle
    /\ \/ j.at \in {"key", "ask"} /\ j.before = 0
       \/ n \in Range(j.page)
       \/ j.page # <<>> /\ n < Last(j.page)

\* A page brings every message up to its first one, or one still older.
LEMMA PageCovers ==
    ASSUME NEW p \in Seq(Place), p # <<>>, \A i \in 1..Len(p) : p[i] = p[1] + 1 - i,
           NEW n \in Nat, n <= p[1]
    PROVE  n \in Range(p) \/ n < Last(p)
  <1>1. Len(p) \in Nat \ {0} /\ p[1] \in Nat /\ Last(p) = p[Len(p)]
    BY RestOfPage DEF Place
  <1>2. Last(p) = p[1] + 1 - Len(p)
    BY <1>1
  <1>3. CASE n >= Last(p)
    <2>1. p[1] + 1 - n \in 1..Len(p)
      BY <1>1, <1>2, <1>3
    <2>2. p[p[1] + 1 - n] = n
      BY <1>1, <2>1
    <2> QED BY <2>1, <2>2 DEF Range
  <1> QED BY <1>1, <1>2, <1>3

\* All messages of a page are as old as its first one or older.
LEMMA PageBounds ==
    ASSUME NEW p \in Seq(Place), \A i \in 1..Len(p) : p[i] = p[1] + 1 - i,
           NEW n \in Nat, n \in Range(p) \/ (p # <<>> /\ n < Last(p))
    PROVE  p # <<>> /\ n <= p[1]
  <1>1. CASE n \in Range(p)
    <2>1. PICK i \in 1..Len(p) : n = p[i]
      BY <1>1 DEF Range
    <2>2. p # <<>> /\ p[1] \in Nat
      BY <2>1, EmptySeq, ElementOfSeq DEF Place
    <2> QED BY <2>1, <2>2
  <1>2. CASE p # <<>> /\ n < Last(p)
    <2>1. Len(p) \in Nat \ {0} /\ p[1] \in Nat /\ Last(p) = p[Len(p)]
      BY <1>2, RestOfPage DEF Place
    <2>2. Last(p) = p[1] + 1 - Len(p)
      BY <2>1
    <2> QED BY <1>2, <2>1, <2>2
  <1> QED BY <1>1, <1>2

(***************************************************************************)
(* The inductive invariant: one lemma per kind of step                     *)
(***************************************************************************)

\* A load turns to its next stage and the pane stays as it is.
LEMMA LoadTurns ==
    ASSUME IInv, NEW l \in LoadCall, NEW j \in LoadSet, load' = [load EXCEPT ![l] = j],
           UNCHANGED <<log, transit, open, pane, decrypting, send, disturbed>>,
           oldest' \in Nat, failed' \in BOOLEAN, crossed' \subseteq Place,
           isLoadingMore' \in BOOLEAN,
           isLoadingMore' => isLoadingMore \/ (j # Idle /\ j.at # "key"),
           isLoadingMore' => (j # Idle /\ j.at # "key") \/ load[l] = Idle \/ load[l].at = "key",
           j # Idle => PageGood(j),
           Undisturbed => /\ \A k \in LoadCall : k # l => load[k] = Idle
                          /\ j # Idle => LoadContinues(l)'
                          /\ CursorIsTop',
           Undisturbed => \A n \in 1..Len(log[open]) : Arriving(n) =>
                \/ n \in crossed'
                \/ n \notin crossed /\ (j # Idle /\ j.page # <<>> => j.page[1] < n),
           (Undisturbed /\ ~failed') => ~failed /\ \A n \in 1..Len(log[open]) :
                Loads(load[l], n) \/ n < oldest => Loads(j, n) \/ n < oldest'
    PROVE  IInv'
  <1>1. /\ load' \in [LoadCall -> LoadSet]
        /\ load'[l] = j
        /\ \A k \in LoadCall : k # l => load'[k] = load[k]
    BY OneLoadChanges DEF IInv
  <1>2. TypeOK'
    BY <1>1 DEF IInv, TypeOK, LoadSet, Place
  <1>3. MessagesAreStored'
    BY DEF IInv, MessagesAreStored
  <1>4. PagesAreUnbroken'
    BY <1>1 DEF IInv, PagesAreUnbroken, PageGood
  <1>5. ASSUME isLoadingMore'
        PROVE  \E k \in LoadCall : load'[k] # Idle /\ load'[k].at # "key"
    <2>1. CASE j # Idle /\ j.at # "key"
      BY <1>1, <2>1
    <2>2. CASE ~(j # Idle /\ j.at # "key")
      <3>1. PICK k \in LoadCall : load[k] # Idle /\ load[k].at # "key"
        BY <1>5, <2>2 DEF IInv
      <3> QED BY <1>1, <1>5, <2>2, <3>1
    <2> QED BY <2>1, <2>2
  <1>6. ASSUME Undisturbed'
        PROVE  UndisturbedCourse'
    <2>1. Undisturbed /\ UndisturbedCourse
      BY <1>6 DEF Undisturbed, IInv
    <2>2. \A k \in LoadCall : k # l => load'[k] = Idle
      BY <1>1, <2>1
    <2>3. open' \in Conv /\ \A k, m \in LoadCall : load'[k] # Idle /\ load'[m] # Idle => k = m
      BY <2>1, <2>2 DEF UndisturbedCourse
    <2>4. \A k \in LoadCall : load'[k] # Idle => LoadContinues(k)'
      BY <1>1, <2>1, <2>2
    <2>5. PaneIsOrdered' /\ SendsAreToOpen'
      BY <2>1 DEF UndisturbedCourse, PaneIsOrdered, SendsAreToOpen
    <2>6. ShownIsThrough'
      BY <2>1 DEF UndisturbedCourse, ShownIsThrough
    <2>7. ArrivingIsYounger'
      <3> SUFFICES ASSUME NEW n \in 1..Len(log[open]), Arriving(n), n \notin crossed'
                   PROVE  /\ HasHistory => \A i \in 1..Len(pane) :
                                pane[i].from = "history" => pane[i].place < n
                          /\ \A k \in LoadCall : load'[k] # Idle /\ load'[k].page # <<>>
                                => load'[k].page[1] < n
        BY DEF ArrivingIsYounger, Arriving, HasHistory
      <3>1. n \notin crossed /\ (j # Idle /\ j.page # <<>> => j.page[1] < n)
        BY <2>1
      <3>2. HasHistory => \A i \in 1..Len(pane) : pane[i].from = "history" => pane[i].place < n
        BY <2>1, <3>1 DEF UndisturbedCourse, ArrivingIsYounger
      <3> QED BY <1>1, <2>2, <3>1, <3>2
    <2> QED BY <2>1, <2>3, <2>4, <2>5, <2>6, <2>7 DEF UndisturbedCourse
  <1>7. NothingMissed'
    <2> SUFFICES ASSUME Undisturbed, ~failed', NEW n \in 1..Len(log[open]), log[open][n] = "peer",
                        ~\E i \in 1..Len(pane) : pane[i].conv = open /\ pane[i].place = n,
                        <<open, n>> \notin transit \cup decrypting
                 PROVE  (\E k \in LoadCall : Loads(load'[k], n)) \/ n < oldest'
      BY DEF NothingMissed, Loads, Undisturbed
    <2>1. (\E k \in LoadCall : Loads(load[k], n)) \/ n < oldest
      BY DEF IInv, NothingMissed, Loads
    <2>2. \A k \in LoadCall : Loads(load[k], n) => k = l
      BY DEF Loads
    <2> QED BY <1>1, <2>1, <2>2
  <1> QED BY <1>2, <1>3, <1>4, <1>5, <1>6, <1>7 DEF IInv

\* What the invariant says of a load under way.
LEMMA LoadUnderWay ==
    ASSUME IInv, NEW l \in LoadCall, load[l] # Idle
    PROVE  /\ load[l] \in Loading /\ load[l].at \in {"key", "ask", "answered", "prepend"}
           /\ load[l].conv \in Conv /\ load[l].before \in Nat /\ load[l].page \in Seq(Place)
           /\ PageGood(load[l])
           /\ Undisturbed => /\ \A k \in LoadCall : k # l => load[k] = Idle
                             /\ LoadContinues(l) /\ UndisturbedCourse
  <1>1. load[l] \in LoadSet
    BY DEF IInv, TypeOK, LoadSet
  <1>2. PageGood(load[l])
    BY DEF IInv, PagesAreUnbroken, PageGood
  <1>3. Undisturbed => /\ \A k \in LoadCall : k # l => load[k] = Idle
                       /\ LoadContinues(l) /\ UndisturbedCourse
    BY DEF IInv, UndisturbedCourse
  <1> QED BY <1>1, <1>2, <1>3, LoadAt

\* The key of a group is there or not: the load goes on.
LEMMA LoadGroupKeyKeeps ==
    ASSUME IInv, NEW l \in LoadCall, LoadGroupKey(l)
    PROVE  IInv'
  <1> DEFINE j == [load[l] EXCEPT !.at = "ask"]
  <1>1. /\ load[l].at = "key" /\ load' = [load EXCEPT ![l] = j] /\ isLoadingMore' = TRUE
        /\ UNCHANGED <<log, transit, open, pane, oldest, decrypting, send, disturbed, failed, crossed>>
    BY DEF LoadGroupKey, history
  <1>2. load[l] \in LoadSet /\ load[l] # Idle
    BY <1>1, LoadAt DEF IInv, TypeOK, LoadSet, Idle
  <1>3. /\ load[l] \in Loading /\ load[l].before \in Nat /\ load[l].page \in Seq(Place)
        /\ PageGood(load[l])
        /\ Undisturbed => /\ \A k \in LoadCall : k # l => load[k] = Idle
                          /\ LoadContinues(l) /\ UndisturbedCourse
    BY <1>2, LoadUnderWay
  <1>4. /\ j \in Loading /\ j \in LoadSet /\ j # Idle
        /\ j.at = "ask" /\ j.conv = load[l].conv /\ j.before = load[l].before /\ j.page = load[l].page
    BY <1>3 DEF Loading, LoadSet, Idle
  <1> HIDE DEF j
  <1>5. load'[l] = j /\ \A k \in LoadCall : k # l => load'[k] = load[k]
    BY <1>1, <1>4, OneLoadChanges DEF IInv
  <1>6. j.page = <<>> /\ PageGood(j)
    BY <1>1, <1>3, <1>4 DEF PageGood
  <1>7. ASSUME Undisturbed
        PROVE  LoadContinues(l)' /\ CursorIsTop'
    <2>1. LoadContinues(l)'
      BY <1>1, <1>3, <1>4, <1>5, <1>7 DEF LoadContinues
    <2>2. \A k \in LoadCall : load[k].at # "prepend"
      BY <1>1, <1>3, <1>7 DEF Idle
    <2>3. CursorIsTop'
      BY <1>1, <1>3, <1>7, <2>2 DEF UndisturbedCourse, CursorIsTop, HasHistory
    <2> QED BY <2>1, <2>3
  <1>8. \A n : Loads(load[l], n) => Loads(j, n)
    BY <1>1, <1>4 DEF Loads
  <1>9. oldest' \in Nat /\ failed' \in BOOLEAN /\ crossed' \subseteq Place /\ isLoadingMore' \in BOOLEAN
    BY <1>1 DEF IInv, TypeOK, Place
  <1> QED BY <1>1, <1>3, <1>4, <1>6, <1>7, <1>8, <1>9, LoadTurns

\* The user scrolls up and no load is under way.
LEMMA HandleScrollHistoryKeeps ==
    ASSUME IInv, NEW l \in LoadCall, HandleScrollHistory(l)
    PROVE  IInv'
  <1> DEFINE j == [at |-> "ask", conv |-> open, before |-> oldest, page |-> <<>>]
  <1>1. /\ load[l] = Idle /\ load' = [load EXCEPT ![l] = j] /\ isLoadingMore' = TRUE
        /\ ~isLoadingMore /\ open # NoConv /\ oldest # 0
        /\ UNCHANGED <<log, transit, open, pane, oldest, decrypting, send, disturbed, failed, crossed>>
    BY DEF HandleScrollHistory, history
  <1>2. /\ j \in Loading /\ j \in LoadSet /\ j # Idle
        /\ j.at = "ask" /\ j.conv = open /\ j.before = oldest /\ j.page = <<>>
    BY <1>1 DEF IInv, TypeOK, Loading, LoadSet, Idle
  <1> HIDE DEF j
  <1>3. load'[l] = j /\ \A k \in LoadCall : k # l => load'[k] = load[k]
    BY <1>1, <1>2, OneLoadChanges DEF IInv
  <1>4. PageGood(j)
    BY <1>2, EmptySeq DEF PageGood
  <1>5. ASSUME Undisturbed
        PROVE  \A k \in LoadCall : load[k] = Idle
    <2>1. \A k \in LoadCall : load[k] # Idle => LoadContinues(k)
      BY <1>5 DEF IInv, UndisturbedCourse
    <2> QED BY <1>1, <2>1 DEF LoadContinues
  <1>6. ASSUME Undisturbed
        PROVE  LoadContinues(l)' /\ CursorIsTop'
    <2>1. LoadContinues(l)'
      BY <1>1, <1>2, <1>3 DEF LoadContinues
    <2>2. \A k \in LoadCall : load[k].at # "prepend"
      BY <1>5, <1>6 DEF Idle
    <2>3. CursorIsTop
      BY <1>6 DEF IInv, UndisturbedCourse
    <2>4. CursorIsTop'
      BY <1>1, <2>2, <2>3 DEF CursorIsTop, HasHistory
    <2> QED BY <2>1, <2>4
  <1>7. \A n : ~Loads(load[l], n)
    BY <1>1 DEF Loads
  <1>8. oldest' \in Nat /\ failed' \in BOOLEAN /\ crossed' \subseteq Place /\ isLoadingMore' \in BOOLEAN
    BY <1>1 DEF IInv, TypeOK, Place
  <1> QED BY <1>1, <1>2, <1>4, <1>5, <1>6, <1>7, <1>8, LoadTurns

\* The server answers.  What is on its way by then is younger than the page, or
\* crosses it when it is the first one.
LEMMA AnswerPageKeeps ==
    ASSUME IInv, NEW l \in LoadCall, AnswerPage(l)
    PROVE  IInv'
  <1> DEFINE c == load[l].conv
             p == Page(c, load[l].before)
             j == [load[l] EXCEPT !.at = "answered", !.page = p]
  <1>1. /\ load[l].at = "ask" /\ load' = [load EXCEPT ![l] = j]
        /\ crossed' = IF load[l].before = 0 /\ ~disturbed THEN OnTheirWay(c) ELSE crossed
        /\ UNCHANGED <<log, transit, open, pane, oldest, isLoadingMore, decrypting, send,
                       disturbed, failed>>
    BY DEF AnswerPage, session
  <1>2. load[l] \in LoadSet /\ load[l] # Idle
    BY <1>1, LoadAt DEF IInv, TypeOK, LoadSet, Idle
  <1>3. /\ load[l] \in Loading /\ c \in Conv /\ load[l].before \in Nat
        /\ PageGood(load[l])
        /\ Undisturbed => /\ \A k \in LoadCall : k # l => load[k] = Idle
                          /\ LoadContinues(l) /\ UndisturbedCourse
    BY <1>2, LoadUnderWay
  <1>4. log \in [Conv -> Seq({"me", "peer"})]
    BY DEF IInv, TypeOK
  <1>5. /\ p \in Seq(Place)
        /\ \A i \in 1..Len(p) : p[i] = p[1] + 1 - i /\ p[i] <= Len(log[c])
        /\ p # <<>> => p[1] = IF load[l].before \in 1..Len(log[c])
                              THEN load[l].before - 1 ELSE Len(log[c])
        /\ p = <<>> => load[l].before = 1 \/ Len(log[c]) = 0
    BY <1>3, <1>4, PageIs
  <1> HIDE DEF p
  <1>6. /\ j \in Loading /\ j \in LoadSet /\ j # Idle
        /\ j.at = "answered" /\ j.conv = c /\ j.before = load[l].before /\ j.page = p
    BY <1>3, <1>5 DEF Loading, LoadSet, Idle
  <1> HIDE DEF j
  <1>7. load'[l] = j /\ \A k \in LoadCall : k # l => load'[k] = load[k]
    BY <1>1, <1>6, OneLoadChanges DEF IInv
  <1>8. PageGood(j)
    BY <1>5, <1>6 DEF PageGood
  <1>9. ASSUME Undisturbed
        PROVE  /\ c = open /\ load[l].before = oldest /\ isLoadingMore /\ CursorIsTop
               /\ \A k \in LoadCall : load[k].at # "prepend"
               /\ Len(log[open]) \in Nat
               /\ p # <<>> /\ oldest # 0 => p[1] = oldest - 1
    <2>1. c = open /\ load[l].before = oldest /\ isLoadingMore /\ CursorIsTop
      BY <1>1, <1>3, <1>9 DEF LoadContinues, UndisturbedCourse
    <2>2. \A k \in LoadCall : load[k].at # "prepend"
      BY <1>1, <1>3, <1>9 DEF Idle
    <2>3. Len(log[open]) \in Nat
      BY <1>3, <1>4, <2>1
    <2>4. oldest # 0 => oldest \in 1..Len(log[open])
      BY <1>3, <2>1, <2>3 DEF CursorIsTop
    <2> QED BY <1>5, <2>1, <2>2, <2>3, <2>4
  <1>10. ASSUME Undisturbed
         PROVE  LoadContinues(l)' /\ CursorIsTop'
    <2>1. LoadContinues(l)'
      BY <1>1, <1>6, <1>7, <1>9, <1>10 DEF LoadContinues
    <2>2. CursorIsTop'
      BY <1>1, <1>9, <1>10 DEF CursorIsTop, HasHistory
    <2> QED BY <2>1, <2>2
  <1>11. ASSUME Undisturbed, NEW n \in 1..Len(log[open]), Arriving(n)
         PROVE  n \in crossed' \/ (n \notin crossed /\ (p # <<>> => p[1] < n))
    <2>1. CASE load[l].before = 0
      <3>1. crossed' = OnTheirWay(open)
        BY <1>1, <1>9, <1>11, <2>1 DEF Undisturbed
      <3>2. n \in OnTheirWay(open)
        BY <1>3, <1>11 DEF Arriving, OnTheirWay, UndisturbedCourse, SendsAreToOpen, PaneIsOrdered,
                           Idle
      <3> QED BY <3>1, <3>2
    <2>2. CASE load[l].before # 0
      <3>1. crossed' = crossed
        BY <1>1, <2>2
      <3>2. oldest # 0 /\ HasHistory /\ pane[1].place = oldest
        BY <1>9, <1>11, <2>2 DEF CursorIsTop
      <3>3. 1 \in 1..Len(pane) /\ pane[1].from = "history"
        BY <3>2 DEF HasHistory, IInv, TypeOK
      <3>4. n \in crossed \/ oldest < n
        BY <1>3, <1>11, <3>2, <3>3 DEF UndisturbedCourse, ArrivingIsYounger
      <3>5. oldest \in Nat /\ n \in Nat
        BY DEF IInv, TypeOK, Place
      <3> QED BY <1>9, <1>11, <3>1, <3>2, <3>4, <3>5
    <2> QED BY <2>1, <2>2
  <1>12. ASSUME Undisturbed, NEW n \in 1..Len(log[open]), Loads(load[l], n)
         PROVE  Loads(j, n)
    <2>1. load[l].page = <<>> /\ Range(load[l].page) = {}
      BY <1>1, <1>3 DEF PageGood, Range
    <2>2. load[l].before = 0
      BY <1>12, <2>1 DEF Loads
    <2>3. Len(log[open]) \in Nat /\ Len(log[open]) # 0
      BY <1>9, <1>12
    <2>4. p # <<>> /\ p[1] = Len(log[open])
      BY <1>5, <1>9, <1>12, <2>2, <2>3
    <2>5. n \in Range(p) \/ n < Last(p)
      BY <1>5, <2>3, <2>4, PageCovers
    <2> QED BY <1>6, <2>4, <2>5 DEF Loads
  <1>13. OnTheirWay(c) \subseteq Place /\ crossed \subseteq Place
    BY <1>3, <1>4 DEF OnTheirWay, IInv, TypeOK, Place
  <1>14. oldest' \in Nat /\ failed' \in BOOLEAN /\ crossed' \subseteq Place
         /\ isLoadingMore' \in BOOLEAN
    <2>1. oldest \in Nat /\ failed \in BOOLEAN /\ isLoadingMore \in BOOLEAN
      BY DEF IInv, TypeOK, Place
    <2>2. crossed' = OnTheirWay(c) \/ crossed' = crossed
      BY <1>1
    <2> QED BY <1>1, <1>13, <2>1, <2>2
  <1> QED BY <1>1, <1>3, <1>6, <1>8, <1>10, <1>11, <1>12, <1>14, LoadTurns

\* The answer arrives: the load ends, or the cursor moves to the end of the page.
LEMMA ReceivePageKeeps ==
    ASSUME IInv, NEW l \in LoadCall, ReceivePage(l)
    PROVE  IInv'
  <1> DEFINE p == load[l].page
  <1>1. /\ load[l].at = "answered"
        /\ UNCHANGED <<log, transit, open, pane, decrypting, send, disturbed, failed, crossed>>
    BY DEF ReceivePage, history
  <1>2. load[l] \in LoadSet /\ load[l] # Idle
    BY <1>1, LoadAt DEF IInv, TypeOK, LoadSet, Idle
  <1>3. /\ load[l] \in Loading /\ p \in Seq(Place)
        /\ PageGood(load[l])
        /\ Undisturbed => /\ \A k \in LoadCall : k # l => load[k] = Idle
                          /\ LoadContinues(l) /\ UndisturbedCourse
    BY <1>2, LoadUnderWay
  <1>4. failed' \in BOOLEAN /\ crossed' \subseteq Place /\ oldest \in Nat /\ isLoadingMore \in BOOLEAN
    BY <1>1 DEF IInv, TypeOK, Place
  <1>5. ASSUME Undisturbed
        PROVE  /\ CursorIsTop /\ isLoadingMore /\ load[l].conv = open
               /\ \A k \in LoadCall : load[k].at # "prepend"
               /\ p # <<>> /\ oldest # 0 => p[1] = oldest - 1
    BY <1>1, <1>3, <1>5 DEF UndisturbedCourse, LoadContinues, Idle
  <1>6. CASE p = <<>>
    <2>1. load' = [load EXCEPT ![l] = Idle] /\ isLoadingMore' = FALSE /\ oldest' = oldest
      BY <1>6 DEF ReceivePage, EndLoad
    <2>2. load'[l] = Idle /\ \A k \in LoadCall : k # l => load'[k] = load[k]
      BY <2>1, OneLoadChanges DEF IInv, LoadSet
    <2>3. Undisturbed => CursorIsTop'
      BY <1>1, <1>5, <2>1 DEF CursorIsTop, HasHistory
    <2>4. \A n : ~Loads(load[l], n)
      BY <1>1, <1>6 DEF Loads, Range
    <2>5. Idle \in LoadSet
      BY DEF LoadSet
    <2> QED BY <1>1, <1>3, <1>4, <2>1, <2>3, <2>4, <2>5, LoadTurns
  <1>7. CASE p # <<>>
    <2> DEFINE j == [load[l] EXCEPT !.at = "prepend"]
    <2>1. load' = [load EXCEPT ![l] = j] /\ isLoadingMore' = isLoadingMore /\ oldest' = Last(p)
      BY <1>7 DEF ReceivePage
    <2>2. /\ j \in Loading /\ j \in LoadSet /\ j # Idle
          /\ j.at = "prepend" /\ j.conv = load[l].conv /\ j.before = load[l].before /\ j.page = p
      BY <1>3 DEF Loading, LoadSet, Idle
    <2> HIDE DEF j
    <2>3. load'[l] = j /\ \A k \in LoadCall : k # l => load'[k] = load[k]
      BY <2>1, <2>2, OneLoadChanges DEF IInv
    <2>4. PageGood(j)
      BY <1>3, <1>7, <2>2 DEF PageGood
    <2>5. Len(p) \in Nat \ {0} /\ Last(p) = p[Len(p)] /\ Last(p) \in Nat \ {0} /\ p[1] \in Nat
      BY <1>3, <1>7, RestOfPage DEF Place
    <2>6. ASSUME Undisturbed
          PROVE  LoadContinues(l)' /\ CursorIsTop'
      <3>1. HasHistory => pane[1].place = p[1] + 1
        BY <1>4, <1>5, <1>7, <2>5, <2>6 DEF CursorIsTop
      <3>2. LoadContinues(l)'
        BY <1>1, <1>5, <2>1, <2>2, <2>3, <2>6, <3>1 DEF LoadContinues, HasHistory
      <3>3. Last(p) <= Len(log[open])
        BY <1>3, <1>5, <2>5, <2>6 DEF PageGood
      <3>4. open \in Conv /\ log \in [Conv -> Seq({"me", "peer"})]
        BY <1>3, <2>6 DEF UndisturbedCourse, IInv, TypeOK
      <3>5. oldest' \in 0..Len(log'[open']) /\ oldest' # 0
        BY <1>1, <2>1, <2>5, <3>3, <3>4
      <3>6. CursorIsTop'
        BY <2>2, <2>3, <3>5 DEF CursorIsTop
      <3> QED BY <3>2, <3>6
    <2>7. ASSUME Undisturbed, NEW n \in 1..Len(log[open]), Arriving(n), n \notin crossed
          PROVE  p[1] < n
      BY <1>2, <1>3, <1>7, <2>7 DEF UndisturbedCourse, ArrivingIsYounger
    <2>8. ASSUME Undisturbed, NEW n \in 1..Len(log[open]), Loads(load[l], n) \/ n < oldest
          PROVE  Loads(j, n)
      <3>1. CASE Loads(load[l], n)
        BY <1>1, <2>2, <3>1 DEF Loads
      <3>2. CASE n < oldest
        <4>1. n \in Nat /\ n <= p[1]
          BY <1>4, <1>5, <1>7, <2>5, <2>8, <3>2
        <4>2. n \in Range(p) \/ n < Last(p)
          BY <1>3, <1>7, <4>1, PageCovers DEF PageGood
        <4> QED BY <1>7, <2>2, <4>2 DEF Loads
      <3> QED BY <2>8, <3>1, <3>2
    <2>9. oldest' \in Nat /\ isLoadingMore' \in BOOLEAN
      BY <1>4, <2>1, <2>5
    <2>10. Undisturbed => \A n \in 1..Len(log[open]) : Arriving(n) =>
              n \in crossed' \/ (n \notin crossed /\ (j # Idle /\ j.page # <<>> => j.page[1] < n))
      BY <1>1, <2>2, <2>7
    <2>11. (Undisturbed /\ ~failed') => ~failed /\ \A n \in 1..Len(log[open]) :
              Loads(load[l], n) \/ n < oldest => Loads(j, n) \/ n < oldest'
      BY <1>1, <2>8
    <2> QED BY <1>1, <1>3, <1>4, <2>1, <2>2, <2>4, <2>6, <2>9, <2>10, <2>11, LoadTurns
  <1> QED BY <1>6, <1>7

\* A load that fails before its page is shown leaves the pane as it was; only
\* the first one takes the history with it.
LEMMA LoadFailsKeeps ==
    ASSUME IInv, NEW l \in LoadCall, LoadFails(l)
    PROVE  IInv'
  <1> DEFINE p == load[l].page
  <1>1. /\ load[l].at \in {"ask", "answered"}
        /\ load' = [load EXCEPT ![l] = Idle] /\ isLoadingMore' = FALSE
        /\ failed' = (failed \/ (load[l].before = 0 /\ ~disturbed))
        /\ UNCHANGED <<log, transit, open, pane, oldest, decrypting, send, disturbed, crossed>>
    BY DEF LoadFails, EndLoad
  <1>2. load[l] \in LoadSet /\ load[l] # Idle /\ Idle \in LoadSet
    BY <1>1, LoadAt DEF IInv, TypeOK, LoadSet, Idle
  <1>3. /\ p \in Seq(Place) /\ PageGood(load[l])
        /\ Undisturbed => /\ \A k \in LoadCall : k # l => load[k] = Idle
                          /\ LoadContinues(l) /\ UndisturbedCourse
    BY <1>2, LoadUnderWay
  <1>4. oldest' \in Nat /\ failed' \in BOOLEAN /\ crossed' \subseteq Place
    BY <1>1 DEF IInv, TypeOK, Place
  <1>5. ASSUME Undisturbed
        PROVE  CursorIsTop'
    <2>1. CursorIsTop /\ \A k \in LoadCall : load[k].at # "prepend"
      BY <1>1, <1>3, <1>5 DEF UndisturbedCourse, Idle
    <2> QED BY <1>1, <2>1 DEF CursorIsTop, HasHistory
  <1>6. ASSUME Undisturbed, ~failed', NEW n \in 1..Len(log[open]), Loads(load[l], n)
        PROVE  n < oldest
    <2>1. load[l].before # 0 /\ load[l].before = oldest
      BY <1>1, <1>3, <1>6 DEF Undisturbed, LoadContinues
    <2>2. n \in Range(p) \/ (p # <<>> /\ n < Last(p))
      BY <1>6, <2>1 DEF Loads
    <2>3. p # <<>> /\ n <= p[1]
      BY <1>3, <2>2, PageBounds DEF PageGood
    <2>4. load[l].at = "answered"
      BY <1>1, <1>3, <2>3 DEF PageGood
    <2>5. p[1] = oldest - 1
      BY <1>3, <1>6, <2>1, <2>3, <2>4 DEF LoadContinues
    <2> QED BY <1>1, <1>4, <2>3, <2>5
  <1>7. (Undisturbed /\ ~failed') => ~failed /\ \A n \in 1..Len(log[open]) :
            Loads(load[l], n) \/ n < oldest => Loads(Idle, n) \/ n < oldest'
    BY <1>1, <1>6 DEF Undisturbed
  <1> QED BY <1>1, <1>2, <1>3, <1>4, <1>5, <1>7, LoadTurns

\* A message of the page goes on top: it is one place above the topmost one.
LEMMA PrependMessageKeeps ==
    ASSUME IInv, NEW l \in LoadCall, PrependMessage(l)
    PROVE  IInv'
  <1> DEFINE p == load[l].page
             e == [conv |-> load[l].conv, place |-> Head(p), from |-> "history"]
             j == IF Len(p) = 1 THEN Idle ELSE [load[l] EXCEPT !.page = Tail(p)]
  <1>1. /\ load[l].at = "prepend" /\ pane' = <<e>> \o pane
        /\ load' = [load EXCEPT ![l] = j]
        /\ isLoadingMore' = IF Len(p) = 1 THEN FALSE ELSE isLoadingMore
        /\ UNCHANGED <<log, transit, open, oldest, decrypting, send, disturbed, failed, crossed>>
    BY DEF PrependMessage, EndLoad, history
  <1>2. load[l] \in LoadSet /\ load[l] # Idle
    BY <1>1, LoadAt DEF IInv, TypeOK, LoadSet, Idle
  <1>3. /\ load[l] \in Loading /\ load[l].conv \in Conv /\ p \in Seq(Place)
        /\ PageGood(load[l])
        /\ Undisturbed => /\ \A k \in LoadCall : k # l => load[k] = Idle
                          /\ LoadContinues(l) /\ UndisturbedCourse
    BY <1>2, LoadUnderWay
  <1>4. /\ p # <<>> /\ \A i \in 1..Len(p) : p[i] = p[1] + 1 - i /\ p[i] <= Len(log[load[l].conv])
    BY <1>1, <1>3 DEF PageGood
  <1>5. /\ Len(p) \in Nat \ {0} /\ Head(p) = p[1] /\ p[1] \in Place
        /\ Last(p) = p[Len(p)] /\ Last(p) \in Place
        /\ Tail(p) \in Seq(Place) /\ Len(Tail(p)) = Len(p) - 1
        /\ \A i \in 1..Len(Tail(p)) : Tail(p)[i] = p[i + 1]
        /\ Len(p) # 1 => Tail(p) # <<>> /\ Last(Tail(p)) = Last(p) /\ Tail(p)[1] = p[2]
    BY <1>3, <1>4, RestOfPage
  <1>6. /\ j \in LoadSet
        /\ Len(p) = 1 => j = Idle
        /\ Len(p) # 1 => /\ j \in Loading /\ j # Idle /\ j.at = "prepend"
                         /\ j.conv = load[l].conv /\ j.before = load[l].before /\ j.page = Tail(p)
    BY <1>1, <1>3, <1>5 DEF Loading, LoadSet, Idle
  <1>7. e \in Entry /\ e.conv = load[l].conv /\ e.place = p[1] /\ e.from = "history"
    BY <1>3, <1>5 DEF Entry
  <1> HIDE DEF j, e
  <1>8. /\ load' \in [LoadCall -> LoadSet]
        /\ load'[l] = j
        /\ \A k \in LoadCall : k # l => load'[k] = load[k]
    BY <1>1, <1>6, OneLoadChanges DEF IInv
  <1>9. pane \in Seq(Entry) /\ Len(pane) \in Nat
    BY DEF IInv, TypeOK
  <1>10. /\ pane' \in Seq(Entry) /\ Len(pane') = Len(pane) + 1 /\ pane'[1] = e
         /\ \A i \in 2..(Len(pane) + 1) : i - 1 \in 1..Len(pane) /\ pane'[i] = pane[i - 1]
    BY <1>1, <1>7, <1>9, OnTop
  <1>11. \A i \in 1..Len(pane') : i = 1 \/ (i \in 2..(Len(pane) + 1))
    BY <1>9, <1>10
  <1>12. TypeOK'
    BY <1>1, <1>8, <1>10 DEF IInv, TypeOK, LoadSet
  <1>13. MessagesAreStored'
    BY <1>1 DEF IInv, MessagesAreStored
  <1>14. PagesAreUnbroken'
    <2>1. ASSUME Len(p) # 1
          PROVE  \A i \in 1..Len(j.page) : j.page[i] = j.page[1] + 1 - i
                                            /\ j.page[i] <= Len(log[j.conv])
      <3>1. \A i \in 1..Len(Tail(p)) : /\ i + 1 \in 1..Len(p) /\ Tail(p)[i] = p[i + 1]
                                       /\ Tail(p)[i] = Tail(p)[1] + 1 - i
        BY <1>3, <1>4, <2>1, RestIsUnbroken
      <3>2. \A i \in 1..Len(Tail(p)) : Tail(p)[i] <= Len(log[load[l].conv])
        BY <1>4, <3>1
      <3> QED BY <1>6, <2>1, <3>1, <3>2
    <2> QED BY <1>1, <1>5, <1>6, <1>8, <2>1 DEF IInv, PagesAreUnbroken
  <1>15. ASSUME isLoadingMore'
         PROVE  \E k \in LoadCall : load'[k] # Idle /\ load'[k].at # "key"
    BY <1>1, <1>6, <1>8, <1>15
  <1>16. ASSUME Undisturbed
         PROVE  /\ load[l].conv = open /\ Last(p) = oldest /\ isLoadingMore
                /\ HasHistory => pane[1].place = p[1] + 1
                /\ oldest \in 0..Len(log[open]) /\ oldest # 0
    BY <1>1, <1>3, <1>5, <1>16 DEF LoadContinues, UndisturbedCourse, CursorIsTop, Place
  <1>17. ASSUME Undisturbed'
         PROVE  UndisturbedCourse'
    <2>1. Undisturbed
      BY <1>1, <1>17 DEF Undisturbed
    <2>2. \A k \in LoadCall : k # l => load'[k] = Idle
      BY <1>3, <1>8, <2>1
    <2>3. open' \in Conv /\ \A k, m \in LoadCall : load'[k] # Idle /\ load'[m] # Idle => k = m
      BY <1>1, <1>3, <2>1, <2>2 DEF UndisturbedCourse
    <2>4. HasHistory' /\ pane'[1].place = p[1]
      BY <1>7, <1>9, <1>10 DEF HasHistory
    <2>5. ASSUME NEW k \in LoadCall, load'[k] # Idle
          PROVE  LoadContinues(k)'
      <3>1. k = l /\ Len(p) # 1
        BY <1>6, <1>8, <2>2, <2>5
      <3>2. p[1] = p[2] + 1
        BY <1>3, <1>4, <3>1, RestIsUnbroken
      <3> QED BY <1>1, <1>5, <1>6, <1>8, <1>16, <2>1, <2>4, <3>1, <3>2 DEF LoadContinues
    <2>6. CursorIsTop'
      <3>1. CASE Len(p) = 1
        BY <1>1, <1>5, <1>16, <2>1, <2>4, <3>1 DEF CursorIsTop
      <3>2. CASE Len(p) # 1
        BY <1>1, <1>6, <1>8, <1>16, <2>1, <3>2 DEF CursorIsTop
      <3> QED BY <3>1, <3>2
    <2>7. PaneIsOrdered'
      <3> SUFFICES ASSUME NEW i \in 1..Len(pane')
                   PROVE  /\ pane'[i].conv = open
                          /\ pane'[i].place <= Len(log[open])
                          /\ pane'[i].from = "history" =>
                              /\ \A k \in 1..i : pane'[k].from = "history"
                              /\ pane'[i].place = pane'[1].place + i - 1
        BY <1>1 DEF PaneIsOrdered
      <3>1. CASE i = 1
        <4>1. p[1] <= Len(log[open]) /\ p[1] \in Nat
          BY <1>4, <1>5, <1>16, <2>1 DEF Place
        <4>2. pane'[i] = e /\ \A k \in 1..i : k = 1
          BY <1>10, <3>1
        <4> QED BY <1>7, <1>10, <1>16, <2>1, <3>1, <4>1, <4>2
      <3>2. CASE i \in 2..(Len(pane) + 1)
        <4>1. i - 1 \in 1..Len(pane) /\ pane'[i] = pane[i - 1]
          BY <1>10, <3>2
        <4>2. /\ pane[i - 1].conv = open /\ pane[i - 1].place <= Len(log[open])
              /\ pane[i - 1].from = "history" =>
                    /\ \A k \in 1..(i - 1) : pane[k].from = "history"
                    /\ pane[i - 1].place = pane[1].place + (i - 1) - 1
          BY <1>3, <2>1, <4>1 DEF UndisturbedCourse, PaneIsOrdered
        <4>3. ASSUME pane[i - 1].from = "history"
              PROVE  /\ \A k \in 1..i : pane'[k].from = "history"
                     /\ pane'[i].place = pane'[1].place + i - 1
          <5>1. ASSUME NEW k \in 1..i, k # 1
                PROVE  k - 1 \in 1..(i - 1) /\ pane'[k] = pane[k - 1]
            BY <1>10, <3>2, <5>1
          <5>2. \A k \in 1..i : pane'[k].from = "history"
            BY <1>7, <1>10, <4>2, <4>3, <5>1
          <5>3. HasHistory
            BY <1>9, <4>1, <4>2, <4>3 DEF HasHistory
          <5>4. pane[1].place = p[1] + 1
            BY <1>16, <2>1, <5>3
          <5>5. pane'[i].place = p[1] + 1 + (i - 1) - 1 /\ pane'[1].place = p[1] /\ p[1] \in Nat
            BY <1>5, <1>7, <1>10, <4>1, <4>2, <4>3, <5>4 DEF Place
          <5>6. i \in Nat
            BY <1>9, <3>2
          <5>7. \A q \in Nat : q + 1 + (i - 1) - 1 = q + i - 1
            BY <5>6
          <5>8. pane'[i].place = pane'[1].place + i - 1
            BY ONLY <5>5, <5>7
          <5> QED BY <5>2, <5>8
        <4> QED BY <4>1, <4>2, <4>3
      <3> QED BY <1>11, <3>1, <3>2
    <2>8. SendsAreToOpen'
      BY <1>1, <1>3, <2>1 DEF UndisturbedCourse, SendsAreToOpen
    <2>9. \A i \in 1..Len(pane') : pane'[i].from # "history" =>
              i \in 2..(Len(pane) + 1) /\ i - 1 \in 1..Len(pane) /\ pane'[i] = pane[i - 1]
      BY <1>7, <1>10, <1>11
    <2>10. ShownIsThrough'
      <3> SUFFICES ASSUME NEW i \in 1..Len(pane'), pane'[i].from # "history"
                   PROVE  /\ \A k \in 1..Len(pane') : pane'[k].from # "history"
                                /\ pane'[k].place = pane'[i].place => k = i
                          /\ <<open, pane'[i].place>> \notin transit \cup decrypting
                          /\ \A s \in SendCall : send[s].at = "posted" =>
                                send[s].place # pane'[i].place
        BY <1>1 DEF ShownIsThrough
      <3>1. ShownIsThrough /\ i - 1 \in 1..Len(pane) /\ pane'[i] = pane[i - 1]
        BY <1>3, <2>1, <2>9 DEF UndisturbedCourse
      <3>2. ASSUME NEW k \in 1..Len(pane'), pane'[k].from # "history", pane'[k].place = pane'[i].place
            PROVE  k = i
        <4>1. k - 1 \in 1..Len(pane) /\ pane'[k] = pane[k - 1]
          BY <2>9, <3>2
        <4>2. k - 1 = i - 1
          BY <3>1, <3>2, <4>1 DEF ShownIsThrough
        <4> QED BY <4>2
      <3> QED BY <3>1, <3>2 DEF ShownIsThrough
    <2>11. ArrivingIsYounger'
      <3> SUFFICES ASSUME NEW n \in 1..Len(log[open]), Arriving(n)', n \notin crossed
                   PROVE  /\ \A i \in 1..Len(pane') : pane'[i].from = "history" => pane'[i].place < n
                          /\ \A k \in LoadCall : load'[k] # Idle /\ load'[k].page # <<>>
                                => load'[k].page[1] < n
        BY <1>1 DEF ArrivingIsYounger
      <3>1. Arriving(n)
        BY <1>1, <2>9 DEF Arriving
      <3>2. /\ HasHistory => \A i \in 1..Len(pane) : pane[i].from = "history" => pane[i].place < n
            /\ p[1] < n
        BY <1>2, <1>3, <1>4, <2>1, <3>1 DEF UndisturbedCourse, ArrivingIsYounger
      <3>3. ASSUME NEW i \in 1..Len(pane'), pane'[i].from = "history"
            PROVE  pane'[i].place < n
        <4>1. CASE i = 1
          BY <1>7, <1>10, <3>2, <4>1
        <4>2. CASE i \in 2..(Len(pane) + 1)
          <5>1. i - 1 \in 1..Len(pane) /\ pane'[i] = pane[i - 1]
            BY <1>10, <4>2
          <5>2. \A k \in 1..(i - 1) : pane[k].from = "history"
            BY <1>3, <2>1, <3>3, <5>1 DEF UndisturbedCourse, PaneIsOrdered
          <5>3. HasHistory
            BY <1>9, <5>1, <5>2 DEF HasHistory
          <5> QED BY <3>2, <3>3, <5>1, <5>3
        <4> QED BY <1>11, <4>1, <4>2
      <3>4. ASSUME NEW k \in LoadCall, load'[k] # Idle
            PROVE  load'[k].page[1] < n
        <4>1. k = l /\ Len(p) # 1
          BY <1>6, <1>8, <2>2, <3>4
        <4>2. load'[k].page[1] = p[2] /\ p[2] = p[1] - 1
          BY <1>3, <1>4, <1>5, <1>6, <1>8, <4>1, RestIsUnbroken
        <4> QED BY <1>5, <3>2, <4>2 DEF Place
      <3> QED BY <3>3, <3>4
    <2> QED BY <2>3, <2>5, <2>6, <2>7, <2>8, <2>10, <2>11 DEF UndisturbedCourse
  <1>18. NothingMissed'
    <2> SUFFICES ASSUME Undisturbed, ~failed, NEW n \in 1..Len(log[open]), log[open][n] = "peer",
                        ~\E i \in 1..Len(pane') : pane'[i].conv = open /\ pane'[i].place = n,
                        <<open, n>> \notin transit \cup decrypting
                 PROVE  (\E k \in LoadCall : Loads(load'[k], n)) \/ n < oldest
      BY <1>1 DEF NothingMissed, Loads, Undisturbed
    <2>1. ~\E i \in 1..Len(pane) : pane[i].conv = open /\ pane[i].place = n
      <3> SUFFICES ASSUME NEW i \in 1..Len(pane)
                   PROVE  i + 1 \in 1..Len(pane') /\ pane'[i + 1] = pane[i]
        OBVIOUS
      <3>1. i + 1 \in 2..(Len(pane) + 1) /\ (i + 1) - 1 = i
        BY <1>9
      <3> QED BY <1>9, <1>10, <3>1
    <2>2. (\E k \in LoadCall : Loads(load[k], n)) \/ n < oldest
      BY <2>1 DEF IInv, NothingMissed, Loads
    <2>3. CASE n < oldest
      BY <2>3
    <2>4. CASE \E k \in LoadCall : Loads(load[k], n)
      <3>1. Loads(load[l], n)
        BY <1>3, <2>4 DEF Loads
      <3>2. n \in Range(p) \/ n < Last(p)
        BY <1>1, <3>1 DEF Loads
      <3>3. CASE n < Last(p)
        BY <1>16, <3>3
      <3>4. CASE n \in Range(p)
        <4>1. PICK i \in 1..Len(p) : n = p[i]
          BY <3>4 DEF Range
        <4>2. n # p[1]
          BY <1>7, <1>9, <1>10, <1>16
        <4>3. i - 1 \in 1..Len(Tail(p)) /\ Tail(p)[i - 1] = n /\ Len(p) # 1
          BY <1>5, <4>1, <4>2
        <4>4. n \in Range(Tail(p)) /\ j.page = Tail(p)
          <5>1. DOMAIN Tail(p) = 1..Len(Tail(p))
            BY <1>5
          <5> QED BY <1>6, <4>3, <5>1 DEF Range
        <4>5. Loads(j, n)
          BY <1>6, <4>3, <4>4 DEF Loads
        <4> QED BY <1>8, <4>5
      <3> QED BY <3>2, <3>3, <3>4
    <2> QED BY <2>2, <2>3, <2>4
  <1> QED BY <1>12, <1>13, <1>14, <1>15, <1>17, <1>18 DEF IInv

\* A conversation is opened: an empty pane, and its first load.
LEMMA OpenConversationKeeps ==
    ASSUME IInv, NEW l \in LoadCall, NEW c \in Conv, OpenConversation(l, c)
    PROVE  IInv'
  <1>1. PICK at \in {"key", "ask"} :
            /\ load' = [load EXCEPT ![l] = [at |-> at, conv |-> c, before |-> 0, page |-> <<>>]]
            /\ isLoadingMore' = (at = "ask" \/ isLoadingMore)
    BY DEF OpenConversation
  <1> DEFINE j == [at |-> at, conv |-> c, before |-> 0, page |-> <<>>]
  <1>2. /\ load[l] = Idle /\ open' = c /\ pane' = <<>> /\ oldest' = 0
        /\ disturbed' = CallsInFlight /\ failed' = FALSE /\ crossed' = {}
        /\ UNCHANGED <<log, transit, decrypting, send>>
    BY DEF OpenConversation
  <1>3. /\ j \in Loading /\ j \in LoadSet /\ j # Idle
        /\ j.at = at /\ j.conv = c /\ j.before = 0 /\ j.page = <<>>
    BY DEF Loading, LoadSet, Idle
  <1> HIDE DEF j
  <1>4. /\ load' \in [LoadCall -> LoadSet]
        /\ load'[l] = j
        /\ \A k \in LoadCall : k # l => load'[k] = load[k]
    BY <1>1, <1>3, OneLoadChanges DEF IInv, j
  <1>5. TypeOK'
    <2>1. disturbed' \in BOOLEAN
      BY <1>2 DEF CallsInFlight
    <2>2. isLoadingMore' \in BOOLEAN
      BY <1>1
    <2>3. pane' \in Seq(Entry) /\ oldest' \in Place \cup {0} /\ open' \in Conv \cup {NoConv}
      BY <1>2
    <2> QED BY <1>2, <1>4, <2>1, <2>2, <2>3 DEF IInv, TypeOK, LoadSet
  <1>6. MessagesAreStored'
    BY <1>2 DEF IInv, MessagesAreStored
  <1>7. PagesAreUnbroken'
    BY <1>2, <1>3, <1>4 DEF IInv, PagesAreUnbroken
  <1>8. ASSUME isLoadingMore'
        PROVE  \E k \in LoadCall : load'[k] # Idle /\ load'[k].at # "key"
    <2>1. CASE at = "ask"
      BY <1>3, <1>4, <2>1
    <2>2. CASE isLoadingMore
      <3>1. PICK k \in LoadCall : load[k] # Idle /\ load[k].at # "key"
        BY <2>2 DEF IInv
      <3> QED BY <1>2, <1>4, <3>1
    <2> QED BY <1>1, <1>8, <2>1, <2>2
  <1>9. ASSUME Undisturbed'
        PROVE  UndisturbedCourse'
    <2>1. /\ \A k \in LoadCall : load[k] = Idle
          /\ \A s \in SendCall : send[s] = Idle
      BY <1>2, <1>9 DEF Undisturbed, CallsInFlight
    <2>2. \A k \in LoadCall : k # l => load'[k] = Idle
      BY <1>4, <2>1
    <2>3. \A k \in LoadCall : load'[k] # Idle => LoadContinues(k)'
      BY <1>1, <1>2, <1>3, <1>4, <2>2 DEF LoadContinues
    <2>4. Len(pane') = 0 /\ Len(log'[c]) \in Nat
      BY <1>2, <1>5 DEF TypeOK
    <2>5. CursorIsTop'
      BY <1>2, <2>4 DEF CursorIsTop, HasHistory
    <2>6. PaneIsOrdered' /\ ShownIsThrough'
      BY <2>4 DEF PaneIsOrdered, ShownIsThrough
    <2>7. SendsAreToOpen'
      BY <1>2, <2>1 DEF SendsAreToOpen
    <2>8. ArrivingIsYounger'
      BY <1>3, <1>4, <2>2, <2>4 DEF ArrivingIsYounger, HasHistory
    <2> QED BY <1>2, <2>2, <2>3, <2>5, <2>6, <2>7, <2>8 DEF UndisturbedCourse
  <1>10. NothingMissed'
    BY <1>3, <1>4 DEF NothingMissed
  <1> QED BY <1>5, <1>6, <1>7, <1>8, <1>9, <1>10 DEF IInv

\* A message of the open conversation that is to be appended.
Coming(n) ==
    \/ <<open, n>> \in transit \cup decrypting
    \/ \E s \in SendCall : send[s].at = "posted" /\ send[s].place = n

\* Calls go on, and nothing is shown.
LEMMA PaneStays ==
    ASSUME IInv, UNCHANGED <<log, open, pane, oldest, isLoadingMore, load, history>>,
           transit' \subseteq Message, decrypting' \subseteq Message,
           send' \in [SendCall -> SendSet],
           MessagesAreStored', Undisturbed => SendsAreToOpen',
           \A n : Coming(n)' => Coming(n),
           \A n : <<open, n>> \in transit \cup decrypting => <<open, n>> \in (transit \cup decrypting)'
    PROVE  IInv'
  <1>1. UNCHANGED <<disturbed, failed, crossed>>
    BY DEF history
  <1>2. TypeOK'
    BY <1>1 DEF IInv, TypeOK, SendSet
  <1>3. PagesAreUnbroken' /\ (isLoadingMore' => \E l \in LoadCall : load'[l] # Idle /\ load'[l].at # "key")
    BY DEF IInv, PagesAreUnbroken
  <1>4. ASSUME Undisturbed'
        PROVE  UndisturbedCourse'
    <2>1. Undisturbed /\ UndisturbedCourse
      BY <1>1, <1>4 DEF Undisturbed, IInv
    <2>2. \A l \in LoadCall : load'[l] # Idle => LoadContinues(l)'
      BY <2>1 DEF UndisturbedCourse, LoadContinues, HasHistory
    <2>3. CursorIsTop' /\ PaneIsOrdered'
      BY <2>1 DEF UndisturbedCourse, CursorIsTop, HasHistory, PaneIsOrdered
    <2>4. ShownIsThrough'
      <3>1. \A i \in 1..Len(pane) : pane[i].from # "history" => ~Coming(pane[i].place)
        BY <2>1 DEF UndisturbedCourse, ShownIsThrough, Coming
      <3>2. \A i \in 1..Len(pane) : pane[i].from # "history" => ~Coming(pane[i].place)'
        BY <3>1
      <3> QED BY <2>1, <3>2 DEF UndisturbedCourse, ShownIsThrough, Coming
    <2>5. \A n : Arriving(n)' => Arriving(n)
      BY DEF Arriving, Coming
    <2>6. ArrivingIsYounger'
      BY <1>1, <2>1, <2>5 DEF UndisturbedCourse, ArrivingIsYounger, HasHistory
    <2> QED BY <2>1, <2>2, <2>3, <2>4, <2>6 DEF UndisturbedCourse
  <1>5. NothingMissed'
    <2> SUFFICES ASSUME Undisturbed, ~failed, NEW n \in 1..Len(log[open]), log[open][n] = "peer",
                        ~\E i \in 1..Len(pane) : pane[i].conv = open /\ pane[i].place = n,
                        <<open, n>> \notin transit \cup decrypting
                 PROVE  (\E k \in LoadCall : Loads(load[k], n)) \/ n < oldest
      BY <1>1 DEF NothingMissed, Loads, Undisturbed
    <2> QED BY DEF IInv, NothingMissed, Loads
  <1> QED BY <1>2, <1>3, <1>4, <1>5 DEF IInv

\* Something that was to come is appended to the pane.
LEMMA PaneGrows ==
    ASSUME IInv, NEW e \in Entry, e.from # "history", pane' = Append(pane, e),
           UNCHANGED <<log, open, oldest, isLoadingMore, load, failed, disturbed>>,
           UNCHANGED crossed,
           transit' \subseteq Message, decrypting' \subseteq Message,
           send' \in [SendCall -> SendSet],
           MessagesAreStored', Undisturbed => SendsAreToOpen',
           Undisturbed => e.conv = open /\ e.place \in 1..Len(log[open])
                          /\ Coming(e.place) /\ ~Coming(e.place)',
           \A n : Coming(n)' => Coming(n),
           Undisturbed => \A n : <<open, n>> \in transit \cup decrypting =>
                              n = e.place \/ <<open, n>> \in (transit \cup decrypting)'
    PROVE  IInv'
  <1>1. pane \in Seq(Entry) /\ Len(pane) \in Nat
    BY DEF IInv, TypeOK
  <1>2. /\ pane' \in Seq(Entry) /\ Len(pane') = Len(pane) + 1
        /\ \A i \in 1..Len(pane) : pane'[i] = pane[i]
        /\ pane'[Len(pane) + 1] = e
    BY <1>1, OnBottom
  <1>3. TypeOK'
    BY <1>2 DEF IInv, TypeOK, SendSet
  <1>4. PagesAreUnbroken' /\ (isLoadingMore' => \E l \in LoadCall : load'[l] # Idle /\ load'[l].at # "key")
    BY DEF IInv, PagesAreUnbroken
  <1>5. \A i \in 1..Len(pane') : i \in 1..Len(pane) \/ (i = Len(pane) + 1 /\ pane'[i] = e)
    BY <1>1, <1>2
  <1>6. ASSUME Undisturbed'
        PROVE  UndisturbedCourse'
    <2>1. Undisturbed /\ UndisturbedCourse
      BY <1>6 DEF Undisturbed, IInv
    <2>2. HasHistory' <=> HasHistory
      BY <1>1, <1>2 DEF HasHistory
    <2>3. HasHistory => pane'[1] = pane[1]
      BY <1>1, <1>2 DEF HasHistory
    <2>4. \A l \in LoadCall : load'[l] # Idle => LoadContinues(l)'
      BY <2>1, <2>2, <2>3 DEF UndisturbedCourse, LoadContinues
    <2>5. CursorIsTop'
      BY <2>1, <2>2, <2>3 DEF UndisturbedCourse, CursorIsTop
    <2>6. PaneIsOrdered'
      <3> SUFFICES ASSUME NEW i \in 1..Len(pane')
                   PROVE  /\ pane'[i].conv = open
                          /\ pane'[i].place <= Len(log[open])
                          /\ pane'[i].from = "history" =>
                              /\ \A k \in 1..i : pane'[k].from = "history"
                              /\ pane'[i].place = pane'[1].place + i - 1
        BY DEF PaneIsOrdered
      <3>1. CASE pane'[i] = e
        BY <2>1, <3>1
      <3>2. CASE i \in 1..Len(pane)
        <4>1. \A k \in 1..i : k \in 1..Len(pane)
          BY <1>1, <3>2
        <4>2. pane'[i] = pane[i] /\ \A k \in 1..i : pane'[k] = pane[k]
          BY <1>2, <3>2, <4>1
        <4>3. 1 \in 1..i
          BY <1>1, <3>2
        <4> QED BY <2>1, <3>2, <4>2, <4>3 DEF UndisturbedCourse, PaneIsOrdered
      <3> QED BY <1>5, <3>1, <3>2
    <2>7. ShownIsThrough'
      <3> SUFFICES ASSUME NEW i \in 1..Len(pane'), pane'[i].from # "history",
                          NEW n, n = pane'[i].place
                   PROVE  /\ \A k \in 1..Len(pane') : pane'[k].from # "history"
                                /\ pane'[k].place = n => k = i
                          /\ ~Coming(n)'
        BY DEF ShownIsThrough, Coming
      <3>1. \A k \in 1..Len(pane) : pane[k].from # "history" =>
                ~Coming(pane[k].place) /\ pane[k].place # e.place
        BY <2>1 DEF UndisturbedCourse, ShownIsThrough, Coming
      <3>2. ~Coming(n)'
        <4>1. CASE i \in 1..Len(pane)
          BY <1>2, <3>1, <4>1
        <4>2. CASE pane'[i] = e
          BY <2>1, <4>2
        <4> QED BY <1>5, <4>1, <4>2
      <3>3. ASSUME NEW k \in 1..Len(pane'), pane'[k].from # "history", pane'[k].place = n
            PROVE  k = i
        <4>1. CASE i \in 1..Len(pane) /\ k \in 1..Len(pane)
          BY <1>2, <2>1, <3>3, <4>1 DEF UndisturbedCourse, ShownIsThrough
        <4>2. CASE i \in 1..Len(pane) /\ k = Len(pane) + 1
          BY <1>2, <3>1, <3>3, <4>2
        <4>3. CASE i = Len(pane) + 1 /\ k \in 1..Len(pane)
          BY <1>2, <3>1, <3>3, <4>3
        <4>4. CASE i = Len(pane) + 1 /\ k = Len(pane) + 1
          BY <4>4
        <4> QED BY <1>5, <4>1, <4>2, <4>3, <4>4
      <3> QED BY <3>2, <3>3
    <2>8. \A n : Arriving(n)' => Arriving(n)
      <3> SUFFICES ASSUME NEW n, NEW i \in 1..Len(pane'), pane'[i].from # "history",
                          pane'[i].place = n
                   PROVE  Arriving(n)
        BY DEF Arriving, Coming
      <3>1. CASE i \in 1..Len(pane)
        BY <1>2, <3>1 DEF Arriving
      <3>2. CASE pane'[i] = e
        BY <2>1, <3>2 DEF Arriving, Coming
      <3> QED BY <1>5, <3>1, <3>2
    <2>9. \A i \in 1..Len(pane') : pane'[i].from = "history" => i \in 1..Len(pane) /\ pane'[i] = pane[i]
      BY <1>2, <1>5
    <2>10. ArrivingIsYounger'
      BY <2>1, <2>2, <2>8, <2>9 DEF UndisturbedCourse, ArrivingIsYounger
    <2> QED BY <2>1, <2>4, <2>5, <2>6, <2>7, <2>10 DEF UndisturbedCourse
  <1>7. NothingMissed'
    <2> SUFFICES ASSUME Undisturbed, ~failed, NEW n \in 1..Len(log[open]), log[open][n] = "peer",
                        ~\E i \in 1..Len(pane') : pane'[i].conv = open /\ pane'[i].place = n,
                        <<open, n>> \notin (transit \cup decrypting)'
                 PROVE  (\E k \in LoadCall : Loads(load[k], n)) \/ n < oldest
      BY DEF NothingMissed, Loads, Undisturbed
    <2>1. Len(pane) + 1 \in 1..Len(pane') /\ \A i \in 1..Len(pane) : i \in 1..Len(pane')
      BY <1>1, <1>2
    <2>2. ~\E i \in 1..Len(pane) : pane[i].conv = open /\ pane[i].place = n
      BY <1>2, <2>1
    <2>3. <<open, n>> \notin transit \cup decrypting
      BY <1>2, <2>1
    <2> QED BY <2>2, <2>3 DEF IInv, NothingMissed, Loads
  <1> QED BY <1>3, <1>4, <1>6, <1>7 DEF IInv

\* A message more is stored in a conversation, and nothing is shown.
LEMMA StoreGrows ==
    ASSUME IInv, NEW c \in Conv, NEW who \in {"me", "peer"},
           log' = [log EXCEPT ![c] = Append(@, who)],
           UNCHANGED <<session, load, decrypting, history>>,
           transit' \subseteq Message, send' \in [SendCall -> SendSet],
           MessagesAreStored', Undisturbed => SendsAreToOpen',
           transit \subseteq transit',
           who = "peer" => <<c, Len(log[c]) + 1>> \in transit',
           Undisturbed => \A n : Coming(n)' => Coming(n) \/ (c = open /\ n = Len(log[c]) + 1)
    PROVE  IInv'
  <1>1. UNCHANGED <<open, pane, oldest, isLoadingMore, disturbed, failed, crossed>>
    BY DEF session, history
  <1>2. /\ log' \in [Conv -> Seq({"me", "peer"})]
        /\ \A d \in Conv : Len(log[d]) \in Nat /\ Len(log'[d]) \in Nat
                           /\ Len(log[d]) <= Len(log'[d])
        /\ \A d \in Conv : \A n \in 1..Len(log[d]) : log'[d][n] = log[d][n]
        /\ \A d \in Conv \ {c} : log'[d] = log[d]
        /\ Len(log'[c]) = Len(log[c]) + 1
        /\ log'[c][Len(log[c]) + 1] = who
    BY LogGrows DEF IInv, TypeOK
  <1>3. TypeOK'
    BY <1>1, <1>2 DEF IInv, TypeOK, SendSet
  <1>4. PagesAreUnbroken'
    <2> SUFFICES ASSUME NEW l \in LoadCall, load[l] # Idle, NEW i \in 1..Len(load[l].page)
                 PROVE  load[l].page[i] <= Len(log'[load[l].conv])
      BY DEF IInv, PagesAreUnbroken
    <2>1. load[l].conv \in Conv /\ load[l].page \in Seq(Place)
      BY LoadUnderWay
    <2>2. load[l].page[i] \in Nat
      BY <2>1 DEF Place
    <2>3. load[l].page[i] <= Len(log[load[l].conv])
      BY DEF IInv, PagesAreUnbroken
    <2> QED BY <1>2, <2>1, <2>2, <2>3
  <1>5. isLoadingMore' => \E l \in LoadCall : load'[l] # Idle /\ load'[l].at # "key"
    BY <1>1 DEF IInv
  <1>6. \A d \in Conv : \A n \in 1..Len(log'[d]) :
            n \in 1..Len(log[d]) \/ (d = c /\ n = Len(log[c]) + 1)
    BY <1>2
  <1>7. ASSUME Undisturbed'
        PROVE  UndisturbedCourse'
    <2>1. Undisturbed /\ UndisturbedCourse
      BY <1>1, <1>7 DEF Undisturbed, IInv
    <2>2. open \in Conv /\ Len(log[open]) \in Nat /\ Len(log'[open]) \in Nat
          /\ Len(log[open]) <= Len(log'[open])
      BY <1>2, <2>1 DEF UndisturbedCourse
    <2>3. \A l \in LoadCall : load'[l] # Idle => LoadContinues(l)'
      BY <1>1, <2>1 DEF UndisturbedCourse, LoadContinues, HasHistory
    <2>4. CursorIsTop'
      BY <1>1, <2>1, <2>2 DEF UndisturbedCourse, CursorIsTop, HasHistory
    <2>5. \A i \in 1..Len(pane) : pane[i].place \in Nat /\ pane[i].place <= Len(log[open])
      <3>1. \A i \in 1..Len(pane) : pane[i] \in Entry
        BY DEF IInv, TypeOK
      <3>2. \A i \in 1..Len(pane) : pane[i].place \in Nat
        BY <3>1 DEF Entry, Place
      <3> QED BY <2>1, <3>2 DEF UndisturbedCourse, PaneIsOrdered
    <2>6. PaneIsOrdered'
      <3>1. \A i \in 1..Len(pane) : pane[i].place <= Len(log'[open])
        BY <2>2, <2>5
      <3> QED BY <1>1, <2>1, <3>1 DEF UndisturbedCourse, PaneIsOrdered
    <2>7. ShownIsThrough'
      <3> SUFFICES ASSUME NEW i \in 1..Len(pane), pane[i].from # "history"
                   PROVE  ~Coming(pane[i].place)'
        BY <1>1, <2>1 DEF UndisturbedCourse, ShownIsThrough, Coming
      <3>1. ~Coming(pane[i].place)
        BY <2>1 DEF UndisturbedCourse, ShownIsThrough, Coming
      <3>2. ~(c = open /\ pane[i].place = Len(log[c]) + 1)
        BY <2>2, <2>5
      <3> QED BY <1>1, <2>1, <3>1, <3>2
    <2>8. ArrivingIsYounger'
      <3> SUFFICES ASSUME NEW n \in 1..Len(log'[open]), Arriving(n)', n \notin crossed
                   PROVE  /\ HasHistory => \A i \in 1..Len(pane) :
                                pane[i].from = "history" => pane[i].place < n
                          /\ \A l \in LoadCall : load[l] # Idle /\ load[l].page # <<>>
                                => load[l].page[1] < n
        BY <1>1 DEF ArrivingIsYounger, HasHistory
      <3>1. CASE c = open /\ n = Len(log[c]) + 1
        <4>1. \A i \in 1..Len(pane) : pane[i].place < n
          BY <2>2, <2>5, <3>1
        <4>2. ASSUME NEW l \in LoadCall, load[l] # Idle, load[l].page # <<>>
              PROVE  load[l].page[1] < n
          <5>1. load[l].conv = open /\ load[l].page \in Seq(Place)
            BY <2>1, <4>2, LoadUnderWay DEF LoadContinues
          <5>2. 1 \in 1..Len(load[l].page) /\ load[l].page[1] \in Nat
            BY <4>2, <5>1, RestOfPage DEF Place
          <5>3. load[l].page[1] <= Len(log[open])
            BY <4>2, <5>1, <5>2 DEF IInv, PagesAreUnbroken
          <5> QED BY <2>2, <3>1, <5>2, <5>3
        <4> QED BY <4>1, <4>2
      <3>2. CASE ~(c = open /\ n = Len(log[c]) + 1)
        <4>1. n \in 1..Len(log[open])
          BY <1>6, <2>2, <3>2
        <4>2. Arriving(n)
          BY <1>1, <2>1, <3>2 DEF Arriving, Coming
        <4> QED BY <2>1, <4>1, <4>2 DEF UndisturbedCourse, ArrivingIsYounger
      <3> QED BY <3>1, <3>2
    <2> QED BY <1>1, <2>1, <2>3, <2>4, <2>6, <2>7, <2>8 DEF UndisturbedCourse
  <1>8. NothingMissed'
    <2> SUFFICES ASSUME Undisturbed, ~failed, NEW n \in 1..Len(log'[open]), log'[open][n] = "peer",
                        ~\E i \in 1..Len(pane) : pane[i].conv = open /\ pane[i].place = n,
                        <<open, n>> \notin transit' \cup decrypting
                 PROVE  (\E k \in LoadCall : Loads(load[k], n)) \/ n < oldest
      BY <1>1 DEF NothingMissed, Loads, Undisturbed
    <2>1. open \in Conv
      BY DEF IInv, UndisturbedCourse
    <2>2. ~(c = open /\ n = Len(log[c]) + 1)
      BY <1>2
    <2>3. n \in 1..Len(log[open]) /\ log[open][n] = "peer"
      BY <1>2, <1>6, <2>1, <2>2
    <2> QED BY <2>3 DEF IInv, NothingMissed, Loads
  <1> QED BY <1>3, <1>4, <1>5, <1>7, <1>8 DEF IInv

\* Another participant's message is stored and on its way.
LEMMA PeerSendsKeeps ==
    ASSUME IInv, NEW c \in Conv, PeerSends(c)
    PROVE  IInv'
  <1> DEFINE new == <<c, Len(log[c]) + 1>>
  <1>1. /\ log' = [log EXCEPT ![c] = Append(@, "peer")] /\ transit' = transit \cup {new}
        /\ UNCHANGED <<session, load, decrypting, send, history>> /\ open' = open
    BY DEF PeerSends, session
  <1>2. /\ \A d \in Conv : Len(log[d]) \in Nat /\ Len(log'[d]) \in Nat
                           /\ Len(log[d]) <= Len(log'[d])
        /\ \A d \in Conv : \A n \in 1..Len(log[d]) : log'[d][n] = log[d][n]
        /\ Len(log'[c]) = Len(log[c]) + 1
        /\ log'[c][Len(log[c]) + 1] = "peer"
    BY <1>1, LogGrows DEF IInv, TypeOK
  <1>3. transit \subseteq Message /\ decrypting \subseteq Message /\ send \in [SendCall -> SendSet]
    BY DEF IInv, TypeOK, SendSet
  <1>4. new \in Message /\ new[1] = c /\ new[2] = Len(log[c]) + 1
    BY <1>2 DEF Message, Place
  <1>5. \A d \in Conv : \A n \in 1..Len(log[d]) : n \in 1..Len(log'[d])
    BY <1>2
  <1>6. MessagesAreStored'
    <2>1. new \notin decrypting
      BY <1>2, <1>4 DEF IInv, MessagesAreStored
    <2>2. \A m \in transit \cup decrypting : m[2] \in 1..Len(log'[m[1]]) /\ log'[m[1]][m[2]] = "peer"
      BY <1>2, <1>3, <1>5 DEF IInv, MessagesAreStored, Message
    <2>3. new[2] \in 1..Len(log'[c]) /\ log'[new[1]][new[2]] = "peer"
      BY <1>2, <1>4
    <2>4. \A s \in SendCall : send[s].at = "posted" =>
              /\ send[s].place \in 1..Len(log'[send[s].conv])
              /\ log'[send[s].conv][send[s].place] = "me"
      BY <1>2, <1>5 DEF IInv, MessagesAreStored
    <2> QED BY <1>1, <1>4, <2>1, <2>2, <2>3, <2>4 DEF IInv, MessagesAreStored
  <1>7. Undisturbed => SendsAreToOpen'
    BY <1>1 DEF IInv, UndisturbedCourse, SendsAreToOpen
  <1>8. \A n : Coming(n)' => Coming(n) \/ (c = open /\ n = Len(log[c]) + 1)
    BY <1>1 DEF Coming
  <1> QED BY <1>1, <1>3, <1>4, <1>6, <1>7, <1>8, StoreGrows

\* The user's own message is stored and its place on the way back.
LEMMA StoreOwnMessageKeeps ==
    ASSUME IInv, NEW s \in SendCall, StoreOwnMessage(s)
    PROVE  IInv'
  <1> DEFINE c == send[s].conv
             j == [send[s] EXCEPT !.at = "posted", !.place = Len(log[c]) + 1]
  <1>1. /\ send[s].at = "post" /\ log' = [log EXCEPT ![c] = Append(@, "me")]
        /\ send' = [send EXCEPT ![s] = j]
        /\ UNCHANGED <<transit, session, load, decrypting, history>> /\ open' = open
    BY DEF StoreOwnMessage, session
  <1>2. send[s] \in SendSet /\ send[s] # Idle /\ c \in Conv
    BY <1>1, SendAt DEF IInv, TypeOK, SendSet, Idle, MessagesAreStored
  <1>3. send[s] \in Sending
    BY <1>2, SendAt
  <1>4. /\ \A d \in Conv : Len(log[d]) \in Nat /\ Len(log'[d]) \in Nat
                           /\ Len(log[d]) <= Len(log'[d])
        /\ \A d \in Conv : \A n \in 1..Len(log[d]) : log'[d][n] = log[d][n]
        /\ Len(log'[c]) = Len(log[c]) + 1
        /\ log'[c][Len(log[c]) + 1] = "me"
    BY <1>1, <1>2, LogGrows DEF IInv, TypeOK
  <1>5. /\ j \in Sending /\ j \in SendSet /\ j # Idle
        /\ j.at = "posted" /\ j.for = send[s].for /\ j.conv = c /\ j.place = Len(log[c]) + 1
    BY <1>2, <1>3, <1>4 DEF Sending, SendSet, Idle, Place
  <1> HIDE DEF j
  <1>6. /\ send' \in [SendCall -> SendSet]
        /\ send'[s] = j
        /\ \A t \in SendCall : t # s => send'[t] = send[t]
    BY <1>1, <1>5, OneSendChanges DEF IInv
  <1>7. transit \subseteq Message
    BY DEF IInv, TypeOK
  <1>8. \A d \in Conv : \A n \in 1..Len(log[d]) : n \in 1..Len(log'[d])
    BY <1>4
  <1>9. MessagesAreStored'
    <2>1. \A m \in transit \cup decrypting : m[2] \in 1..Len(log'[m[1]]) /\ log'[m[1]][m[2]] = "peer"
      BY <1>4, <1>8 DEF IInv, TypeOK, MessagesAreStored, Message
    <2>2. \A t \in SendCall : send'[t].at \in {"post", "posted"} => send'[t].conv \in Conv
      BY <1>2, <1>5, <1>6 DEF IInv, MessagesAreStored
    <2>3. \A t \in SendCall : send[t].at = "posted" =>
              /\ send[t].conv \in Conv
              /\ send[t].place \in 1..Len(log[send[t].conv])
              /\ send[t].place \in 1..Len(log'[send[t].conv])
              /\ log'[send[t].conv][send[t].place] = "me"
      BY <1>4, <1>8 DEF IInv, MessagesAreStored
    <2>4. \A t \in SendCall : send'[t].at = "posted" =>
              /\ send'[t].place \in 1..Len(log'[send'[t].conv])
              /\ log'[send'[t].conv][send'[t].place] = "me"
      BY <1>2, <1>4, <1>5, <1>6, <2>3
    <2>5. \A t \in SendCall : t # s /\ send'[t].at = "posted" /\ send'[t].conv = c =>
              send'[t].place # Len(log[c]) + 1
      BY <1>2, <1>4, <1>6, <2>3
    <2>6. \A t, u \in SendCall :
              (send'[t].at = "posted" /\ send'[u].at = "posted" /\ send'[t].conv = send'[u].conv
               /\ send'[t].place = send'[u].place) => t = u
      BY <1>5, <1>6, <2>5 DEF IInv, MessagesAreStored
    <2>7. transit' \cap decrypting' = {}
      BY <1>1 DEF IInv, MessagesAreStored
    <2> QED BY <1>1, <2>1, <2>2, <2>4, <2>6, <2>7 DEF MessagesAreStored
  <1>10. ASSUME Undisturbed
         PROVE  c = open /\ SendsAreToOpen'
    BY <1>1, <1>2, <1>5, <1>6, <1>10 DEF IInv, UndisturbedCourse, SendsAreToOpen
  <1>11. ASSUME Undisturbed, NEW n, Coming(n)'
         PROVE  Coming(n) \/ (c = open /\ n = Len(log[c]) + 1)
    BY <1>1, <1>5, <1>6, <1>10, <1>11 DEF Coming
  <1> QED BY <1>1, <1>2, <1>6, <1>7, <1>9, <1>10, <1>11, StoreGrows

\* A publication arrives.
LEMMA HandleIncomingMessageKeeps ==
    ASSUME IInv, NEW m, HandleIncomingMessage(m)
    PROVE  IInv'
  <1>1. /\ m \in transit /\ transit' = transit \ {m} /\ decrypting' = decrypting \cup {m}
        /\ UNCHANGED <<log, open, pane, oldest, isLoadingMore, load, send, history>>
    BY DEF HandleIncomingMessage, session
  <1>2. transit' \subseteq Message /\ decrypting' \subseteq Message /\ send' \in [SendCall -> SendSet]
    BY <1>1 DEF IInv, TypeOK, SendSet
  <1>3. (transit \cup decrypting)' = transit \cup decrypting /\ transit' \cap decrypting' = {}
    BY <1>1 DEF IInv, MessagesAreStored
  <1>4. MessagesAreStored'
    BY <1>1, <1>3 DEF IInv, MessagesAreStored
  <1>5. Undisturbed => SendsAreToOpen'
    BY <1>1 DEF IInv, UndisturbedCourse, SendsAreToOpen
  <1>6. \A n : Coming(n)' => Coming(n)
    BY <1>1, <1>3 DEF Coming
  <1> QED BY <1>1, <1>2, <1>3, <1>4, <1>5, <1>6, PaneStays

\* Its text is there: it is appended if its conversation is open.
LEMMA AppendIncomingKeeps ==
    ASSUME IInv, NEW m, AppendIncoming(m)
    PROVE  IInv'
  <1>1. /\ m \in decrypting /\ decrypting' = decrypting \ {m}
        /\ pane' = IF m[1] = open THEN Below(m, "live") ELSE pane
        /\ UNCHANGED <<log, transit, open, oldest, isLoadingMore, load, send, history>>
        /\ UNCHANGED <<disturbed, failed, crossed>>
    BY DEF AppendIncoming, history
  <1>2. /\ m \in Message /\ m = <<m[1], m[2]>> /\ m[1] \in Conv /\ m[2] \in Place
    BY <1>1 DEF IInv, TypeOK, Message
  <1>3. transit' \subseteq Message /\ decrypting' \subseteq Message /\ send' \in [SendCall -> SendSet]
    BY <1>1 DEF IInv, TypeOK, SendSet
  <1>4. MessagesAreStored'
    BY <1>1 DEF IInv, MessagesAreStored
  <1>5. Undisturbed => SendsAreToOpen'
    BY <1>1 DEF IInv, UndisturbedCourse, SendsAreToOpen
  <1>6. \A n : Coming(n)' => Coming(n)
    BY <1>1 DEF Coming
  <1>7. CASE m[1] # open
    <2>1. \A n : <<open, n>> \in transit \cup decrypting => <<open, n>> \in (transit \cup decrypting)'
      BY <1>1, <1>7
    <2> QED BY <1>1, <1>3, <1>4, <1>5, <1>6, <1>7, <2>1, PaneStays
  <1>8. CASE m[1] = open
    <2>1. PICK e \in Entry : e = [conv |-> m[1], place |-> m[2], from |-> "live"]
      BY <1>2 DEF Entry
    <2>2. e.conv = open /\ e.place = m[2] /\ e.from # "history" /\ m = <<open, e.place>>
      BY <1>2, <1>8, <2>1
    <2>3. pane' = Append(pane, e)
      BY <1>1, <1>8, <2>1 DEF Below
    <2>4. e.place \in 1..Len(log[open]) /\ log[open][e.place] = "peer"
      BY <1>1, <1>8, <2>2 DEF IInv, MessagesAreStored
    <2>5. Coming(e.place)
      BY <1>1, <2>2 DEF Coming
    <2>6. ASSUME Undisturbed
          PROVE  ~Coming(e.place)'
      <3>1. m \notin (transit \cup decrypting)'
        BY <1>1 DEF IInv, MessagesAreStored
      <3>2. \A s \in SendCall : send[s].at = "posted" => send[s].conv = open
        BY <2>6 DEF IInv, UndisturbedCourse, SendsAreToOpen, Idle
      <3>3. \A s \in SendCall : send[s].at = "posted" => log[open][send[s].place] = "me"
        BY <3>2 DEF IInv, MessagesAreStored
      <3> QED BY <1>1, <2>2, <2>4, <3>1, <3>3 DEF Coming
    <2>7. \A n : <<open, n>> \in transit \cup decrypting =>
              n = e.place \/ <<open, n>> \in (transit \cup decrypting)'
      BY <1>1, <2>2
    <2> QED BY <1>1, <1>3, <1>4, <1>5, <1>6, <2>2, <2>3, <2>4, <2>5, <2>6, <2>7, PaneGrows
  <1> QED BY <1>7, <1>8

\* A send ends: the others go on.
LEMMA SendEnds ==
    ASSUME IInv, NEW s \in SendCall, send' = [send EXCEPT ![s] = Idle],
           UNCHANGED <<log, transit, open, decrypting, disturbed>>
    PROVE  /\ transit' \subseteq Message /\ decrypting' \subseteq Message
           /\ send' \in [SendCall -> SendSet]
           /\ send'[s] = Idle /\ \A t \in SendCall : t # s => send'[t] = send[t]
           /\ MessagesAreStored'
           /\ Undisturbed => SendsAreToOpen'
           /\ \A n : Coming(n)' => Coming(n)
  <1>1. /\ send' \in [SendCall -> SendSet]
        /\ send'[s] = Idle
        /\ \A t \in SendCall : t # s => send'[t] = send[t]
    BY OneSendChanges DEF IInv, SendSet
  <1>2. transit' \subseteq Message /\ decrypting' \subseteq Message
    BY DEF IInv, TypeOK
  <1>3. \A t \in SendCall : send'[t].at \in {"encrypt", "post", "posted"} => t # s /\ send'[t] = send[t]
    BY <1>1 DEF Idle
  <1>4. MessagesAreStored'
    BY <1>3 DEF IInv, MessagesAreStored
  <1>5. Undisturbed => SendsAreToOpen'
    BY <1>1 DEF IInv, UndisturbedCourse, SendsAreToOpen
  <1>6. \A n : Coming(n)' => Coming(n)
    BY <1>3 DEF Coming
  <1> QED BY <1>1, <1>2, <1>4, <1>5, <1>6

\* An own message is appended when the post is answered.
LEMMA AppendOwnKeeps ==
    ASSUME IInv, NEW s \in SendCall, AppendOwn(s)
    PROVE  IInv'
  <1>1. /\ send[s].at = "posted" /\ send' = [send EXCEPT ![s] = Idle]
        /\ pane' = Below(<<send[s].conv, send[s].place>>, "own")
        /\ UNCHANGED <<log, transit, open, oldest, isLoadingMore, load, decrypting>>
        /\ UNCHANGED <<disturbed, failed, crossed>>
    BY DEF AppendOwn, history
  <1>2. /\ transit' \subseteq Message /\ decrypting' \subseteq Message
        /\ send' \in [SendCall -> SendSet]
        /\ send'[s] = Idle /\ \A t \in SendCall : t # s => send'[t] = send[t]
        /\ MessagesAreStored'
        /\ Undisturbed => SendsAreToOpen'
        /\ \A n : Coming(n)' => Coming(n)
    BY <1>1, SendEnds
  <1>3. /\ send[s].conv \in Conv /\ send[s].place \in 1..Len(log[send[s].conv])
        /\ log[send[s].conv][send[s].place] = "me"
    BY <1>1 DEF IInv, MessagesAreStored
  <1>4. send[s].place \in Place
    BY <1>3 DEF IInv, TypeOK, Place
  <1>5. PICK e \in Entry : e = [conv |-> send[s].conv, place |-> send[s].place, from |-> "own"]
    BY <1>3, <1>4 DEF Entry
  <1>6. e.conv = send[s].conv /\ e.place = send[s].place /\ e.from # "history"
    BY <1>5
  <1>7. pane' = Append(pane, e)
    BY <1>1, <1>5 DEF Below
  <1>8. ASSUME Undisturbed
        PROVE  \A t \in SendCall : send[t].at = "posted" => send[t].conv = open
    BY <1>8 DEF IInv, UndisturbedCourse, SendsAreToOpen, Idle
  <1>9. ASSUME Undisturbed
        PROVE  /\ e.conv = open /\ e.place \in 1..Len(log[open])
               /\ Coming(e.place) /\ ~Coming(e.place)'
    <2>1. e.conv = open /\ e.place \in 1..Len(log[open]) /\ log[open][e.place] = "me"
      BY <1>1, <1>3, <1>6, <1>8, <1>9
    <2>2. Coming(e.place)
      BY <1>1, <1>6 DEF Coming
    <2>3. <<open, e.place>> \notin transit \cup decrypting
      BY <2>1 DEF IInv, MessagesAreStored
    <2>4. \A t \in SendCall : send[t].at = "posted" /\ send[t].place = e.place => t = s
      BY <1>1, <1>6, <1>8, <1>9 DEF IInv, MessagesAreStored
    <2>5. ~Coming(e.place)'
      BY <1>1, <1>2, <2>3, <2>4 DEF Coming, Idle
    <2> QED BY <2>1, <2>2, <2>5
  <1>10. \A n : <<open, n>> \in transit \cup decrypting => <<open, n>> \in (transit \cup decrypting)'
    BY <1>1
  <1> QED BY <1>1, <1>2, <1>6, <1>7, <1>9, <1>10, PaneGrows

\* A send fails, and nothing is shown.
LEMMA SendFailsKeeps ==
    ASSUME IInv, NEW s \in SendCall, SendFails(s)
    PROVE  IInv'
  <1>1. /\ send' = [send EXCEPT ![s] = Idle]
        /\ UNCHANGED <<log, transit, open, pane, oldest, isLoadingMore, load, decrypting>>
        /\ UNCHANGED history /\ UNCHANGED disturbed
    BY DEF SendFails, session, history
  <1>2. /\ transit' \subseteq Message /\ decrypting' \subseteq Message
        /\ send' \in [SendCall -> SendSet]
        /\ MessagesAreStored'
        /\ Undisturbed => SendsAreToOpen'
        /\ \A n : Coming(n)' => Coming(n)
    BY <1>1, SendEnds
  <1>3. \A n : <<open, n>> \in transit \cup decrypting => <<open, n>> \in (transit \cup decrypting)'
    BY <1>1
  <1> QED BY <1>1, <1>2, <1>3, PaneStays

\* A send goes on to a stage at which nothing is stored yet.
LEMMA SendTurns ==
    ASSUME IInv, NEW s \in SendCall, NEW j \in SendSet, send' = [send EXCEPT ![s] = j],
           UNCHANGED <<log, transit, session, load, decrypting, history>>,
           j.at \in {"encrypt", "post"},
           j.at = "post" => j.conv \in Conv,
           Undisturbed => j.for = open /\ (j.at = "post" => j.conv = open)
    PROVE  IInv'
  <1>1. /\ send' \in [SendCall -> SendSet]
        /\ send'[s] = j
        /\ \A t \in SendCall : t # s => send'[t] = send[t]
    BY OneSendChanges DEF IInv
  <1>2. /\ UNCHANGED <<log, open, pane, oldest, isLoadingMore, load, history>>
        /\ UNCHANGED <<transit, decrypting>>
        /\ transit' \subseteq Message /\ decrypting' \subseteq Message
    BY DEF IInv, TypeOK, session
  <1>3. \A t \in SendCall : send'[t].at = "posted" => t # s /\ send'[t] = send[t]
    BY <1>1
  <1>4. MessagesAreStored'
    <2>1. \A t \in SendCall : send'[t].at \in {"post", "posted"} => send'[t].conv \in Conv
      BY <1>1 DEF IInv, MessagesAreStored
    <2> QED BY <1>2, <1>3, <2>1 DEF IInv, MessagesAreStored
  <1>5. Undisturbed => SendsAreToOpen'
    BY <1>1, <1>2 DEF IInv, UndisturbedCourse, SendsAreToOpen
  <1>6. \A n : Coming(n)' => Coming(n)
    BY <1>2, <1>3 DEF Coming
  <1>7. \A n : <<open, n>> \in transit \cup decrypting => <<open, n>> \in (transit \cup decrypting)'
    BY <1>2
  <1> QED BY <1>1, <1>2, <1>4, <1>5, <1>6, <1>7, PaneStays

\* The user starts to send in the open conversation.
LEMMA HandleSendKeeps ==
    ASSUME IInv, NEW s \in SendCall, HandleSend(s)
    PROVE  IInv'
  <1> DEFINE j == [at |-> "encrypt", for |-> open, conv |-> NoConv, place |-> 0]
  <1>1. /\ open # NoConv /\ send' = [send EXCEPT ![s] = j]
        /\ UNCHANGED <<log, transit, session, load, decrypting, history>>
    BY DEF HandleSend
  <1>2. j \in SendSet /\ j.at = "encrypt" /\ j.for = open
    BY <1>1 DEF IInv, TypeOK, SendSet, Sending
  <1> HIDE DEF j
  <1> QED BY <1>1, <1>2, SendTurns

\* The text is encrypted: it is posted to the conversation that is open now.
LEMMA PostMessageKeeps ==
    ASSUME IInv, NEW s \in SendCall, PostMessage(s)
    PROVE  IInv'
  <1> DEFINE j == [send[s] EXCEPT !.at = "post", !.conv = open]
  <1>1. /\ open # NoConv /\ send' = [send EXCEPT ![s] = j] /\ send[s].at = "encrypt"
        /\ UNCHANGED <<log, transit, session, load, decrypting, history>>
    BY DEF PostMessage
  <1>2. send[s] \in SendSet /\ send[s] # Idle /\ open \in Conv
    BY <1>1, SendAt DEF IInv, TypeOK, SendSet, Idle
  <1>3. send[s] \in Sending
    BY <1>2, SendAt
  <1>4. j \in SendSet /\ j.at = "post" /\ j.conv = open /\ j.for = send[s].for
    BY <1>2, <1>3 DEF SendSet, Sending
  <1>5. Undisturbed => send[s].for = open
    BY <1>2 DEF IInv, UndisturbedCourse, SendsAreToOpen
  <1> HIDE DEF j
  <1> QED BY <1>1, <1>2, <1>4, <1>5, SendTurns

\* After the logout no conversation is open; the calls under way go on.
LEMMA HandleLogoutKeeps ==
    ASSUME IInv, HandleLogout
    PROVE  IInv'
  <1>1. /\ open' = NoConv /\ disturbed' = TRUE /\ failed' = FALSE /\ crossed' = {}
        /\ UNCHANGED <<log, transit, pane, oldest, isLoadingMore, load, decrypting, send>>
    BY DEF HandleLogout
  <1>2. TypeOK'
    BY <1>1 DEF IInv, TypeOK
  <1>3. MessagesAreStored' /\ PagesAreUnbroken'
    BY <1>1 DEF IInv, MessagesAreStored, PagesAreUnbroken
  <1>4. isLoadingMore' => \E l \in LoadCall : load'[l] # Idle /\ load'[l].at # "key"
    BY <1>1 DEF IInv
  <1>5. ~Undisturbed' /\ NothingMissed'
    BY <1>1 DEF Undisturbed, NothingMissed
  <1> QED BY <1>2, <1>3, <1>4, <1>5 DEF IInv

(***************************************************************************)
(* The theorems                                                            *)
(***************************************************************************)

\* At the start no conversation is open and no call is under way.
LEMMA InitInv == Init => IInv
  <1> SUFFICES ASSUME Init PROVE IInv
    OBVIOUS
  <1>1. TypeOK
    <2>1. log \in [Conv -> Seq({"me", "peer"})] /\ pane \in Seq(Entry)
      BY DEF Init
    <2> QED BY <2>1 DEF Init, TypeOK
  <1>2. MessagesAreStored /\ PagesAreUnbroken
    BY DEF Init, MessagesAreStored, PagesAreUnbroken, Idle
  <1>3. ~Undisturbed /\ NothingMissed /\ ~isLoadingMore
    BY DEF Init, Undisturbed, NothingMissed
  <1> QED BY <1>1, <1>2, <1>3 DEF IInv

\* Every step preserves the inductive invariant.
LEMMA NextInv == IInv /\ [Next]_vars => IInv'
  <1> SUFFICES ASSUME IInv, [Next]_vars PROVE IInv'
    OBVIOUS
  <1>1. ASSUME NEW c \in Conv, PeerSends(c) PROVE IInv'
    BY <1>1, PeerSendsKeeps
  <1>2. ASSUME NEW l \in LoadCall, NEW c \in Conv, OpenConversation(l, c) PROVE IInv'
    BY <1>2, OpenConversationKeeps
  <1>3. ASSUME NEW l \in LoadCall, LoadGroupKey(l) PROVE IInv'
    BY <1>3, LoadGroupKeyKeeps
  <1>4. ASSUME NEW l \in LoadCall, HandleScrollHistory(l) PROVE IInv'
    BY <1>4, HandleScrollHistoryKeeps
  <1>5. ASSUME NEW l \in LoadCall, AnswerPage(l) PROVE IInv'
    BY <1>5, AnswerPageKeeps
  <1>6. ASSUME NEW l \in LoadCall, ReceivePage(l) PROVE IInv'
    BY <1>6, ReceivePageKeeps
  <1>7. ASSUME NEW l \in LoadCall, PrependMessage(l) PROVE IInv'
    BY <1>7, PrependMessageKeeps
  <1>8. ASSUME NEW l \in LoadCall, LoadFails(l) PROVE IInv'
    BY <1>8, LoadFailsKeeps
  <1>9. ASSUME NEW m, HandleIncomingMessage(m) PROVE IInv'
    BY <1>9, HandleIncomingMessageKeeps
  <1>10. ASSUME NEW m, AppendIncoming(m) PROVE IInv'
    BY <1>10, AppendIncomingKeeps
  <1>11. ASSUME NEW s \in SendCall, HandleSend(s) PROVE IInv'
    BY <1>11, HandleSendKeeps
  <1>12. ASSUME NEW s \in SendCall, PostMessage(s) PROVE IInv'
    BY <1>12, PostMessageKeeps
  <1>13. ASSUME NEW s \in SendCall, StoreOwnMessage(s) PROVE IInv'
    BY <1>13, StoreOwnMessageKeeps
  <1>14. ASSUME NEW s \in SendCall, AppendOwn(s) PROVE IInv'
    BY <1>14, AppendOwnKeeps
  <1>15. ASSUME NEW s \in SendCall, SendFails(s) PROVE IInv'
    BY <1>15, SendFailsKeeps
  <1>16. ASSUME HandleLogout PROVE IInv'
    BY <1>16, HandleLogoutKeeps
  <1>17. ASSUME UNCHANGED vars PROVE IInv'
    <2>1. UNCHANGED <<log, transit, open, pane, oldest, isLoadingMore, load, decrypting, send,
                      disturbed, failed, crossed>>
      BY <1>17 DEF vars, session, history
    <2>2. TypeOK'
      BY <2>1 DEF IInv, TypeOK
    <2>3. MessagesAreStored' /\ PagesAreUnbroken'
      BY <2>1 DEF IInv, MessagesAreStored, PagesAreUnbroken
    <2>4. isLoadingMore' => \E l \in LoadCall : load'[l] # Idle /\ load'[l].at # "key"
      BY <2>1 DEF IInv
    <2>5. ASSUME Undisturbed' PROVE UndisturbedCourse'
      BY <2>1, <2>5 DEF IInv, Undisturbed, UndisturbedCourse, LoadContinues, CursorIsTop, HasHistory,
                        PaneIsOrdered, SendsAreToOpen, ShownIsThrough, Arriving, ArrivingIsYounger
    <2>6. NothingMissed'
      BY <2>1 DEF IInv, NothingMissed, Undisturbed
    <2> QED BY <2>2, <2>3, <2>4, <2>5, <2>6 DEF IInv
  <1> QED BY <1>1, <1>2, <1>3, <1>4, <1>5, <1>6, <1>7, <1>8, <1>9, <1>10, <1>11, <1>12, <1>13,
             <1>14, <1>15, <1>16, <1>17 DEF Next

\* The inductive invariant holds in every state.
THEOREM Invariance == Spec => []IInv
  BY InitInv, NextInv, PTL DEF Spec

\* Every variable keeps its type.
THEOREM TypeCorrect == Spec => []TypeOK
  <1>1. IInv => TypeOK
    BY DEF IInv
  <1> QED BY <1>1, Invariance, PTL

\* The pane of a conversation that was opened amid nothing else shows one
\* unbroken stretch of its history, from the cursor on, and then only what
\* came since; and what is sent there is posted to it.
THEOREM PaneStaysUnbroken == Spec => []PaneIsUnbroken
  <1>1. ASSUME IInv, Undisturbed
        PROVE  /\ \A i \in 1..Len(pane) :
                    /\ pane[i].conv = open
                    /\ pane[i].from = "history" =>
                        /\ \A j \in 1..i : pane[j].from = "history"
                        /\ pane[i].place = pane[1].place + i - 1
                        /\ ~isLoadingMore => pane[1].place = oldest
               /\ \A s \in SendCall : send[s].at \in {"post", "posted"} => send[s].conv = send[s].for
    <2>1. UndisturbedCourse
      BY <1>1 DEF IInv
    <2>2. ASSUME NEW i \in 1..Len(pane), pane[i].from = "history", ~isLoadingMore
          PROVE  pane[1].place = oldest
      <3>1. Len(pane) \in Nat
        BY <1>1 DEF IInv, TypeOK
      <3>2. HasHistory
        BY <2>1, <2>2, <3>1 DEF UndisturbedCourse, PaneIsOrdered, HasHistory
      <3>3. \A l \in LoadCall : load[l].at # "prepend"
        BY <2>1, <2>2 DEF UndisturbedCourse, LoadContinues, Idle
      <3> QED BY <2>1, <3>2, <3>3 DEF UndisturbedCourse, CursorIsTop
    <2>3. \A s \in SendCall : send[s].at \in {"post", "posted"} => send[s].conv = send[s].for
      BY <2>1 DEF UndisturbedCourse, SendsAreToOpen, Idle
    <2> QED BY <2>1, <2>2, <2>3 DEF UndisturbedCourse, PaneIsOrdered
  <1>2. IInv => PaneIsUnbroken
    BY <1>1 DEF PaneIsUnbroken
  <1> QED BY <1>2, Invariance, PTL

\* A message is in the pane twice only if it crossed the first page.
THEOREM OnlyCrossedTwice == Spec => []ShownOnce
  <1>1. ASSUME IInv, Undisturbed, NEW i \in 1..Len(pane), NEW j \in 1..Len(pane), i < j,
               pane[i].place = pane[j].place
        PROVE  pane[i].from = "history" /\ pane[j].from # "history" /\ pane[i].place \in crossed
    <2>1. UndisturbedCourse /\ Len(pane) \in Nat
      BY <1>1 DEF IInv, TypeOK
    <2>2. pane[i].place \in Nat /\ pane[1].place \in Nat
      <3>1. pane[i] \in Entry /\ pane[1] \in Entry
        BY <1>1, <2>1 DEF IInv, TypeOK
      <3> QED BY <3>1 DEF Entry, Place
    <2>3. ASSUME pane[j].from = "history" PROVE FALSE
      <3>1. pane[i].from = "history"
        BY <1>1, <2>1, <2>3 DEF UndisturbedCourse, PaneIsOrdered
      <3>2. pane[i].place = pane[1].place + i - 1 /\ pane[j].place = pane[1].place + j - 1
        BY <2>1, <2>3, <3>1 DEF UndisturbedCourse, PaneIsOrdered
      <3>3. i \in Nat /\ j \in Nat /\ i # j
        BY <1>1, <2>1
      <3>4. \A q \in Nat : q + i - 1 # q + j - 1
        BY <3>3
      <3> QED BY ONLY <1>1, <2>2, <3>2, <3>4
    <2>4. ASSUME pane[i].from # "history" PROVE FALSE
      <3>1. i # j
        BY <1>1, <2>1
      <3>2. pane[j].from # "history"
        BY <2>3
      <3> QED BY <1>1, <2>1, <2>4, <3>1, <3>2 DEF UndisturbedCourse, ShownIsThrough
    <2>5. pane[i].place \in crossed
      <3>1. Arriving(pane[i].place)
        BY <1>1, <2>3 DEF Arriving
      <3>2. pane[i].place \in 1..Len(log[open])
        <4>1. pane[i].place <= Len(log[open]) /\ open \in Conv
          BY <2>1 DEF UndisturbedCourse, PaneIsOrdered
        <4>2. pane[i].place \in Place
          <5>1. pane[i] \in Entry
            BY <1>1 DEF IInv, TypeOK
          <5> QED BY <5>1 DEF Entry
        <4>3. Len(log[open]) \in Nat
          BY <1>1, <4>1 DEF IInv, TypeOK
        <4> QED BY <4>1, <4>2, <4>3 DEF Place
      <3>3. HasHistory
        BY <2>1, <2>4 DEF UndisturbedCourse, PaneIsOrdered, HasHistory
      <3> QED BY <2>1, <2>2, <2>4, <3>1, <3>2, <3>3 DEF UndisturbedCourse, ArrivingIsYounger
    <2> QED BY <2>3, <2>4, <2>5
  <1>2. IInv => ShownOnce
    BY <1>1 DEF ShownOnce
  <1> QED BY <1>2, Invariance, PTL

\* Every message of another user is shown, about to be, on its way, or older
\* than what is shown, unless the first load failed.
THEOREM NoneMissed == Spec => []NothingMissed
  <1>1. IInv => NothingMissed
    BY DEF IInv
  <1> QED BY <1>1, Invariance, PTL

\* isLoadingMore never outlives the loads, and keeps them to one at a time.
THEOREM LoadsStayGuarded == Spec => []LoadsAreGuarded
  <1>1. IInv => LoadsAreGuarded
    BY DEF IInv, UndisturbedCourse, LoadsAreGuarded
  <1> QED BY <1>1, Invariance, PTL
=============================================================================
