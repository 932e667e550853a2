----------------------------- MODULE ClientProofs -----------------------------
(***************************************************************************)
(* Theorems about the sidebar, and about the client that composes it with  *)
(* the typing indicator, for any conversations, listings and peers.        *)
(***************************************************************************)
EXTENDS ClientInv, Naturals, TLAPS

(***************************************************************************)
(* The sidebar: one lemma per action                                       *)
(***************************************************************************)

\* A call of loadDashboard changes its stage, the others keep theirs.
LEMMA OneCallChanges ==
    ASSUME TypeOK, NEW d \in DashCall, NEW j \in {Idle} \cup Listing,
           dash' = [dash EXCEPT ![d] = j]
    PROVE  /\ dash' \in [DashCall -> {Idle} \cup Listing]
           /\ dash'[d] = j
           /\ \A e \in DashCall : e # d => dash'[e] = dash[e]
  BY DEF TypeOK

\* What a call carries once its listing is there.
LEMMA CallAt ==
    ASSUME TypeOK, NEW d \in DashCall
    PROVE  /\ dash[d].at = "answered" => dash[d].convs \in SUBSET Conv
           /\ dash[d] = Idle => dash[d].at = "idle"
  BY DEF TypeOK, Idle, Listing

\* The three stages.
LEMMA Stages ==
    ASSUME NEW S \in SUBSET Conv
    PROVE  /\ Idle \in {Idle} \cup Listing /\ Idle.at = "idle"
           /\ [at |-> "asked", convs |-> S] \in Listing
           /\ [at |-> "answered", convs |-> S] \in Listing
  BY DEF Idle, Listing

\* What a handler waits with.
LEMMA ContinuationAt ==
    ASSUME NEW t \in Continuation
    PROVE  /\ t.conv \in Conv
           /\ t.of \in {"key", "added"} => t.conv \in Group
  BY SidebarAssumption DEF Continuation

\* A conversation is joined: nothing of the client changes.
LEMMA JoinStep ==
    ASSUME SidebarIInv, NEW c \in Conv, Join(c)
    PROVE  SidebarIInv'
  <1> USE DEF SidebarIInv
  <1>1. /\ joined' = joined \cup {c} /\ transit' = transit \cup {c}
        /\ UNCHANGED <<connected, known, shown, subscribed, keyed, dash, awaiting, filled, stray, due>>
    BY DEF Join, client, history
  <1>2. TypeOK'
    BY <1>1 DEF TypeOK
  <1>3. OnlyJoinedAnnounced' /\ DueIsListed'
    BY <1>1 DEF OnlyJoinedAnnounced, DueIsListed
  <1>4. FilledIsWhole' /\ AnnouncedStays'
    BY <1>1 DEF FilledIsWhole, AnnouncedStays
  <1> QED BY <1>2, <1>3, <1>4

\* A listing is asked for; whether by a login or amid a session makes no
\* difference to the calls.
LEMMA AskStep ==
    ASSUME SidebarIInv, NEW d \in DashCall, Ask(d),
           UNCHANGED <<joined, transit, known, shown, keyed, awaiting, history>>,
           \/ UNCHANGED <<connected, subscribed>>
           \/ ~connected /\ connected' = TRUE /\ subscribed' = {}
    PROVE  SidebarIInv'
  <1> USE DEF SidebarIInv
  <1> DEFINE j == [at |-> "asked", convs |-> {}]
  <1>1. /\ j \in Listing /\ j.at = "asked"
        /\ dash' = [dash EXCEPT ![d] = j]
    BY Stages DEF Ask
  <1> HIDE DEF j
  <1>2. /\ dash' \in [DashCall -> {Idle} \cup Listing]
        /\ dash'[d] = j
        /\ \A e \in DashCall : e # d => dash'[e] = dash[e]
    BY <1>1, OneCallChanges
  <1>3. \A e \in DashCall : dash'[e].at = "answered" =>
            dash[e].at = "answered" /\ dash'[e] = dash[e]
    BY <1>1, <1>2
  <1>4. UNCHANGED <<filled, stray, due>>
    BY DEF history
  <1>5. TypeOK'
    BY <1>2, <1>4 DEF TypeOK
  <1>6. OnlyJoinedAnnounced' /\ DueIsListed'
    BY <1>3, <1>4 DEF OnlyJoinedAnnounced, DueIsListed
  <1>7. FilledIsWhole' /\ AnnouncedStays'
    BY <1>4 DEF FilledIsWhole, AnnouncedStays
  <1> QED BY <1>5, <1>6, <1>7

\* The listing holds everything the user is in, all that is due among it.
LEMMA ListConversationsStep ==
    ASSUME SidebarIInv, NEW d \in DashCall, ListConversations(d)
    PROVE  SidebarIInv'
  <1> USE DEF SidebarIInv
  <1> DEFINE j == [at |-> "answered", convs |-> joined]
  <1>1. /\ j \in Listing /\ j.at = "answered" /\ j.convs = joined
        /\ dash' = [dash EXCEPT ![d] = j]
        /\ UNCHANGED <<joined, transit, connected, known, shown, subscribed, keyed, awaiting,
                       filled, stray, due>>
    BY Stages DEF ListConversations, TypeOK, client, history
  <1> HIDE DEF j
  <1>2. /\ dash' \in [DashCall -> {Idle} \cup Listing]
        /\ dash'[d] = j
        /\ \A e \in DashCall : e # d => dash'[e] = dash[e]
    BY <1>1, OneCallChanges
  <1>3. TypeOK'
    BY <1>1, <1>2 DEF TypeOK
  <1>4. OnlyJoinedAnnounced' /\ DueIsListed'
    BY <1>1, <1>2 DEF OnlyJoinedAnnounced, DueIsListed
  <1>5. FilledIsWhole' /\ AnnouncedStays'
    BY <1>1 DEF FilledIsWhole, AnnouncedStays
  <1> QED BY <1>3, <1>4, <1>5

\* Cache and items are replaced by a listing that holds what is due.
LEMMA TakeInListingStep ==
    ASSUME SidebarIInv, NEW d \in DashCall, TakeInListing(d)
    PROVE  SidebarIInv'
  <1> USE DEF SidebarIInv
  <1> DEFINE listed == dash[d].convs
             undecrypted == (listed \cap Group) \ keyed
             waiting == [of : {"key"}, conv : undecrypted]
  <1>1. /\ dash[d].at = "answered"
        /\ dash' = [dash EXCEPT ![d] = Idle]
        /\ known' = listed
        /\ subscribed' = IF connected THEN subscribed \cup listed ELSE subscribed
        /\ shown' = IF connected THEN listed \ undecrypted ELSE {}
        /\ awaiting' = awaiting \cup (IF connected THEN waiting ELSE {})
        /\ filled' = connected
        /\ stray' = AboutToShow \ listed
        /\ due' = IF connected THEN due \cup {c \in listed : Lasting(c, DashCall \ {d})} ELSE due
        /\ UNCHANGED <<joined, transit, connected, keyed>>
    BY DEF TakeInListing
  <1>2. /\ listed \in SUBSET Conv /\ listed \subseteq joined
        /\ due \subseteq listed
    BY <1>1, CallAt DEF OnlyJoinedAnnounced, DueIsListed
  <1>3. /\ waiting \subseteq Continuation
        /\ \A t \in waiting : t.of = "key" /\ t.conv \in undecrypted
        /\ \A c \in undecrypted : \E t \in waiting : t.conv = c
    <2>1. \A c \in undecrypted : [of |-> "key", conv |-> c] \in waiting
      OBVIOUS
    <2> QED BY <1>2, <2>1 DEF Continuation
  <1> HIDE DEF listed, undecrypted, waiting
  <1>4. undecrypted \subseteq listed
    BY DEF undecrypted
  <1>5. /\ dash' \in [DashCall -> {Idle} \cup Listing]
        /\ dash'[d].at = "idle"
        /\ \A e \in DashCall : e # d => dash'[e] = dash[e]
    BY <1>1, Stages, OneCallChanges
  <1>6. due' \subseteq listed
    BY <1>1, <1>2
  <1>7. TypeOK'
    <2>1. stray' \subseteq Conv
      BY <1>1, ContinuationAt DEF AboutToShow, TypeOK
    <2> QED BY <1>1, <1>2, <1>3, <1>5, <1>6, <2>1 DEF TypeOK
  <1>8. OnlyJoinedAnnounced'
    BY <1>1, <1>5 DEF OnlyJoinedAnnounced
  <1>9. DueIsListed'
    <2>1. due' \subseteq joined'
      BY <1>1, <1>2, <1>6
    <2>2. ~connected' => due' = {}
      BY <1>1 DEF DueIsListed
    <2>3. ASSUME NEW e \in DashCall, dash'[e].at = "answered"
          PROVE  due' \subseteq dash'[e].convs
      <3>1. e # d /\ dash'[e] = dash[e]
        BY <1>5, <2>3
      <3>2. \A c \in listed : Lasting(c, DashCall \ {d}) => c \in dash[e].convs
        BY <2>3, <3>1 DEF Lasting
      <3>3. due \subseteq dash[e].convs
        BY <2>3, <3>1 DEF DueIsListed
      <3> QED BY <1>1, <3>1, <3>2, <3>3
    <2>4. connected' => due' \cap known' \subseteq subscribed'
      BY <1>1
    <2> QED BY <2>1, <2>2, <2>3, <2>4 DEF DueIsListed
  <1>10. FilledIsWhole'
    <2> SUFFICES ASSUME connected
                 PROVE  /\ known' \subseteq subscribed'
                        /\ shown' \subseteq known'
                        /\ known' \subseteq shown' \cup {t.conv : t \in awaiting'}
                        /\ \A t \in awaiting' : t.of # "added" => t.conv \in known' \cup stray'
      BY <1>1 DEF FilledIsWhole
    <2>1. known' \subseteq subscribed' /\ shown' \subseteq known'
      BY <1>1, <1>4
    <2>2. known' \subseteq shown' \cup {t.conv : t \in waiting}
      BY <1>1, <1>3
    <2>3. \A t \in awaiting : t.of # "added" => t.conv \in AboutToShow
      BY DEF AboutToShow
    <2>4. \A t \in awaiting' : t.of # "added" => t.conv \in known' \cup stray'
      BY <1>1, <1>3, <1>4, <2>3
    <2> QED BY <1>1, <2>1, <2>2, <2>4
  <1>11. AnnouncedStays'
    <2> SUFFICES ASSUME NEW c \in due'
                 PROVE  /\ c \in known'
                        /\ c \in shown' \/ \E t \in awaiting' : t.conv = c
      BY DEF AnnouncedStays
    <2>1. c \in listed /\ connected
      BY <1>1, <1>6 DEF DueIsListed
    <2> QED BY <1>1, <1>3, <2>1
  <1> QED BY <1>7, <1>8, <1>9, <1>10, <1>11

\* A call that fails leaves everything else as it is.
LEMMA DashboardFailsStep ==
    ASSUME SidebarIInv, NEW d \in DashCall, DashboardFails(d)
    PROVE  SidebarIInv'
  <1> USE DEF SidebarIInv
  <1>1. /\ dash' = [dash EXCEPT ![d] = Idle]
        /\ UNCHANGED <<joined, transit, connected, known, shown, subscribed, keyed, awaiting,
                       filled, stray, due>>
    BY DEF DashboardFails, client, history
  <1>2. /\ dash' \in [DashCall -> {Idle} \cup Listing]
        /\ dash'[d].at = "idle"
        /\ \A e \in DashCall : e # d => dash'[e] = dash[e]
    BY <1>1, Stages, OneCallChanges
  <1>3. TypeOK'
    BY <1>1, <1>2 DEF TypeOK
  <1>4. OnlyJoinedAnnounced' /\ DueIsListed'
    BY <1>1, <1>2 DEF OnlyJoinedAnnounced, DueIsListed
  <1>5. FilledIsWhole' /\ AnnouncedStays'
    BY <1>1 DEF FilledIsWhole, AnnouncedStays
  <1> QED BY <1>3, <1>4, <1>5

\* A handler shows the conversation it waited with, which is in the cache or a
\* stray.
LEMMA ShownAfterAwait ==
    ASSUME SidebarIInv, NEW t \in awaiting, t.of # "added",
           awaiting' = awaiting \ {t},
           shown' = shown \cup {t.conv},
           keyed' \in SUBSET Group,
           UNCHANGED <<joined, transit, connected, known, subscribed, dash, history>>
    PROVE  SidebarIInv'
  <1> USE DEF SidebarIInv
  <1>1. UNCHANGED <<filled, stray, due>> /\ t.conv \in Conv
    BY ContinuationAt DEF history, TypeOK
  <1>2. TypeOK'
    BY <1>1 DEF TypeOK
  <1>3. OnlyJoinedAnnounced' /\ DueIsListed'
    BY <1>1 DEF OnlyJoinedAnnounced, DueIsListed
  <1>4. FilledIsWhole'
    BY <1>1 DEF FilledIsWhole
  <1>5. AnnouncedStays'
    <2>1. \A c \in Conv : [of |-> "added", conv |-> c] # t
      OBVIOUS
    <2> QED BY <1>1, <2>1 DEF AnnouncedStays, TypeOK
  <1> QED BY <1>2, <1>3, <1>4, <1>5

\* A listed group is shown after its key.
LEMMA ShowListedGroupStep ==
    ASSUME SidebarIInv, NEW g \in Conv, ShowListedGroup(g)
    PROVE  SidebarIInv'
  <1> DEFINE t == [of |-> "key", conv |-> g]
  <1>1. t \in awaiting /\ t.of = "key" /\ t.conv = g
    BY DEF ShowListedGroup
  <1>2. g \in Group
    BY <1>1, ContinuationAt DEF SidebarIInv, TypeOK
  <1>3. /\ awaiting' = awaiting \ {t}
        /\ shown' = shown \cup {t.conv}
        /\ keyed' \in {keyed, keyed \cup {g}}
        /\ UNCHANGED <<joined, transit, connected, known, subscribed, dash, history>>
    BY DEF ShowListedGroup, Finish, Decrypt, RenderSidebarItem
  <1>4. keyed' \in SUBSET Group
    BY <1>2, <1>3 DEF SidebarIInv, TypeOK
  <1> QED BY <1>1, <1>3, <1>4, ShownAfterAwait

\* An announced direct conversation is shown after its presence.
LEMMA ShowNewConversationStep ==
    ASSUME SidebarIInv, NEW c \in Conv, ShowNewConversation(c)
    PROVE  SidebarIInv'
  <1> DEFINE t == [of |-> "created", conv |-> c]
  <1>1. t \in awaiting /\ t.of = "created" /\ t.conv = c
    BY DEF ShowNewConversation
  <1>2. /\ awaiting' = awaiting \ {t}
        /\ shown' = shown \cup {t.conv}
        /\ keyed' \in SUBSET Group
        /\ UNCHANGED <<joined, transit, connected, known, subscribed, dash, history>>
    BY DEF ShowNewConversation, Finish, RenderSidebarItem, SidebarIInv, TypeOK
  <1> QED BY <1>1, <1>2, ShownAfterAwait

\* What is heard is joined; it is due if every listing that has still to be
\* taken in has it.
LEMMA HearEffect ==
    ASSUME SidebarIInv, NEW c \in Conv, Hear(c)
    PROVE  /\ connected /\ c \in joined
           /\ transit' = transit \ {c}
           /\ \/ due' = due
              \/ /\ due' = due \cup {c} /\ filled
                 /\ \A d \in DashCall : dash[d].at = "answered" => c \in dash[d].convs
  BY DEF Hear, Lasting, SidebarIInv, OnlyJoinedAnnounced

\* A known group is rendered again; of an unknown one the handler waits with it.
LEMMA HandleAddedToGroupStep ==
    ASSUME SidebarIInv, NEW g \in Conv, HandleAddedToGroup(g)
    PROVE  SidebarIInv'
  <1> USE DEF SidebarIInv
  <1> DEFINE t == [of |-> "added", conv |-> g]
  <1>1. /\ connected /\ g \in joined
        /\ transit' = transit \ {g}
        /\ \/ due' = due
           \/ /\ due' = due \cup {g} /\ filled
              /\ \A d \in DashCall : dash[d].at = "answered" => g \in dash[d].convs
        /\ UNCHANGED <<joined, connected, known, subscribed, keyed, dash, filled, stray>>
    BY HearEffect DEF HandleAddedToGroup
  <1>2. \/ g \in known /\ shown' = shown \cup {g} /\ awaiting' = awaiting
        \/ g \notin known /\ shown' = shown /\ awaiting' = awaiting \cup {t}
    BY DEF HandleAddedToGroup, RenderSidebarItem
  <1>3. t \in Continuation /\ t.of = "added" /\ t.conv = g
    BY DEF HandleAddedToGroup, Continuation
  <1>4. TypeOK'
    <2>1. due' \subseteq Conv /\ transit' \subseteq Conv
      BY <1>1 DEF TypeOK
    <2>2. shown' \subseteq Conv /\ awaiting' \subseteq Continuation
      BY <1>2, <1>3 DEF TypeOK
    <2> QED BY <1>1, <2>1, <2>2 DEF TypeOK
  <1>5. OnlyJoinedAnnounced'
    BY <1>1 DEF OnlyJoinedAnnounced
  <1>6. DueIsListed'
    <2>1. known \cap due' \subseteq subscribed
      BY <1>1 DEF DueIsListed, FilledIsWhole
    <2> QED BY <1>1, <2>1 DEF DueIsListed
  <1>7. FilledIsWhole'
    BY <1>1, <1>2, <1>3 DEF FilledIsWhole
  <1>8. AnnouncedStays'
    <2> SUFFICES ASSUME NEW c \in due'
                 PROVE  /\ c \in known \/ [of |-> "added", conv |-> c] \in awaiting'
                        /\ c \in shown' \/ \E s \in awaiting' : s.conv = c
      BY <1>1 DEF AnnouncedStays
    <2>1. CASE c \in due
      BY <1>2, <2>1 DEF AnnouncedStays
    <2>2. CASE c = g
      BY <1>2, <1>3, <2>2
    <2> QED BY <1>1, <2>1, <2>2
  <1> QED BY <1>4, <1>5, <1>6, <1>7, <1>8

\* The group that was waited with is cached, and served if there is a session.
LEMMA AddGroupStep ==
    ASSUME SidebarIInv, NEW g \in Conv, AddGroup(g)
    PROVE  SidebarIInv'
  <1> USE DEF SidebarIInv
  <1> DEFINE t == [of |-> "added", conv |-> g]
  <1>1. /\ t \in awaiting /\ t.of = "added" /\ t.conv = g
        /\ awaiting' = awaiting \ {t}
        /\ known' = known \cup {g}
        /\ subscribed' = IF connected THEN subscribed \cup {g} ELSE subscribed
        /\ shown' = IF connected THEN shown \cup {g} ELSE shown
        /\ keyed' \in {keyed, keyed \cup {g}}
        /\ stray' = stray \ {g}
        /\ UNCHANGED <<joined, transit, connected, dash, filled, due>>
    BY DEF AddGroup, Finish, Decrypt, RenderSidebarItem
  <1> HIDE DEF t
  <1>2. g \in Group
    BY <1>1, ContinuationAt DEF TypeOK
  <1>3. TypeOK'
    BY <1>1, <1>2 DEF TypeOK
  <1>4. OnlyJoinedAnnounced' /\ DueIsListed'
    BY <1>1 DEF OnlyJoinedAnnounced, DueIsListed
  <1>5. FilledIsWhole'
    BY <1>1 DEF FilledIsWhole
  <1>6. AnnouncedStays'
    <2> SUFFICES ASSUME NEW c \in due
                 PROVE  /\ c \in known' \/ [of |-> "added", conv |-> c] \in awaiting'
                        /\ c \in shown' \/ \E s \in awaiting' : s.conv = c
      BY <1>1 DEF AnnouncedStays
    <2>1. connected
      BY DEF DueIsListed
    <2>2. CASE c = g
      BY <1>1, <2>1, <2>2
    <2>3. CASE c # g
      <3>1. [of |-> "added", conv |-> c] # t
        BY <1>1, <2>3
      <3> QED BY <1>1, <2>1, <2>3, <3>1 DEF AnnouncedStays
    <2> QED BY <2>2, <2>3
  <1> QED BY <1>3, <1>4, <1>5, <1>6

\* A new direct conversation is cached at once, and waited with.
LEMMA HandleNewConversationCreatedStep ==
    ASSUME SidebarIInv, NEW c \in Conv, HandleNewConversationCreated(c)
    PROVE  SidebarIInv'
  <1> USE DEF SidebarIInv
  <1> DEFINE t == [of |-> "created", conv |-> c]
  <1>1. /\ connected /\ c \in joined
        /\ transit' = transit \ {c}
        /\ \/ due' = due
           \/ /\ due' = due \cup {c} /\ filled
              /\ \A d \in DashCall : dash[d].at = "answered" => c \in dash[d].convs
        /\ UNCHANGED <<joined, connected, shown, keyed, dash, filled, stray>>
    BY HearEffect DEF HandleNewConversationCreated
  <1>2. \/ c \in known /\ known' = known /\ subscribed' = subscribed /\ awaiting' = awaiting
        \/ /\ c \notin known /\ known' = known \cup {c}
           /\ subscribed' = subscribed \cup {c} /\ awaiting' = awaiting \cup {t}
    BY DEF HandleNewConversationCreated
  <1>3. t \in Continuation /\ t.of = "created" /\ t.conv = c
    BY DEF Continuation
  <1> HIDE DEF t
  <1>4. TypeOK'
    <2>1. due' \subseteq Conv /\ transit' \subseteq Conv
      BY <1>1 DEF TypeOK
    <2>2. known' \subseteq Conv /\ subscribed' \subseteq Conv /\ awaiting' \subseteq Continuation
      BY <1>2, <1>3 DEF TypeOK
    <2> QED BY <1>1, <2>1, <2>2 DEF TypeOK
  <1>5. OnlyJoinedAnnounced'
    BY <1>1 DEF OnlyJoinedAnnounced
  <1>6. DueIsListed'
    <2>1. known' \cap due' \subseteq subscribed'
      BY <1>1, <1>2 DEF DueIsListed, FilledIsWhole
    <2> QED BY <1>1, <2>1 DEF DueIsListed
  <1>7. FilledIsWhole'
    BY <1>1, <1>2, <1>3 DEF FilledIsWhole
  <1>8. AnnouncedStays'
    <2> SUFFICES ASSUME NEW e \in due'
                 PROVE  /\ e \in known' \/ [of |-> "added", conv |-> e] \in awaiting'
                        /\ e \in shown \/ \E s \in awaiting' : s.conv = e
      BY <1>1 DEF AnnouncedStays
    <2>1. CASE e \in due
      BY <1>2, <2>1 DEF AnnouncedStays
    <2>2. CASE e = c /\ filled
      BY <1>2, <1>3, <2>2 DEF FilledIsWhole
    <2> QED BY <1>1, <2>1, <2>2
  <1> QED BY <1>4, <1>5, <1>6, <1>7, <1>8

\* After a logout nothing is due.
LEMMA HandleLogoutStep ==
    ASSUME SidebarIInv, HandleLogout
    PROVE  SidebarIInv'
  <1> USE DEF SidebarIInv
  <1>1. TypeOK'
    BY DEF HandleLogout, TypeOK
  <1>2. OnlyJoinedAnnounced' /\ DueIsListed'
    BY DEF HandleLogout, OnlyJoinedAnnounced, DueIsListed
  <1>3. FilledIsWhole' /\ AnnouncedStays'
    BY DEF HandleLogout, FilledIsWhole, AnnouncedStays
  <1> QED BY <1>1, <1>2, <1>3

\* The invariant holds before the first login.
LEMMA SidebarInitInv == Init => SidebarIInv
  <1> SUFFICES ASSUME Init
               PROVE  SidebarIInv
    OBVIOUS
  <1>1. \A d \in DashCall : dash[d] = Idle /\ dash[d].at = "idle"
    BY DEF Init, Idle
  <1>2. TypeOK
    BY DEF Init, TypeOK
  <1>3. OnlyJoinedAnnounced /\ DueIsListed
    BY <1>1 DEF Init, OnlyJoinedAnnounced, DueIsListed
  <1>4. FilledIsWhole /\ AnnouncedStays
    BY DEF Init, FilledIsWhole, AnnouncedStays
  <1> QED BY <1>2, <1>3, <1>4 DEF SidebarIInv

\* No step of the sidebar breaks it.
LEMMA SidebarNextInv == SidebarIInv /\ [Next]_vars => SidebarIInv'
  <1> SUFFICES ASSUME SidebarIInv, [Next]_vars
               PROVE  SidebarIInv'
    OBVIOUS
  <1>1. ASSUME NEW d \in DashCall, Login(d) \/ LoadDashboard(d)
        PROVE  SidebarIInv'
    BY <1>1, AskStep DEF Login, LoadDashboard, client
  <1>2. CASE SidebarStep
    BY <1>1, <1>2, ListConversationsStep, TakeInListingStep, DashboardFailsStep, JoinStep,
       ShowListedGroupStep, HandleAddedToGroupStep, AddGroupStep,
       HandleNewConversationCreatedStep, ShowNewConversationStep DEF SidebarStep
  <1>3. CASE UNCHANGED vars
    BY <1>3 DEF vars, client, history, SidebarIInv, TypeOK, OnlyJoinedAnnounced, DueIsListed,
        FilledIsWhole, AnnouncedStays
  <1> QED BY <1>2, <1>3, HandleLogoutStep DEF Next

\* The sidebar's inductive invariant, for any conversations and calls.
THEOREM SidebarInvariance == Spec => []SidebarIInv
  BY SidebarInitInv, SidebarNextInv, PTL DEF Spec

\* Once a session has its first listing it shows only what it can open, and
\* strays.
THEOREM ShownCanBeOpenedAlways == Spec => []ShownCanBeOpened
  <1>1. SidebarIInv => ShownCanBeOpened
    BY DEF SidebarIInv, FilledIsWhole, ShownCanBeOpened
  <1> QED BY <1>1, SidebarInvariance, PTL

\* What was listed or announced stays for the session, unless a listing answered
\* without it was already on its way back.
THEOREM AnnouncedStaysAlways == Spec => []AnnouncedStays
  <1>1. SidebarIInv => AnnouncedStays
    BY DEF SidebarIInv
  <1> QED BY <1>1, SidebarInvariance, PTL

(***************************************************************************)
(* The client                                                              *)
(***************************************************************************)

TypingIInv == T!TypeOK /\ IndicatorIsCurrent /\ StopIsOwed /\ OwedToOpen

\* Clearing the timers of the users who have an entry leaves each who keeps
\* his entry with one, and the others with none.
LEMMA ClearedFacts ==
    ASSUME TypingIInv, NEW U \in SUBSET Peer
    PROVE  /\ T!Cleared(U) \in [Peer -> 0..1]
           /\ \A u \in Peer : T!Cleared(U)[u] = IF u \notin U /\ typing[u] # NoConv THEN 1 ELSE 0
  BY DEF TypingIInv, T!TypeOK, T!Cleared, IndicatorIsCurrent, T!IndicatorIsCurrent

\* Opening another conversation unsettles the indicator, and owes nothing.
LEMMA OpenConversationStep ==
    ASSUME TypingIInv, UNCHANGED vars, NEW c \in Conv, T!OpenConversation(c)
    PROVE  TypingIInv'
  <1> USE DEF TypingIInv
  <1>1. T!TypeOK'
    BY DEF T!OpenConversation, T!TypeOK
  <1> QED BY <1>1 DEF T!OpenConversation, IndicatorIsCurrent, T!IndicatorIsCurrent,
             StopIsOwed, T!StopIsOwed, OwedToOpen, T!TypeOK

\* The first history that is there clears what earlier conversations left.
LEMMA EndOpeningStep ==
    ASSUME TypingIInv, UNCHANGED vars, T!EndOpening
    PROVE  TypingIInv'
  <1> USE DEF TypingIInv
  <1>1. timers' = T!Cleared(Peer) /\ timers' \in [Peer -> 0..1]
        /\ \A u \in Peer : timers'[u] = 0
    BY ClearedFacts DEF T!EndOpening
  <1>2. /\ typing' = [u \in Peer |-> NoConv]
        /\ opening' \in BOOLEAN /\ settled' = TRUE
        /\ UNCHANGED <<open, throttled, stopping, owed, connected>>
    BY DEF T!EndOpening, T!own, vars, client
  <1>3. T!TypeOK'
    BY <1>1, <1>2 DEF T!TypeOK
  <1>4. IndicatorIsCurrent'
    BY <1>1, <1>2 DEF IndicatorIsCurrent, T!IndicatorIsCurrent
  <1>5. StopIsOwed' /\ OwedToOpen'
    BY <1>2 DEF StopIsOwed, T!StopIsOwed, OwedToOpen
  <1> QED BY <1>3, <1>4, <1>5

\* TYPING names its sender in the open conversation, with one timer.
LEMMA HandleIncomingTypingStep ==
    ASSUME TypingIInv, UNCHANGED vars, NEW u \in Peer, T!HandleIncomingTyping(u)
    PROVE  TypingIInv'
  <1> USE DEF TypingIInv
  <1>1. /\ open # NoConv /\ open \in Conv \cup {NoConv}
        /\ typing' = [typing EXCEPT ![u] = open]
        /\ timers' = [T!Cleared({u}) EXCEPT ![u] = @ + 1]
        /\ UNCHANGED <<open, opening, throttled, stopping, owed, settled, connected>>
    BY DEF T!HandleIncomingTyping, T!Heard, T!own, T!TypeOK, vars, client
  <1>2. /\ timers' \in [Peer -> 0..1]
        /\ \A v \in Peer : timers'[v] = IF v = u \/ typing[v] # NoConv THEN 1 ELSE 0
    BY <1>1, ClearedFacts
  <1>3. /\ typing' \in [Peer -> Conv \cup {NoConv}]
        /\ \A v \in Peer : typing'[v] = IF v = u THEN open ELSE typing[v]
    BY <1>1 DEF T!TypeOK
  <1>4. T!TypeOK'
    BY <1>1, <1>2, <1>3 DEF T!TypeOK
  <1>5. IndicatorIsCurrent'
    BY <1>1, <1>2, <1>3 DEF IndicatorIsCurrent, T!IndicatorIsCurrent
  <1>6. StopIsOwed' /\ OwedToOpen'
    BY <1>1 DEF StopIsOwed, T!StopIsOwed, OwedToOpen
  <1> QED BY <1>4, <1>5, <1>6

\* STOP_TYPING, a message or the 3 s timer takes entry and timer away together.
LEMMA EntryEnds ==
    ASSUME TypingIInv, UNCHANGED vars, NEW u \in Peer,
           T!HandleIncomingStop(u) \/ T!Expire(u)
    PROVE  TypingIInv'
  <1> USE DEF TypingIInv
  <1>1. /\ typing' = [typing EXCEPT ![u] = NoConv]
        /\ UNCHANGED <<open, opening, throttled, stopping, owed, settled, connected>>
    BY DEF T!HandleIncomingStop, T!Expire, T!own, vars, client
  <1>2. /\ timers' \in [Peer -> 0..1]
        /\ \A v \in Peer : timers'[v] = IF v # u /\ typing[v] # NoConv THEN 1 ELSE 0
    <2>1. CASE T!HandleIncomingStop(u)
      BY <2>1, ClearedFacts DEF T!HandleIncomingStop
    <2>2. CASE T!Expire(u)
      BY <2>2 DEF T!Expire, T!TypeOK, IndicatorIsCurrent, T!IndicatorIsCurrent
    <2> QED BY <2>1, <2>2
  <1>3. /\ typing' \in [Peer -> Conv \cup {NoConv}]
        /\ \A v \in Peer : typing'[v] = IF v = u THEN NoConv ELSE typing[v]
    BY <1>1 DEF T!TypeOK
  <1>4. T!TypeOK'
    BY <1>1, <1>2, <1>3 DEF T!TypeOK
  <1>5. IndicatorIsCurrent'
    BY <1>1, <1>2, <1>3 DEF IndicatorIsCurrent, T!IndicatorIsCurrent
  <1>6. StopIsOwed' /\ OwedToOpen'
    BY <1>1 DEF StopIsOwed, T!StopIsOwed, OwedToOpen
  <1> QED BY <1>4, <1>5, <1>6

\* The user types or stops, or one of the two timers of his own fires: what
\* is owed is told before the stop timer is gone.
LEMMA OwnTypingStep ==
    ASSUME TypingIInv, UNCHANGED vars,
           T!HandleTyping \/ T!StopTyping \/ T!StopTimer \/ T!ThrottleEnds
    PROVE  TypingIInv'
  <1> USE DEF TypingIInv
  <1>1. UNCHANGED <<open, opening, typing, timers, settled, connected>>
    BY DEF T!HandleTyping, T!StopTyping, T!StopTimer, T!ThrottleEnds, vars, client
  <1>2. throttled' \in BOOLEAN /\ stopping' \in BOOLEAN /\ owed' \in BOOLEAN
    BY DEF T!HandleTyping, T!StopTyping, T!StopTimer, T!ThrottleEnds, T!TypeOK
  <1>3. T!TypeOK'
    BY <1>1, <1>2 DEF T!TypeOK
  <1>4. IndicatorIsCurrent'
    BY <1>1 DEF IndicatorIsCurrent, T!IndicatorIsCurrent
  <1>5. StopIsOwed' /\ OwedToOpen'
    <2> USE <1>1 DEF StopIsOwed, T!StopIsOwed, OwedToOpen
    <2>1. CASE T!HandleTyping
      BY <2>1 DEF T!HandleTyping
    <2>2. CASE T!StopTyping
      BY <2>2 DEF T!StopTyping
    <2>3. CASE T!StopTimer
      BY <2>3 DEF T!StopTimer
    <2>4. CASE T!ThrottleEnds
      BY <2>4 DEF T!ThrottleEnds
    <2> QED BY <2>1, <2>2, <2>3, <2>4
  <1> QED BY <1>3, <1>4, <1>5

\* Nothing is shown, listed or typed at first.
LEMMA ClientInitInv == ClientInit => ClientIInv
  <1> SUFFICES ASSUME Init, T!Init
               PROVE  ClientIInv
    BY DEF ClientInit
  <1>1. T!TypeOK
    <2>1. /\ open \in Conv \cup {NoConv}
          /\ typing \in [Peer -> Conv \cup {NoConv}]
          /\ timers \in [Peer -> 0..1]
      BY DEF T!Init
    <2>2. /\ opening \in BOOLEAN /\ throttled \in BOOLEAN /\ stopping \in BOOLEAN
          /\ settled \in BOOLEAN /\ owed \in BOOLEAN
      BY DEF T!Init
    <2> QED BY <2>1, <2>2 DEF T!TypeOK
  <1>2. IndicatorIsCurrent /\ StopIsOwed /\ OwedToOpen
    BY DEF T!Init, IndicatorIsCurrent, T!IndicatorIsCurrent, StopIsOwed, T!StopIsOwed, OwedToOpen
  <1> QED BY <1>1, <1>2, SidebarInitInv DEF ClientIInv

\* A logout closes the conversation for both; otherwise one of the two moves,
\* and the sidebar ends no session that something is owed over.
LEMMA ClientNextInv == ClientIInv /\ [ClientNext]_clientVars => ClientIInv'
  <1> SUFFICES ASSUME ClientIInv, [ClientNext]_clientVars
               PROVE  ClientIInv'
    OBVIOUS
  <1>1. SidebarIInv /\ TypingIInv
    BY DEF ClientIInv, TypingIInv
  <1>2. CASE HandleLogout /\ T!HandleLogout
    <2>1. SidebarIInv'
      BY <1>1, <1>2, HandleLogoutStep
    <2>2. T!TypeOK'
      BY <1>1, <1>2 DEF TypingIInv, T!HandleLogout, T!TypeOK
    <2>3. (IndicatorIsCurrent /\ StopIsOwed /\ OwedToOpen)'
      BY <1>1, <1>2 DEF TypingIInv, T!HandleLogout, IndicatorIsCurrent, T!IndicatorIsCurrent,
         StopIsOwed, T!StopIsOwed, OwedToOpen
    <2> QED BY <2>1, <2>2, <2>3 DEF ClientIInv
  <1>3. CASE SidebarStep /\ UNCHANGED typingVars
    <2>1. SidebarIInv'
      BY <1>1, <1>3, SidebarNextInv DEF Next
    <2>2. (T!TypeOK /\ IndicatorIsCurrent /\ StopIsOwed)'
      BY <1>1, <1>3 DEF TypingIInv, typingVars, T!TypeOK, IndicatorIsCurrent,
         T!IndicatorIsCurrent, StopIsOwed, T!StopIsOwed
    <2>3. connected => connected'
      BY <1>3 DEF SidebarStep, Join, Login, LoadDashboard, ListConversations, TakeInListing,
         DashboardFails, ShowListedGroup, HandleAddedToGroup, AddGroup,
         HandleNewConversationCreated, ShowNewConversation, client
    <2>4. OwedToOpen'
      BY <1>1, <1>3, <2>3 DEF TypingIInv, OwedToOpen, typingVars
    <2> QED BY <2>1, <2>2, <2>4 DEF ClientIInv
  <1>4. CASE T!Step /\ UNCHANGED vars
    <2>1. SidebarIInv'
      BY <1>1, <1>4, SidebarNextInv
    <2>2. TypingIInv'
      BY <1>1, <1>4, OpenConversationStep, EndOpeningStep, HandleIncomingTypingStep,
         EntryEnds, OwnTypingStep DEF T!Step
    <2> QED BY <2>1, <2>2 DEF ClientIInv, TypingIInv
  <1>5. CASE UNCHANGED clientVars
    <2>1. SidebarIInv'
      BY <1>1, <1>5, SidebarNextInv DEF clientVars
    <2>2. (T!TypeOK /\ IndicatorIsCurrent /\ StopIsOwed /\ OwedToOpen)'
      BY <1>1, <1>5 DEF TypingIInv, clientVars, typingVars, vars, client, T!TypeOK,
         IndicatorIsCurrent, T!IndicatorIsCurrent, StopIsOwed, T!StopIsOwed, OwedToOpen
    <2> QED BY <2>1, <2>2 DEF ClientIInv
  <1> QED BY <1>2, <1>3, <1>4, <1>5 DEF ClientNext

\* The client's inductive invariant, for any conversations, calls and peers.
THEOREM ClientInvariance == ClientSpec => []ClientIInv
  BY ClientInitInv, ClientNextInv, PTL DEF ClientSpec

\* Type correctness of the sidebar and the typing indicator.
THEOREM ClientTypeCorrect == ClientSpec => []ClientTypeOK
  <1>1. ClientIInv => ClientTypeOK
    BY DEF ClientIInv, SidebarIInv, ClientTypeOK
  <1> QED BY <1>1, ClientInvariance, PTL

\* The indicator names users who type in the open conversation, each with
\* exactly one timer.
THEOREM IndicatorCurrent == ClientSpec => []IndicatorIsCurrent
  <1>1. ClientIInv => IndicatorIsCurrent
    BY DEF ClientIInv
  <1> QED BY <1>1, ClientInvariance, PTL

\* A conversation that was told its user types has a timer that will tell it
\* that he stopped.
THEOREM StopOwed == ClientSpec => []StopIsOwed
  <1>1. ClientIInv => StopIsOwed
    BY DEF ClientIInv
  <1> QED BY <1>1, ClientInvariance, PTL

\* The typing indicator does not disturb the sidebar: the client implements it,
\* and has its two properties.
THEOREM ClientImplementsSidebar ==
    ClientSpec => Spec /\ []ShownCanBeOpened /\ []AnnouncedStays
  <1>1. ClientInit => Init
    BY DEF ClientInit
  <1>2. [ClientNext]_clientVars => [Next]_vars
    BY DEF ClientNext, Next, clientVars
  <1> QED BY <1>1, <1>2, ShownCanBeOpenedAlways, AnnouncedStaysAlways, PTL DEF ClientSpec, Spec

\* An open conversation that is due stays cached and subscribed until the user
\* logs out, whatever listings are asked for, answered and taken in.
THEOREM OpenServed == ClientSpec => OpenStaysServed
  <1> DEFINE Served ==
        (open \in due \cap known /\ connected') => open \in known' \cap subscribed'
  <1>1. ClientIInv /\ [ClientNext]_clientVars => [Served]_clientVars
    <2> SUFFICES ASSUME ClientIInv, ClientNext, open \in due \cap known, connected'
                 PROVE  open \in known' \cap subscribed'
      OBVIOUS
    <2>1. connected /\ open \in subscribed
      BY DEF ClientIInv, SidebarIInv, DueIsListed
    <2>2. CASE UNCHANGED <<known, subscribed>>
      BY <2>1, <2>2
    <2>3. ASSUME NEW d \in DashCall, TakeInListing(d)
          PROVE  open \in known' \cap subscribed'
      <3>1. due \subseteq dash[d].convs
        BY <2>3 DEF TakeInListing, ClientIInv, SidebarIInv, DueIsListed
      <3> QED BY <2>1, <2>3, <3>1 DEF TakeInListing
    <2>4. ASSUME NEW c \in Conv, AddGroup(c) \/ HandleNewConversationCreated(c)
          PROVE  open \in known' \cap subscribed'
      BY <2>1, <2>4 DEF AddGroup, HandleNewConversationCreated
    <2>5. CASE SidebarStep
      BY <2>1, <2>2, <2>3, <2>4, <2>5 DEF SidebarStep, Join, Login, LoadDashboard,
         ListConversations, DashboardFails, ShowListedGroup, HandleAddedToGroup,
         ShowNewConversation, client
    <2>6. CASE HandleLogout
      BY <2>6 DEF HandleLogout
    <2>7. CASE UNCHANGED vars
      BY <2>2, <2>7 DEF vars, client
    <2> QED BY <2>5, <2>6, <2>7 DEF ClientNext
  <1> QED BY <1>1, ClientInvariance, PTL DEF ClientSpec, OpenStaysServed
=============================================================================
