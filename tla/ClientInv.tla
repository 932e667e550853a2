------------------------------ MODULE ClientInv ------------------------------
(***************************************************************************)
(* The inductive invariants of the sidebar and of the client around it.    *)
(***************************************************************************)
EXTENDS Client

\* Announcements and listings are of conversations the user is in.
OnlyJoinedAnnounced ==
    /\ transit \subseteq joined
    /\ \A d \in DashCall : dash[d].at = "answered" => dash[d].convs \subseteq joined

\* What is due is in every listing on its way, so taking one in, however old,
\* loses nothing; what of it is in the cache is subscribed.
DueIsListed ==
    /\ due \subseteq joined
    /\ ~connected => due = {}
    /\ \A d \in DashCall : dash[d].at = "answered" => due \subseteq dash[d].convs
    /\ connected => due \cap known \subseteq subscribed

\* From the first listing of a session on, cache, items and subscriptions go
\* together, but for strays and up to the handlers that have still to show what
\* they added.
FilledIsWhole ==
    filled =>
        /\ connected
        /\ known \subseteq subscribed
        /\ shown \subseteq known \cup stray
        /\ known \subseteq shown \cup {t.conv : t \in awaiting}
        /\ \A t \in awaiting : t.of # "added" => t.conv \in known \cup stray

SidebarIInv ==
    /\ TypeOK
    /\ OnlyJoinedAnnounced
    /\ DueIsListed
    /\ FilledIsWhole
    /\ AnnouncedStays

\* STOP_TYPING is owed to a conversation that is still open, over a session
\* that is still there: the timer finds both when it fires.
OwedToOpen == owed => open # NoConv /\ connected

ClientIInv ==
    /\ SidebarIInv
    /\ T!TypeOK
    /\ IndicatorIsCurrent
    /\ StopIsOwed
    /\ OwedToOpen
=============================================================================
