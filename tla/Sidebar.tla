-------------------------------- MODULE Sidebar --------------------------------
(***************************************************************************)
(* The sidebar of the browser client (client/js/app.js): the listing that  *)
(* fills it, the events that announce a new conversation, and what they    *)
(* leave in the cache of conversations, the item list, the subscriptions   *)
(* and the cache of group keys.  As in ChatView an action is the stretch   *)
(* of an async handler from one await to the next.                         *)
(*                                                                         *)
(* One user; of a conversation only its name is kept.  Presence dots and   *)
(* friend requests are left out.                                           *)
(***************************************************************************)
EXTENDS FiniteSets

CONSTANTS
    Conv,
    Group,      \* the conversations announced by ADDED_TO_GROUP
    DashCall    \* calls of loadDashboard that await their listing at the same time

ASSUME SidebarAssumption == Group \subseteq Conv

VARIABLES
    joined,     \* the server: conversations the user is a participant of
    transit,    \* announcements that have not arrived (or are lost)
    connected,  \* centrifuge is not null: the user is logged in
    known,      \* keys of conversationsObj
    shown,      \* items of els.convList
    subscribed, \* channels in currentSubscriptions
    keyed,      \* groups whose key is cached; survives a logout
    dash,       \* the calls of loadDashboard
    awaiting,   \* handlers that will add or show a conversation after their await
    (* History: what happened in this session, read by the properties only. *)
    filled,     \* a listing was taken in since the login
    stray,      \* conversations a handler was about to show when a listing without
                \* them was taken in
    due         \* conversations listed or announced while no listing without them
                \* was on its way back

client  == <<connected, known, shown, subscribed, keyed>>
history == <<filled, stray, due>>
vars    == <<joined, transit, client, dash, awaiting, history>>

-----------------------------------------------------------------------------
Idle == [at |-> "idle"]
Listing == [at : {"asked", "answered"}, convs : SUBSET Conv]

\* "key": a listed group before its item; "added", "created": an announced
\* conversation before its key is decrypted, or its presence is fetched.
Continuation == [of : {"key", "added"}, conv : Group] \cup [of : {"created"}, conv : Conv]

TypeOK ==
    /\ joined \subseteq Conv
    /\ transit \subseteq Conv
    /\ connected \in BOOLEAN
    /\ known \subseteq Conv
    /\ shown \subseteq Conv
    /\ subscribed \subseteq Conv
    /\ keyed \subseteq Group
    /\ dash \in [DashCall -> {Idle} \cup Listing]
    /\ awaiting \subseteq Continuation
    /\ filled \in BOOLEAN
    /\ stray \subseteq Conv
    /\ due \subseteq Conv

Init ==
    /\ joined = {}
    /\ transit = {}
    /\ connected = FALSE
    /\ known = {}
    /\ shown = {}
    /\ subscribed = {}
    /\ keyed = {}
    /\ dash = [d \in DashCall |-> Idle]
    /\ awaiting = {}
    /\ filled = FALSE
    /\ stray = {}
    /\ due = {}

-----------------------------------------------------------------------------
\* A group the user is added to, or a friend request that is accepted: the
\* rows are committed before the event is published.
Join(c) ==
    /\ c \notin joined
    /\ joined' = joined \cup {c}
    /\ transit' = transit \cup {c}
    /\ UNCHANGED <<client, dash, awaiting, history>>

Ask(d) == dash' = [dash EXCEPT ![d] = [at |-> "asked", convs |-> {}]]

\* handleLogin, initApp.  What the last session left is still there.
Login(d) ==
    /\ ~connected
    /\ dash[d] = Idle
    /\ connected' = TRUE
    /\ subscribed' = {}
    /\ Ask(d)
    /\ UNCHANGED <<joined, transit, known, shown, keyed, awaiting, history>>

\* The items stay behind the login form.
HandleLogout ==
    /\ connected
    /\ connected' = FALSE
    /\ known' = {}
    /\ subscribed' = {}
    /\ filled' = FALSE
    /\ stray' = {}
    /\ due' = {}
    /\ UNCHANGED <<joined, transit, shown, keyed, dash, awaiting>>

-----------------------------------------------------------------------------
\* Mutant: the sidebar is emptied before the listing is there.
LoadDashboard_ClearFirst(d) ==
    /\ connected
    /\ dash[d] = Idle
    /\ Ask(d)
    /\ known' = {}
    /\ shown' = {}
    /\ UNCHANGED <<joined, transit, connected, subscribed, keyed, awaiting, history>>

\* After an accepted request or a created group.
LoadDashboard(d) ==
    /\ connected
    /\ dash[d] = Idle
    /\ Ask(d)
    /\ UNCHANGED <<joined, transit, client, awaiting, history>>

\* Mutant: a user without conversations gets no list.
ListConversations_Null(d) ==
    /\ dash[d].at = "asked"
    /\ dash' = [dash EXCEPT ![d] = [at |-> "answered",
                    convs |-> IF joined = {} THEN {{}} ELSE joined]]
    /\ UNCHANGED <<joined, transit, client, awaiting, history>>

\* The answer may be out of date, and overtaken by another, when it arrives.
ListConversations(d) ==
    /\ dash[d].at = "asked"
    /\ dash' = [dash EXCEPT ![d] = [at |-> "answered", convs |-> joined]]
    /\ UNCHANGED <<joined, transit, client, awaiting, history>>

\* No listing that the server answered without c is still to be taken in.
\* (One that is only asked for will hold it: c is stored by now.)
Lasting(c, calls) == \A d \in calls : dash[d].at = "answered" => c \in dash[d].convs

\* Handlers that have put their conversation into the cache and will show it.
AboutToShow == {t.conv : t \in {s \in awaiting : s.of # "added"}}

\* Mutant: the items of the previous listing stay.
TakeInListing_KeepItems(d) ==
    LET listed == dash[d].convs
        undecrypted == (listed \cap Group) \ keyed IN
    /\ dash[d].at = "answered"
    /\ dash' = [dash EXCEPT ![d] = Idle]
    /\ known' = listed
    /\ subscribed' = IF connected THEN subscribed \cup listed ELSE subscribed
    /\ shown' = shown \cup (IF connected THEN listed \ undecrypted ELSE {})
    /\ awaiting' = awaiting \cup
            (IF connected THEN [of : {"key"}, conv : undecrypted] ELSE {})
    /\ filled' = connected
    /\ stray' = AboutToShow \ listed
    /\ due' = IF connected THEN due \cup {c \in listed : Lasting(c, DashCall \ {d})} ELSE due
    /\ UNCHANGED <<joined, transit, connected, keyed>>

(* The cache and the list are emptied and refilled in one stretch, except   *)
(* for the groups whose key has to be decrypted first.  After a logout      *)
(* subscribing throws, after the conversation has been cached.              *)
TakeInListing(d) ==
    LET listed == dash[d].convs
        undecrypted == (listed \cap Group) \ keyed IN
    /\ dash[d].at = "answered"
    /\ dash' = [dash EXCEPT ![d] = Idle]
    /\ known' = listed
    /\ subscribed' = IF connected THEN subscribed \cup listed ELSE subscribed
    /\ shown' = IF connected THEN listed \ undecrypted ELSE {}
    /\ awaiting' = awaiting \cup
            (IF connected THEN [of : {"key"}, conv : undecrypted] ELSE {})
    /\ filled' = connected
    /\ stray' = AboutToShow \ listed
    /\ due' = IF connected THEN due \cup {c \in listed : Lasting(c, DashCall \ {d})} ELSE due
    /\ UNCHANGED <<joined, transit, connected, keyed>>

DashboardFails(d) ==
    /\ dash[d] # Idle
    /\ dash' = [dash EXCEPT ![d] = Idle]
    /\ UNCHANGED <<joined, transit, client, awaiting, history>>

Finish(t) == awaiting' = awaiting \ {t}

\* The key could be decrypted or not; the item is shown in any case.
Decrypt(g) == keyed' \in {keyed, keyed \cup {g}}

\* A new item, or the old one rendered again.
RenderSidebarItem(c) == shown' = shown \cup {c}

ShowListedGroup(g) ==
    LET t == [of |-> "key", conv |-> g] IN
    /\ t \in awaiting
    /\ Finish(t)
    /\ Decrypt(g)
    /\ RenderSidebarItem(g)
    /\ UNCHANGED <<joined, transit, connected, known, subscribed, dash, history>>

-----------------------------------------------------------------------------
\* The publication reaches the client.
Hear(c) ==
    /\ connected
    /\ c \in transit
    /\ transit' = transit \ {c}
    /\ due' = IF filled /\ Lasting(c, DashCall) THEN due \cup {c} ELSE due

\* A known group is rendered again; else its key is decrypted first.
HandleAddedToGroup(g) ==
    /\ g \in Group
    /\ Hear(g)
    /\ IF g \in known
       THEN RenderSidebarItem(g) /\ UNCHANGED awaiting
       ELSE awaiting' = awaiting \cup {[of |-> "added", conv |-> g]} /\ UNCHANGED shown
    /\ UNCHANGED <<joined, connected, known, subscribed, keyed, dash, filled, stray>>

\* Whether the group is known is not asked again.
AddGroup(g) ==
    LET t == [of |-> "added", conv |-> g] IN
    /\ t \in awaiting
    /\ Finish(t)
    /\ Decrypt(g)
    /\ known' = known \cup {g}
    /\ subscribed' = IF connected THEN subscribed \cup {g} ELSE subscribed
    /\ IF connected THEN RenderSidebarItem(g) ELSE UNCHANGED shown
    /\ stray' = stray \ {g}
    /\ UNCHANGED <<joined, transit, connected, dash, filled, due>>

\* Mutant: the new conversation's channel is not subscribed to.
HandleNewConversationCreated_Unsubscribed(c) ==
    /\ c \notin Group
    /\ Hear(c)
    /\ IF c \in known
       THEN UNCHANGED <<known, awaiting>>
       ELSE /\ known' = known \cup {c}
            /\ awaiting' = awaiting \cup {[of |-> "created", conv |-> c]}
    /\ UNCHANGED <<joined, connected, shown, subscribed, keyed, dash, filled, stray>>

HandleNewConversationCreated(c) ==
    /\ c \notin Group
    /\ Hear(c)
    /\ IF c \in known
       THEN UNCHANGED <<known, subscribed, awaiting>>
       ELSE /\ known' = known \cup {c}
            /\ subscribed' = subscribed \cup {c}
            /\ awaiting' = awaiting \cup {[of |-> "created", conv |-> c]}
    /\ UNCHANGED <<joined, connected, shown, keyed, dash, filled, stray>>

ShowNewConversation(c) ==
    LET t == [of |-> "created", conv |-> c] IN
    /\ t \in awaiting
    /\ Finish(t)
    /\ RenderSidebarItem(c)
    /\ UNCHANGED <<joined, transit, connected, known, subscribed, keyed, dash, history>>

-----------------------------------------------------------------------------
SidebarStep ==
    \/ \E d \in DashCall :
        \/ Login(d) \/ LoadDashboard(d) \/ ListConversations(d)
        \/ TakeInListing(d) \/ DashboardFails(d)
    \/ \E c \in Conv :
        \/ Join(c) \/ ShowListedGroup(c)
        \/ HandleAddedToGroup(c) \/ AddGroup(c)
        \/ HandleNewConversationCreated(c) \/ ShowNewConversation(c)

Next == SidebarStep \/ HandleLogout
Spec == Init /\ [][Next]_vars

-----------------------------------------------------------------------------
(***************************************************************************)
(* Safety                                                                  *)
(***************************************************************************)

\* From the first listing of a session on, whatever is announced, listed late
\* or overtaken, an item can be opened (openConversation reads its entry in the
\* cache) and hears its messages.  The one exception is an item whose handler
\* was at its await when a listing without the conversation emptied the cache.
ShownCanBeOpened == filled => shown \subseteq stray \cup (known \cap subscribed)

\* A conversation that is listed or announced stays for the session, though
\* listings are asked for before and after it, arrive in any order and meet the
\* handlers of announcements, of this session or the one before: it is cached
\* and shown, or about to be.  Only a listing that the server had answered
\* without it by then, and that had not arrived, can take it away.
AnnouncedStays ==
    \A c \in due :
        /\ c \in known \/ [of |-> "added", conv |-> c] \in awaiting
        /\ c \in shown \/ \E t \in awaiting : t.conv = c
=============================================================================
