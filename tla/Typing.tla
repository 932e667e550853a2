-------------------------------- MODULE Typing --------------------------------
(***************************************************************************)
(* The typing indicator of the browser client (client/js/app.js), on both  *)
(* sides: TYPING and STOP_TYPING as the user types, with their throttle    *)
(* and stop timer, and what the events of others leave in typingUsers.     *)
(* The cache of conversations, the items and the subscriptions belong to   *)
(* the sidebar; Client composes the two.                                   *)
(*                                                                         *)
(* Time is kept as the three intervals that matter: the throttle of 2 s,   *)
(* the stop timer of 5 s and the 3 s an entry of typingUsers lives.        *)
(***************************************************************************)
EXTENDS Naturals

CONSTANTS Conv, Peer, NoConv

VARIABLES
    connected, known, shown, subscribed,    \* the sidebar's
    open,       \* currentConversationId
    opening,    \* calls of openConversation are loading a history
    typing,     \* typingUsers: the conversation a peer types in, NoConv for no entry
    timers,     \* timers of typingUsers that will fire, for each peer
    throttled,  \* the last TYPING is less than 2 s ago (lastTypingSent)
    stopping,   \* typingTimeout will fire
    settled,    \* history: an opening ended since the conversation was opened
    owed        \* history: it was told TYPING since it was opened, and not STOP_TYPING

own  == <<throttled, stopping, owed>>
vars == <<open, opening, typing, timers, own, settled>>

TypeOK ==
    /\ open \in Conv \cup {NoConv}
    /\ opening \in BOOLEAN
    /\ typing \in [Peer -> Conv \cup {NoConv}]
    /\ timers \in [Peer -> 0..1]
    /\ throttled \in BOOLEAN
    /\ stopping \in BOOLEAN
    /\ settled \in BOOLEAN
    /\ owed \in BOOLEAN

Init ==
    /\ open = NoConv
    /\ opening = FALSE
    /\ typing = [u \in Peer |-> NoConv]
    /\ timers = [u \in Peer |-> 0]
    /\ throttled = FALSE
    /\ stopping = FALSE
    /\ settled = TRUE
    /\ owed = FALSE

-----------------------------------------------------------------------------
(* An item is clicked.  What is not in the cache throws, after it has been  *)
(* made the current conversation.                                           *)
OpenConversation(c) ==
    /\ connected
    /\ c \in shown
    /\ open' = c
    /\ opening' = (opening \/ c \in known)
    /\ settled' = FALSE
    /\ owed' = FALSE
    /\ UNCHANGED <<typing, timers, throttled, stopping>>

\* clearTimeout(typingUsers[uid].timeout), for those who have an entry.
Cleared(U) == [u \in Peer |-> IF u \in U /\ typing[u] # NoConv THEN timers[u] - 1 ELSE timers[u]]

\* Mutant: the indicator is left to its timers.
EndOpening_KeepTyping ==
    /\ opening
    /\ opening' \in BOOLEAN
    /\ settled' = TRUE
    /\ UNCHANGED <<open, typing, timers, own>>

\* Of one of the calls the history is there, or is not; it does not matter
\* of which.  There may be others.
EndOpening ==
    /\ opening
    /\ opening' \in BOOLEAN
    /\ timers' = Cleared(Peer)
    /\ typing' = [u \in Peer |-> NoConv]
    /\ settled' = TRUE
    /\ UNCHANGED <<open, own>>

-----------------------------------------------------------------------------
\* Events of other conversations than the open one are ignored.
Heard == open # NoConv /\ open \in subscribed

HandleIncomingTyping(u) ==
    /\ Heard
    /\ typing' = [typing EXCEPT ![u] = open]
    /\ timers' = [Cleared({u}) EXCEPT ![u] = @ + 1]
    /\ UNCHANGED <<open, opening, own, settled>>

\* STOP_TYPING, or a message.
HandleIncomingStop(u) ==
    /\ Heard
    /\ typing[u] # NoConv
    /\ typing' = [typing EXCEPT ![u] = NoConv]
    /\ timers' = Cleared({u})
    /\ UNCHANGED <<open, opening, own, settled>>

Expire(u) ==
    /\ timers[u] > 0
    /\ timers' = [timers EXCEPT ![u] = @ - 1]
    /\ typing' = [typing EXCEPT ![u] = NoConv]
    /\ UNCHANGED <<open, opening, own, settled>>

-----------------------------------------------------------------------------
\* Mutant: the stop timer is set only when TYPING is sent.
HandleTyping_TimerOnSend ==
    /\ open # NoConv /\ connected
    /\ throttled' = TRUE
    /\ owed' = (owed \/ ~throttled)
    /\ stopping' = ~throttled
    /\ UNCHANGED <<open, opening, typing, timers, settled>>

\* A key stroke: the open conversation is told unless somebody was just told;
\* the stop timer starts again.
HandleTyping ==
    /\ open # NoConv /\ connected
    /\ throttled' = TRUE
    /\ owed' = (owed \/ ~throttled)
    /\ stopping' = TRUE
    /\ UNCHANGED <<open, opening, typing, timers, settled>>

\* Enter, or an emptied input.  What is told is the conversation open now.
StopTyping ==
    /\ open # NoConv /\ connected
    /\ stopping' = FALSE
    /\ throttled' = FALSE
    /\ owed' = FALSE
    /\ UNCHANGED <<open, opening, typing, timers, settled>>

\* The timer outlives the throttle.  With no conversation open nothing is told.
StopTimer ==
    /\ stopping
    /\ ~throttled
    /\ stopping' = FALSE
    /\ owed' = (owed /\ ~(open # NoConv /\ connected))
    /\ UNCHANGED <<open, opening, typing, timers, throttled, settled>>

ThrottleEnds ==
    /\ throttled
    /\ throttled' = FALSE
    /\ UNCHANGED <<open, opening, typing, timers, stopping, owed, settled>>

\* The timers run on.
HandleLogout ==
    /\ open' = NoConv
    /\ settled' = TRUE
    /\ owed' = FALSE
    /\ UNCHANGED <<opening, typing, timers, throttled, stopping>>

Step ==
    \/ \E c \in Conv : OpenConversation(c)
    \/ \E u \in Peer : HandleIncomingTyping(u) \/ HandleIncomingStop(u) \/ Expire(u)
    \/ EndOpening \/ HandleTyping \/ StopTyping \/ StopTimer \/ ThrottleEnds

-----------------------------------------------------------------------------
\* Once an opening has ended since the user switched, the indicator names
\* only users who type in the open conversation; whoever it names has exactly
\* one timer running, so nobody stays on it and nobody leaves it early.
IndicatorIsCurrent ==
    \A u \in Peer :
        /\ settled /\ open # NoConv /\ typing[u] # NoConv => typing[u] = open
        /\ timers[u] = IF typing[u] # NoConv THEN 1 ELSE 0

\* The timer is not bound to a conversation, and still: as long as the user
\* stays in the conversation that was told he types, it will be told that he
\* stopped.
StopIsOwed == owed => stopping
=============================================================================
