-------------------------------- MODULE Client --------------------------------
(***************************************************************************)
(* The sidebar and the typing indicator of one browser client together.    *)
(* They share the session (connected), the cache of conversations, the     *)
(* items the user can click and the subscriptions events arrive through;   *)
(* a logout is a step of both.                                             *)
(***************************************************************************)
EXTENDS Sidebar

CONSTANTS Peer, NoConv

VARIABLES open, opening, typing, timers, throttled, stopping, settled, owed

T == INSTANCE Typing

typingVars == <<open, opening, typing, timers, throttled, stopping, settled, owed>>
clientVars == <<vars, typingVars>>

ClientTypeOK == TypeOK /\ T!TypeOK

ClientInit == Init /\ T!Init

ClientNext ==
    \/ HandleLogout /\ T!HandleLogout
    \/ SidebarStep /\ UNCHANGED typingVars
    \/ T!Step /\ UNCHANGED vars

ClientSpec == ClientInit /\ [][ClientNext]_clientVars

-----------------------------------------------------------------------------
\* The conversation the user has open stays in the cache and subscribed for
\* the session, through every listing that is asked for, answered or taken in
\* while he types: what he types and sends goes to its channel, what others send
\* is heard.  Only a listing answered without it, and on its way back when it
\* was announced, can take it from under him.
OpenStaysServed ==
    [][(open \in due \cap known /\ connected') => open \in known' \cap subscribed']_clientVars

\* The typing indicator's own properties.
IndicatorIsCurrent == T!IndicatorIsCurrent
StopIsOwed == T!StopIsOwed
=============================================================================
