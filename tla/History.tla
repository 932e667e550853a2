------------------------------- MODULE History -------------------------------
(***************************************************************************)
(* What the message service promises its readers, with no insert, query,   *)
(* page size or failure in sight.  Messages are stored for good and shown  *)
(* live only when they are stored.  Who reads a conversation sees it       *)
(* backwards and without gaps: each time he goes down to a moment earlier  *)
(* than before, he has been given all there was between the two, some of   *)
(* what there was at the moment itself, and nothing else.  Nothing is left *)
(* below when he has come to the end.                                      *)
(*                                                                         *)
(* A message is anything that has a conv and a created_at.                 *)
(***************************************************************************)
EXTENDS Integers

CONSTANTS
    Conv,
    Reader,
    Top         \* where a reader is before he has seen anything: no moment

VARIABLES
    stored,     \* the messages
    shown,      \* those that were shown live
    view        \* what each reader has seen of which conversation, and down to when

vars == <<stored, shown, view>>

Closed == [at |-> "closed"]
Opened(c) == [at |-> "open", conv |-> c, seen |-> {}, floor |-> Top]

Init ==
    /\ stored = {}
    /\ shown = {}
    /\ view = [r \in Reader |-> Closed]

Store ==
    /\ \E m \in stored' \ stored : stored' = stored \cup {m}
    /\ UNCHANGED <<shown, view>>

Show(m) ==
    /\ shown' = shown \cup {m}
    /\ UNCHANGED <<stored, view>>

Open(r, c) ==
    /\ view[r] = Closed
    /\ view' = [view EXCEPT ![r] = Opened(c)]
    /\ UNCHANGED <<stored, shown>>

Below(v) == {m \in stored : m.conv = v.conv /\ (v.floor = Top \/ m.created_at < v.floor)}

Descend(r, t) ==
    LET v == view[r]
        between == {m \in Below(v) : m.created_at > t}
        moment == {m \in Below(v) : m.created_at = t} IN
    /\ v.at = "open"
    /\ \E some \in (SUBSET moment) \ {{}} :
        view' = [view EXCEPT ![r] =
            [at |-> "open", conv |-> v.conv, seen |-> v.seen \cup between \cup some, floor |-> t]]
    /\ UNCHANGED <<stored, shown>>

Finish(r) ==
    /\ view[r].at = "open"
    /\ Below(view[r]) = {}
    /\ view' = [view EXCEPT ![r].at = "end"]
    /\ UNCHANGED <<stored, shown>>

Close(r) ==
    /\ view[r].at \in {"open", "end"}
    /\ view' = [view EXCEPT ![r] = Closed]
    /\ UNCHANGED <<stored, shown>>

Next ==
    \/ Store
    \/ \E m \in stored : Show(m)
    \/ \E r \in Reader :
        \/ \E c \in Conv : Open(r, c)
        \/ \E m \in stored : Descend(r, m.created_at)
        \/ Finish(r) \/ Close(r)

Spec == Init /\ [][Next]_vars
=============================================================================
