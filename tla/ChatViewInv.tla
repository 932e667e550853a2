----------------------------- MODULE ChatViewInv -----------------------------
(***************************************************************************)
(* The inductive invariant of ChatView: where every message is on its way  *)
(* into the pane, and what a load finds there when its page arrives.       *)
(***************************************************************************)
EXTENDS ChatView

\* Messages on their way are stored, each in one place; those of others come
\* as publications, those of the user with the answer to their post.
MessagesAreStored ==
    /\ transit \cap decrypting = {}
    /\ \A m \in transit \cup decrypting : m[2] \in 1..Len(log[m[1]]) /\ log[m[1]][m[2]] = "peer"
    /\ \A s \in SendCall : send[s].at \in {"post", "posted"} => send[s].conv \in Conv
    /\ \A s \in SendCall : send[s].at = "posted" =>
        /\ send[s].place \in 1..Len(log[send[s].conv])
        /\ log[send[s].conv][send[s].place] = "me"
        /\ \A t \in SendCall : (send[t].at = "posted" /\ send[t].conv = send[s].conv
                                /\ send[t].place = send[s].place) => t = s

\* A page is an unbroken stretch, newest first.
PagesAreUnbroken ==
    \A l \in LoadCall : load[l] # Idle => LET p == load[l].page IN
        /\ load[l].at \in {"key", "ask"} => p = <<>>
        /\ load[l].at = "prepend" => p # <<>>
        /\ \A i \in 1..Len(p) : p[i] = p[1] + 1 - i /\ p[i] <= Len(log[load[l].conv])

HasHistory == Len(pane) > 0 /\ pane[1].from = "history"

\* A load under way is of the open conversation and continues it upwards: from
\* the cursor until its page is received, from the top of the pane until the
\* page is shown.
LoadContinues(l) ==
    LET j == load[l] IN
    /\ j.conv = open
    /\ IF j.at = "key" THEN oldest = 0 ELSE isLoadingMore
    /\ j.at = "key" => j.before = 0
    /\ j.at \in {"ask", "answered"} => j.before = oldest
    /\ j.at = "answered" /\ j.page # <<>> /\ oldest # 0 => j.page[1] = oldest - 1
    /\ j.at = "prepend" => Last(j.page) = oldest /\ (HasHistory => pane[1].place = j.page[1] + 1)

\* The cursor is the place of the topmost message, and of the last one to come
\* while a page is being shown.
CursorIsTop ==
    /\ oldest \in 0..Len(log[open])
    /\ oldest = 0 => ~HasHistory
    /\ oldest # 0 /\ (\A l \in LoadCall : load[l].at # "prepend") =>
            HasHistory /\ pane[1].place = oldest

PaneIsOrdered ==
    \A i \in 1..Len(pane) :
        /\ pane[i].conv = open
        /\ pane[i].place <= Len(log[open])
        /\ pane[i].from = "history" =>
            /\ \A j \in 1..i : pane[j].from = "history"
            /\ pane[i].place = pane[1].place + i - 1

\* The user writes in the open conversation.
SendsAreToOpen ==
    \A s \in SendCall : send[s] # Idle =>
        send[s].for = open /\ (send[s].at \in {"post", "posted"} => send[s].conv = open)

\* What arrived or was sent is in the pane once, and no more on its way.
ShownIsThrough ==
    \A i \in 1..Len(pane) : pane[i].from # "history" =>
        /\ \A j \in 1..Len(pane) :
                pane[j].from # "history" /\ pane[j].place = pane[i].place => j = i
        /\ <<open, pane[i].place>> \notin transit \cup decrypting
        /\ \A s \in SendCall : send[s].at = "posted" => send[s].place # pane[i].place

\* A message the history does not bring, now or later.
Arriving(n) ==
    \/ <<open, n>> \in transit \cup decrypting
    \/ \E s \in SendCall : send[s].at = "posted" /\ send[s].place = n
    \/ \E i \in 1..Len(pane) : pane[i].from # "history" /\ pane[i].place = n

\* What arrives is younger than the history, unless it crossed the first page.
ArrivingIsYounger ==
    \A n \in 1..Len(log[open]) : Arriving(n) =>
        \/ n \in crossed
        \/ /\ HasHistory => \A i \in 1..Len(pane) : pane[i].from = "history" => pane[i].place < n
           /\ \A l \in LoadCall : load[l] # Idle /\ load[l].page # <<>> => load[l].page[1] < n

UndisturbedCourse ==
    /\ open \in Conv
    /\ \A k, l \in LoadCall : load[k] # Idle /\ load[l] # Idle => k = l
    /\ \A l \in LoadCall : load[l] # Idle => LoadContinues(l)
    /\ CursorIsTop
    /\ PaneIsOrdered
    /\ SendsAreToOpen
    /\ ShownIsThrough
    /\ ArrivingIsYounger

IInv ==
    /\ TypeOK
    /\ MessagesAreStored
    /\ PagesAreUnbroken
    /\ isLoadingMore => \E l \in LoadCall : load[l] # Idle /\ load[l].at # "key"
    /\ Undisturbed => UndisturbedCourse
    /\ NothingMissed
=============================================================================
