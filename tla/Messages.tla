------------------------------- MODULE Messages -------------------------------
(***************************************************************************)
(* Messages: SendMessage stamps a message, inserts it into ScyllaDB and    *)
(* publishes it; readers page backwards through a conversation with a      *)
(* created_at cursor (chat_business.go, scylla_store.go).  Two readers do  *)
(* so until nothing is left: AuditGroupMessages, by pages of MaxLimit, and *)
(* a client that scrolls up (GET /conversations/:id/messages).             *)
(*                                                                         *)
(* Ciphertexts, keys and senders are left out.  Times are milliseconds,    *)
(* the precision of the created_at column, of before_ts and of the cursor. *)
(***************************************************************************)
EXTENDS Integers, FiniteSets

CONSTANTS
    Conv,           \* conversations
    Sender,         \* the sends that may be in flight at the same time
    Reader,         \* the readings that may be going on at the same time
    MaxLimit,       \* the largest page a reader gets (500)
    DefaultLimit,   \* the page size for a limit out of range (100)
    Requested,      \* the limits readers ask for
    MaxMessages,    \* bound: messages stamped
    MaxTime         \* bound: the clock

ASSUME LimitAssumption ==
    /\ MaxLimit \in Nat \ {0}
    /\ DefaultLimit \in 1..MaxLimit
    /\ Requested \subseteq Int

VARIABLES
    clock,          \* time.Now() in milliseconds
    lastId,         \* the latest TimeUUID, they are generated in increasing order
    messages,       \* table messages
    published,      \* the messages delivered on the channel of their conversation
    sending,        \* what each send is doing
    reading         \* where each reading is

vars == <<clock, lastId, messages, published, sending, reading>>

-----------------------------------------------------------------------------
\* A reader keeps the page it got last and its cursor.  read, start and cuts
\* are history: the messages of the pages before, those stored or shown live
\* when the reading began, and the times at which a page ended.
Message == [id : Nat, conv : Conv, created_at : Nat]

Idle == [at |-> "idle"]
Sending == [at : {"insert", "publish"}, msg : Message]
Reading == [at : {"read", "answer"}, audit : BOOLEAN, conv : Conv, limit : 1..MaxLimit,
            before : Nat, page : SUBSET Message, read : SUBSET Message,
            start : SUBSET Message, cuts : SUBSET Nat]

ZeroTime == 0       \* time.Time{}: no cursor yet; the clock starts after it

TypeOK ==
    /\ clock \in Nat \ {ZeroTime}
    /\ lastId \in Nat
    /\ messages \subseteq Message
    /\ published \subseteq Message
    /\ sending \in [Sender -> {Idle} \cup Sending]
    /\ reading \in [Reader -> {Idle} \cup Reading]

Init ==
    /\ clock = 1
    /\ lastId = 0
    /\ messages = {}
    /\ published = {}
    /\ sending = [s \in Sender |-> Idle]
    /\ reading = [r \in Reader |-> Idle]

Tick ==
    /\ clock < MaxTime
    /\ clock' = clock + 1
    /\ UNCHANGED <<lastId, messages, published, sending, reading>>

-----------------------------------------------------------------------------
\* The id and the time are taken before the INSERT is sent: inserts may take
\* effect, and publications go out, in another order.
SendMessage(s, c) ==
    /\ sending[s] = Idle
    /\ lastId < MaxMessages
    /\ lastId' = lastId + 1
    /\ sending' = [sending EXCEPT ![s] =
            [at |-> "insert",
             msg |-> [id |-> lastId + 1, conv |-> c, created_at |-> clock]]]
    /\ UNCHANGED <<clock, messages, published, reading>>

InsertMessage(s) ==
    /\ sending[s].at = "insert"
    /\ messages' = messages \cup {sending[s].msg}
    /\ sending' = [sending EXCEPT ![s].at = "publish"]
    /\ UNCHANGED <<clock, lastId, published, reading>>

\* Mutant: the error of the insert is logged and the handler goes on.
InsertFails_Ignored(s) ==
    /\ sending[s].at = "insert"
    /\ messages' \in {messages, messages \cup {sending[s].msg}}
    /\ sending' = [sending EXCEPT ![s].at = "publish"]
    /\ UNCHANGED <<clock, lastId, published, reading>>

\* The statement fails or times out, and may have been applied all the same;
\* the handler returns the error and publishes nothing.
InsertFails(s) ==
    /\ sending[s].at = "insert"
    /\ messages' \in {messages, messages \cup {sending[s].msg}}
    /\ sending' = [sending EXCEPT ![s] = Idle]
    /\ UNCHANGED <<clock, lastId, published, reading>>

\* Best effort: a failed publication is only logged.
PublishMessage(s) ==
    /\ sending[s].at = "publish"
    /\ published' \in {published, published \cup {sending[s].msg}}
    /\ sending' = [sending EXCEPT ![s] = Idle]
    /\ UNCHANGED <<clock, lastId, messages, reading>>

-----------------------------------------------------------------------------
\* The clustering order of the table: created_at DESC, then message_id ASC.
Precedes(m, n) ==
    \/ m.created_at > n.created_at
    \/ m.created_at = n.created_at /\ m.id < n.id

\* Mutant: the cursor is inclusive.
Matching_Inclusive(c, before) ==
    {m \in messages : m.conv = c /\ (before = ZeroTime \/ m.created_at <= before)}

\* WHERE conversation_id = c [AND created_at < before]
Matching(c, before) ==
    {m \in messages : m.conv = c /\ (before = ZeroTime \/ m.created_at < before)}

\* Mutant: the first messages instead of the last.
Page_OldestFirst(S, n) == {m \in S : Cardinality({k \in S : Precedes(m, k)}) < n}

\* ... ORDER BY created_at DESC LIMIT n
Page(S, n) == {m \in S : Cardinality({k \in S : Precedes(k, m)}) < n}

Limit(n) == IF n <= 0 \/ n > MaxLimit THEN DefaultLimit ELSE n

StartReading(r, c, audit, limit) ==
    /\ reading[r] = Idle
    /\ reading' = [reading EXCEPT ![r] =
            [at |-> "read", audit |-> audit, conv |-> c, limit |-> limit,
             before |-> ZeroTime, page |-> {}, read |-> {},
             start |-> messages \cup published, cuts |-> {}]]
    /\ UNCHANGED <<clock, lastId, messages, published, sending>>

AuditGroupMessages(r, c) == StartReading(r, c, TRUE, MaxLimit)

OpenHistory(r, c) ==
    \E n \in Requested : StartReading(r, c, FALSE, Limit(n))

\* One page.  The next cursor is the time of its oldest message.
GetMessages(r) ==
    LET j == reading[r]
        page == Page(Matching(j.conv, j.before), j.limit) IN
    /\ j.at = "read"
    /\ \E oldest \in page :
        /\ \A m \in page : oldest.created_at <= m.created_at
        /\ reading' = [reading EXCEPT ![r] =
                [j EXCEPT !.before = oldest.created_at, !.page = page,
                          !.read = @ \cup j.page,
                          !.cuts = @ \cup {oldest.created_at}]]
    /\ UNCHANGED <<clock, lastId, messages, published, sending>>

\* An empty page ends the loop.
ReachEnd(r) ==
    LET j == reading[r] IN
    /\ j.at = "read"
    /\ Page(Matching(j.conv, j.before), j.limit) = {}
    /\ reading' = [reading EXCEPT ![r] = [j EXCEPT !.at = "answer", !.page = {},
                                          !.read = @ \cup j.page]]
    /\ UNCHANGED <<clock, lastId, messages, published, sending>>

\* The reader is done, a query fails, or the user scrolls no further.
StopReading(r) ==
    /\ reading[r].at \in {"read", "answer"}
    /\ reading' = [reading EXCEPT ![r] = Idle]
    /\ UNCHANGED <<clock, lastId, messages, published, sending>>

Next ==
    \/ Tick
    \/ \E s \in Sender :
        \/ \E c \in Conv : SendMessage(s, c)
        \/ InsertMessage(s) \/ InsertFails(s) \/ PublishMessage(s)
    \/ \E r \in Reader :
        \/ \E c \in Conv : AuditGroupMessages(r, c) \/ OpenHistory(r, c)
        \/ GetMessages(r) \/ ReachEnd(r) \/ StopReading(r)

Spec == Init /\ [][Next]_vars

\* The audit's loop runs on: queries return or time out.  Nothing obliges
\* anyone to send, to start a reading or to scroll on.
AuditStep(r) == reading[r].at = "read" /\ reading[r].audit
                /\ (GetMessages(r) \/ ReachEnd(r))

FairSpec == Spec /\ \A r \in Reader : WF_vars(AuditStep(r))

-----------------------------------------------------------------------------
(***************************************************************************)
(* Properties                                                              *)
(***************************************************************************)

Active == {r \in Reader : reading[r].at \in {"read", "answer"}}

\* A message that was stored, or shown to a live subscriber, when the reading
\* began and that the cursor has passed was read, once, unless it was stamped in
\* the very millisecond at which a page ended.
OnlyTiesAreSkipped ==
    \A r \in Active : LET j == reading[r] IN
        \A m \in j.start :
            (m.conv = j.conv
             /\ (j.at = "answer"
                 \/ (j.before # ZeroTime /\ m.created_at >= j.before)))
            => /\ m \in j.read \cup j.page \/ m.created_at \in j.cuts
               /\ m \notin j.read \cap j.page

\* What a reading has seen, and down to when.
ViewOf(j) ==
    IF j = Idle THEN [at |-> "closed"]
    ELSE [at |-> IF j.at = "read" THEN "open" ELSE "end",
          conv |-> j.conv, seen |-> j.read \cup j.page, floor |-> j.before]

Views == [r \in Reader |-> ViewOf(reading[r])]

Promise == INSTANCE History WITH
    Top    <- ZeroTime,
    stored <- messages,
    shown  <- published,
    view   <- Views

\* Refinement: senders that fail, publish late or not at all, and pages of any
\* size implement the promise of module History.  What a reader has seen is
\* gap-free down to his cursor, but for ties with the end of a page.
HistoryIsKept == Promise!Spec

\* The audit's loop ends, also when messages keep arriving while it runs.
AuditEnds ==
    \A r \in Reader : (reading[r].at = "read" /\ reading[r].audit)
                        ~> reading[r].at # "read"

\* group_e2ee_business.go:250,291: AuditGroupMessages decrypts "all messages
\* for a group": those stored before it began are in its answer.
AuditReturnsAll ==
    \A r \in Reader : (reading[r].at = "answer" /\ reading[r].audit) =>
        {m \in reading[r].start : m.conv = reading[r].conv} \subseteq reading[r].read
=============================================================================
