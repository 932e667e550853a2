# chat-centrifugo in TLA+

A model of the chat system in this repository: its server (Go, Gin, GORM,
ScyllaDB, Redis, Centrifugo) and its browser client (`client/js/app.js`), checked
with TLC on small instances, with theorems checked by TLAPS for every value of
the constants. `PROJECT.json` maps every definition to the lines it models and
lists the runs, the theorems, the hazards and the findings.

## The system

**Server.** Every HTTP request is a goroutine that goes handler → business →
store. It issues its statements one at a time; there is no lock anywhere, and no
transaction except in `CreateGroupConversationAtomic` and `AddGroupMemberAtomic`. So two
requests interleave between any two statements, a statement may fail or the
request's context be cancelled, and what the earlier statements wrote stays.
Publishing to Centrifugo comes last, is best effort and its failure is logged.

**Client.** One thread, but every handler is an `async` function and any other
handler may run at each of its `await`s. The pane, the caches and the
subscriptions are module-level variables that all of them share.

| component | state | operations | what is hard | module |
|---|---|---|---|---|
| friend requests, direct conversations | `friendships`, `conversations`, `participants` | request, accept, reject | read, then write by row id; check, then insert without a constraint; three inserts and two events after the accept | `Friendship`, abstractly `Consent` |
| groups and the conversation listing | `groups`, `group_members`, `conversations`, `participants` | create (encrypted, plain), add member, list | two tables that say the same; the role read outside the transaction; a listing of many queries | `Groups`, abstractly `KeyCustody` |
| messages and history | ScyllaDB `messages` | send; page backwards; audit | stamped before the insert, inserted late, cursor in milliseconds, a loop until a page is empty | `Messages`, abstractly `History` |
| presence | one Redis key per user, with a TTL | connect, disconnect, heartbeat | calls handled concurrently, lost, late; expiry without notice; broadcasts in another order than writes | `Presence` |
| accounts, devices, keys | `users`, `user_devices`, `user_device_changed` | register, login, replace the public key | first logins of one device racing; device and audit row in two statements | `Accounts` |
| message pane (client) | `currentConversationId`, the pane, the cursor, `isLoadingMore` | open, scroll, receive, send, log out | every handler reads the shared variables again after its awaits | `ChatView` |
| sidebar (client) | `conversationsObj`, the items, subscriptions, group keys | log in and out, take in a listing, `ADDED_TO_GROUP`, `conversation_created` | listings late or overtaken, refilling what event handlers are about to fill | `Sidebar` |
| typing indicator (client) | `typingTimeout`, `lastTypingSent`, `typingUsers` | type, stop, `TYPING` and `STOP_TYPING` of others, timers | timers that outlive a switch of the conversation and a logout | `Typing`; with the sidebar `Client` |
| friend requests (client) | `friendRequests` (the cards), the pending dialog | event, list, accept, ignore | lists, events and two ways to answer write one array across awaits | `Requests` |
| presence dots, members panel, user search, group dialog (client) | dots, `membersCache` | | display | not modelled |
| `infra-init`, start-up | the schema of both databases | migrations by compose or by hand; the server's connections | stopped anywhere, answers lost, run twice or twice at once | `InfraInit` |
| cryptography, tokens, hashing, fingerprints | none | pure functions around libraries | | not modelled |
| publisher, routing, configuration, health check, user search | none | I/O and queries | | not modelled |

How they meet: `Friendship` and `Groups` write conversations and participants
and publish the events that `Sidebar` and `Requests` take in; the listing of
`Groups` is the answer `Sidebar` awaits; the pages of `Messages` are what `ChatView`
prepends, and its publications what `ChatView` appends. Each client module takes
from the server what the server module shows: rows are committed before their
event is published (`ToldOnlyOfUsableConversations`, `NoticeCarriesStoredKey`), a
reader finds what was stored or shown before (`OnlyTiesAreSkipped`).

`Client` composes `Sidebar` and `Typing`, which share the session, the cache of
conversations, the items and the subscriptions: `Typing` is an instance on
`Sidebar`'s variables and a logout is a step of both. The server's modules are not
composed into one state machine: friend requests and groups write rows of
different types (`DIRECT`, `GROUP`) and no statement of one reads rows of the
other, except in the listing, which `Groups` has. `Requests` takes the server's
part of an answer as one step, since what its statements do to each other is
`Friendship`.

## Modules

An action is the code from one statement (server) or await (client) to the next;
what a request holds in local variables is a record in `job`, `sending`,
`reading`, `load`, `send`, `dash`. A request that is refused by a check before its
first write changes nothing and is not a step. `StatementFails` and its
relatives end a request wherever it is. *History* variables (marked in the
modules) record what happened; guards never read them.

* `Pairs`: the users of a friendship row, the row in the other direction.
* `Consent`: what the friendship service promises. One user asks, the asked user
  agrees, then the two are linked, then either is told. Nothing is withdrawn.
* `Friendship`: `friendship_business.go` with its handler and store. Every read,
  write and publication is its own step.
* `KeyCustody`: what the group service promises about key copies. A founder makes
  the first copies; then a holder shares with a user who has none. No copy is
  replaced or lost.
* `Groups`: `group_e2ee_business.go`, `chat_business.go` and the store's listing.
  The two transactions are one step each. A copy of a group key is known by the
  user whose client encrypted it, which is what tells two racing additions apart.
* `History`: what the message service promises its readers. Messages are stored for
  good and shown live only when stored; a reader goes backwards, is given all there
  is between two moments and some of what there is at the lower one.
* `Messages`: stamp, insert and publish are three steps; an insert may take effect
  and still be reported as failed. A reader is the audit (pages of `MaxLimit`) or a
  scrolling client; both use the strict `created_at <` cursor. A reading keeps the
  messages stored or shown to anyone when it began (`start`) and the page ends (`cuts`) as history.
* `Presence`: one user, since users have a Redis key each. `Tick` is the TTL.
  Broadcasts to the channels are separate steps and may be lost.
* `Accounts`: an account is a password and the two halves of a key pair; a pair is
  one value that stands for either half.
* `ChatView`: a message is its conversation and its place in the server's order.
  `load` holds the calls of `loadMessages`, each with the page it still has to
  prepend; `send` those of `handleSend`.
* `Sidebar`: `awaiting` holds the handlers that add or show a conversation after
  their await; `dash` the listings asked for and not yet taken in.
* `Typing`: time is the three intervals that matter (throttle 2 s, stop timer 5 s,
  an entry of `typingUsers` 3 s), each as a flag or a count of timers that will
  fire. `Client` puts it beside `Sidebar`.
* `Requests`: a card is a count per request, since equal cards are told apart by
  nothing else; `call` holds the handlers under way, from the click through the
  answer and, after an accept, through the listing of the dashboard.
* `InfraInit`: a statement is what it makes and what it needs. `init` holds the
  latest run of each launcher (compose, a person), with what it has left to
  apply; either database may become unreachable between any two steps. Its
  definitions have names of their own (`StartUpSpec`), so that one module can hold
  its theorems beside those of `Accounts`.
* `FriendshipInv`, `GroupsInv`, `MessagesInv`, `PresenceInv`, `AccountsInv`,
  `ChatViewInv`, `ClientInv` (of `Sidebar` and of `Client`), `RequestsInv`,
  `InfraInitInv`: the inductive invariants. `FriendshipProofs`, ...,
  `RequestsProofs`: the proofs; those of `InfraInit` are the second half of
  `AccountsProofs`, since start-up makes the tables that `Accounts` fills first.
* `MC*`: the constants and symmetry of the runs.

Definitions whose name has a suffix after an underscore, marked `Mutant`, are
not part of a specification: they are the faulty variants each property has been
shown to catch.

## Runs

| run | instance | shows |
|---|---|---|
| `friendship` | 2 users, 2 requests at once, 2 conversation ids | what it takes to get two rows, two conversations, none, or a step outside the lifecycle; true events; the refinement of `Consent` |
| `friendship_reopen` | 2 users, 1 request at once, 1 conversation id | finding 1 |
| `groups` | 3 users, 1 conversation, 3 requests at once | tables, events and listings agree; the refinement of `KeyCustody` |
| `groups_plain` | the same | finding 2 |
| `messages` | 2 conversations, 2 sends, 1 reader, 3 messages, 3 ms, pages of 1 and 2 | only ties are skipped and nothing is read twice; the refinement of `History`; the audit ends |
| `messages_audit` | the same | finding 3 |
| `presence` | 2 connections, 2 calls at once, 2 channels, TTL 2 | key and channels are put right after any disorder and agree while calls are orderly; a silent user goes offline |
| `accounts` | 2 users, 2 passwords, 1 device, 2 key pairs, 3 requests at once | registrations stand, a login's keys are its own user's, one audit row per device |
| `chatview` | 2 conversations, 2 loads, 1 send, 3 messages, pages of 2 | the pane of an undisturbed conversation is right; what is shown twice; loads stay guarded |
| `client` | 2 conversations (1 group), 2 listings at once, 1 peer | items can be opened, announced and open conversations stay, the indicator is current, a stop is owed and sent |
| `requests` | 2 requests, 2 handlers at once, asked 2 times | who was told of a request sees it until it is answered; answered requests go |
| `infra` | both launchers, 2 attempts | refused only on a complete schema; compose serves a complete one; every step brings a run nearer to its end; every run ends |

The type invariants of `Friendship`, `Groups`, `Messages` and `InfraInit` and all
inductive invariants are proved for every instance and are not checked again by the
runs.

Bounds, and why they are enough:

* *Requests at once.* Every property is about what one request read and another
  wrote, so two requests show a race; three add a bystander (a listing during an
  addition, a third login after a failed one). `Handler` bounds what is in flight
  at a time, not how many requests are made: an instance runs for ever.
* *Users and conversations.* Two users are both directions of a friendship row.
  Three users are a manager, a second manager and the one they both add. In
  `Groups` one conversation is enough for the tables, which have no constraint
  across conversations; the proofs cover more.
* *Messages and time.* Three messages in three milliseconds give a tie within a
  page, a tie across a page end and a message older than the cursor;
  `MaxMessages` and `MaxTime` bound how many are sent and how long the clock runs.
  In `ChatView` three messages are a full page and a remainder.
* *Two attempts* in `InfraInit` are a first and a last one; the code makes 15. Two
  launchers run at once; each may run any number of times.
* *Asked twice* in `Requests` gives a request that is answered and asked again, and
  two cards of one request; each request is a row of its own, so a second one is
  only in the lists beside it.
* *`TTL = 2`* tells a refreshed key from one that is about to expire.
* *`ConvId`* and *`KeyPair`* bound ids and pairs, which the code draws afresh.

Deadlock is checked except in `friendship`, where the system comes to rest: when
every row is accepted and everyone was told, each further request is refused.

Symmetry is used in the safety runs. The properties of `friendship` and `groups`
checked with it are action properties and a refinement without fairness; the runs
with liveness (`messages`, `presence`, `infra`) have none.

### Fairness

* `Messages`: `WF` of the audit's next page. The loop runs in a request and each
  query returns or times out. Nobody is obliged to send, to scroll or to start.
* `Presence`: `WF` of `Tick`: Redis lets time pass. Nothing is assumed of clients,
  Centrifugo or the server, so `SilentUserGoesOffline` rests on the expiry alone.

* `InfraInit`: `WF` of the next step of a run. Attempts are a fixed pause apart and
  a statement has a timeout, so a run that is not killed goes on. Nothing is
  assumed of the databases, which may come and go for ever: `EveryRunEnds` rests on
  the attempts being counted.

Nothing else is assumed; the other modules state safety only. A disconnect call
that is lost, a publication that never arrives and a request whose client goes
away are all behaviours of the models.

### Conditions in the properties

Where the code does break something under a race or a failure, the property says
exactly when, with a history variable that records it, and nothing else may:

* `crossed` (`Friendship`): two users asked each other at once while no row existed.
  They may have two rows.
* `raced` (`Friendship`): two accepts both looked for the conversation before
  either inserted its participants. They may have two conversations.
* `stale` (`Friendship`): a request in flight whose row another wrote since it read
  it. Its write may leave the lifecycle; it is stale no longer after it.
* `cut` (`Friendship`): an accept failed between its write and the participants. Its
  users may have no conversation, and the accept cannot be repeated, since the row is
  no longer pending.
* `keyFailed` (`Groups`): the key query of this entry of a listing failed.
* `cuts` (`Messages`): messages stamped in the millisecond in which a page ended are
  skipped.
* `orderly` (`Presence`): since the last moment that restores order, calls came one
  at a time, from one connection, and none was lost or failed. Order is restored
  by a connection that opens when there is no other and no call under way, by the
  last one that closes with no call under way, and by the expiry of the key of a
  user without connection when the server is at rest. Outside of it the key may
  be wrong: with two connections the first to close marks the user offline.
* `replaced` (`Accounts`): the public halves a holder of the user's token uploaded.
  A login may return one of them beside the registered private half.
* `raced` (`Accounts`): two first logins of a device, one of which looked for the
  device before the other inserted it. The later insert is refused.
* `cutShort` (`Accounts`): a login that ended between its device and its audit row.
  The row is never written.
* `disturbed` (`ChatView`): the conversation was opened while a load or a send of
  another was under way, so that both write one pane. The next opening decides it
  anew.
* `crossed`, `failed` (`ChatView`): a message stored but not yet shown, or shown
  already, when the first page was read, may be shown twice; a page that could not
  be loaded leaves a gap.
* `filled`, `stray` (`Sidebar`): no listing was taken in since the login, so that the
  items of the last session are still there; a handler was about to show an item
  when a listing without it emptied the cache. Such items cannot be opened.
* `due` (`Sidebar`): a conversation listed or announced while no listing that the
  server had already answered without it was on its way back. Listings asked for
  before or after it, and those that overtake each other, do not matter; one of the
  former kind, taken in later, does take the conversation away, also from under a
  user who has it open, and the next listing brings it back.
* `due`, `astray` (`Requests`): the user was told of the request while no list without
  it was on its way and no handler was about to filter it; the answer failed after
  its effect, the request was rejected in the dialog, or a list or event from
  before was still to come.
* `settled` (`Typing`): a history load has ended since the conversation was opened;
  until then the indicator may still name the typists of the one before.
* `owed` (`Typing`): the user stays in the conversation that was told `TYPING`. When
  he leaves, the stop goes to the next one, if any.

Where such a condition is what a hazard describes, the hazard itself happens in the
code, as the hazard's note in `PROJECT.json` says; where the repository's words
promise otherwise, see the findings. The property bounds it: what it takes, whom it touches, and how long it lasts.

## Findings

1. `friendship_reopen`: a rejected request asked again by its receiver is reopened
   with its old direction, so the user notified is one who may not accept it.
2. `groups_plain`: "in a single transaction" (`chat_business.go:158`) is two
   statements without one; a conversation can stay without participants.
3. `messages_audit`: "all messages for a group" (`group_e2ee_business.go:250`) skips
   messages stamped in the millisecond in which a page ended.

What the conditions of passing properties show as well:

* Two accepts that race make two conversations, although `friendship_business.go:110`
  checks for one (`raced` in `OneConversationUnlessRaced`).
* A device whose first login fails after its insert never gets the audit row
  `model/user_device.go:21` speaks of (`cutShort` in `DevicesAreAuditedOnce`).
* `README.md` has `make init` follow `make up`. Compose has run the same program by
  then, and the second run is refused at `ALTER TABLE ... ADD`
  (`0002_groups_scylla.up.cql:3`). It does no harm: `RefusedOnlyWhenComplete`.
* A request rejected in the dialog keeps its card in the sidebar until the next
  list (`astray` in `AnsweredIsGone`).

Disagreements with the code's own words were looked for only where modelling met
them.

## Proofs

All are checked by TLAPS from the modules' definitions and the named assumptions
on the constants: the placeholders (`NoConv`, `NoKey`, `NoAccount`, `NoRequest`) are
none of the values they stand in for, groups are conversations (`SidebarAssumption`,
`ChatViewAssumption`), page sizes, limits and the TTL are positive
(`LimitAssumption`, `TTLAssumption`), bounds are numbers, `infra-init` makes at
least one attempt (`InfraInitAssumption`). None assumes that `User`, `Handler`,
`Conv`, `LoadCall` or any other set of actors or data is finite.

Every safety property, every action property and all three refinements of the runs
are proved; of each liveness property, the variant it rests on. The pattern is the
same everywhere. A property is not inductive: it speaks of what is stored or shown,
and a call writes that on the strength of something it read earlier. The inductive
invariant `IInv` adds what each call under way knows at each stage (TLC found each
`IInv` to hold on the run before its proof was begun); one lemma per action shows
that it is kept, `Invariance` combines them.

**`FriendshipProofs`** proves `TypeCorrect`, the five safety properties
(`NoticesAreTrue`, `AgreementIsKept`, `ConversationsAreAgreed`,
`RowsAreUnique`, `ConversationsAreUnique`), `LifecycleIsFollowed` and
`Refinement`: `Spec => Promise!Spec`.
`RowsInHand`: past its first write, its row exists; past the accept, it is agreed.
`ConversationsInHand`: the conversation it created is its own and empty until it
fills it, and has exactly the row's two users while they are told.
`ReadsInHand`: what a request read of its row is still so, unless another wrote the row.
`AskedOneWay`: an insert has no reversed row to fear, written or about to be, unless
both asked at once. That an agreed pair keeps a conversation, a request on its way to
one, or the record of a failure is carried through each step by one lemma
(`AgreementKept`). `OpeningInHand`: without a race the one accept between lookup and insert
finds no conversation of the pair before its insert. The refinement maps each
action to ask, agree, link, tell or a stutter.

**`GroupsProofs`** proves `TypeCorrect`, `RowsAgree`, `KeyProvenance`,
`NoticesMatchRows`, `ListingsHaveKeys`, `CreationAllOrNone`, as an action
property `LeaderlessGroupsFrozen`, and the refinement `KeysStayInCustody`:
`Spec => Custody!Spec`. The argument has two halves: tables only grow
(no action removes a row, changes a role or replaces a key), so what a request
read before its insert, the inviter's role, stays true; and `JobsInHand` says what
each request has established. That is why the role check outside the
transaction is right as long as no role changes and nobody leaves: a new operation
that does either breaks the lemma.

`KeysStayInCustody` needs that half too: a share in `KeyCustody` is made by a
holder, and the holder is the inviter `AddGroupMember` read one statement before.

`ConversationsAreAgreed`, `KeyProvenance` and `CreationAllOrNone` state invariants
that no run lists: the refinements of `Consent` and `KeyCustody` and finding 2 say
more of the same, and the proofs use them.

**`AccountsProofs`** proves `TypeCorrect`, `RegistrationsStand`, `DevicesAudited` and
`ConflictsAreRaces`. `RegistrationKept`: the row keeps the registered password and
private half, and so does every login that read it, at whatever stage; its public
half is the registered one or an upload of this user, in the row and in the login.
`AuditOwed`: one login at most has inserted a device and not yet its audit row, and
the row is written, owed by that login, or lost with it. `RacesRecorded`: two logins
about to insert one device are recorded as a race.

Its second half is about `InfraInit`, for any number of attempts:
`StartUpTypeCorrect`, `RefusedWhenComplete`, `ServedSchemaComplete` and, as an action
property, `EveryStepNearsTheEnd`. A run that is refused or cut off looks at nothing
but its own next statement, while another run may work on the same schema, so the
invariant (`StartUpIInv`) says what a run's place in the files tells of the schema:
everything behind it is there, its own work or another's (`BehindIsMade`); the one
statement that cannot be repeated makes the last thing there is (`ColumnIsLast`);
what a run has left are the last statements of its phase (`LeftFitsPhase`). That a
server of compose is on a complete schema then follows from `DoneIsComplete`, since
only `make down` takes anything away, and it takes the server with it. The proof first computes
the statement lists from the files (`PhasesAre`): a fold over two or three elements
unrolls into concatenations, and needs no induction. `EveryStepCounts` is the
variant of `EveryRunEnds`: `StepsLeft` counts the attempts, statements and ends of
phases ahead, and every step lowers it, a failed attempt as well as an answer.

**`MessagesProofs`** proves `TypeCorrect`, `OnlyTiesSkipped`, `ShownIsInHistory` and the
action property `CursorNeverReturns`. The reason is `CursorSeparates`: what a reader
has is as young as its cursor or younger, the rest older, and the store only grows.
Lemmas about the page query say that it is a prefix of what is below the
cursor and not empty while anything is (a finite set has a youngest element).
`CursorNeverReturns` is the safety half of `AuditEnds`: each page lowers the cursor,
and no page sets it to the zero time, which would start again at the top.

`Refinement`: `Spec => Promise!Spec`, where `Promise` is `History`. An insert, reported
or not, stores; a publication shows; the first page query opens a view. A page is a
descent to the time of its oldest message: `PageEndsAt` says that it has all that is
younger, its oldest message that it has something of that time. An empty page is the
end, since a page of anything is not empty (`PageFindsSome`). Limits, the order within
a millisecond and the order of inserts disappear in the mapping: whatever they are,
a reader sees no gap but ties.

**`PresenceProofs`** proves `TypeCorrect`, `OrderlyKeyExact` and `OrderlyChannelsAgree`.
`IInv` describes an orderly course between calls and amid one, from each moment that
restores order, whatever state it is met in: what a call has broadcast is what it wrote, a connected user has been shown online, at rest a user
without connection is not online in Redis. `OnlineKeysExpire` and `KeyRunsDown` hold
in disorder as well and are the variant of `SilentUserGoesOffline`: an online key has
an expiry, and while nobody writes another, no late broadcast, answer or lost call
gives it more time and every tick takes some.

**`ChatViewProofs`** proves `TypeCorrect`, `PaneStaysUnbroken`, `OnlyCrossedTwice`,
`NoneMissed` and `LoadsStayGuarded`. The argument follows a message into the pane.
`LoadContinues`: a load of an undisturbed conversation continues it upwards, from the
cursor until the page is received, from the top of the pane until it is shown.
`MessagesAreStored`: what is on its way is stored and in one place only.
`ShownIsThrough` and `ArrivingIsYounger`: what was appended comes no more, and what
will be appended is younger than the history, or crossed its first page. All
handlers that change a load, append an entry or store a message share one lemma each
(`LoadTurns`, `PaneGrows`, `StoreGrows`). That messages are at most `MaxMessages` is
not used: the theorems hold for a log of any length.

**`ClientProofs`** proves the properties of `Sidebar` (`ShownCanBeOpenedAlways`,
`AnnouncedStaysAlways`), those of the composition (`ClientTypeCorrect`,
`IndicatorCurrent`, `StopOwed`, the action property `OpenServed`), and that the
client implements its sidebar (`ClientImplementsSidebar`). The sidebar rests on
`DueIsListed` (what is due is in every listing answered and on its way, so none of them, however
old, takes it away) and `FilledIsWhole` (cache, items and subscriptions go
together but for strays and up to the handlers still at an await); the stop on `OwedToOpen`: the
conversation it is owed to is open, over a session that is there.

**`RequestsProofs`** proves `TypeCorrect`, `ToldStaysListed` and `AnsweredGoes`.
`DueIsSafe`: no handler under way takes the card of a request the user was told of.
`LateIsAstray` and `AnsweredIsCleared`: a card of an answered request has a handler
that will clear it, or is known to come from late.

Theorems without a run's property (`ConversationsAreAgreed`, `KeyProvenance`,
`CreationAllOrNone`, `ShownIsInHistory`, `CursorNeverReturns`, `OnlineKeysExpire`,
`KeyRunsDown`, `StartUpTypeCorrect` and some `TypeCorrect`) state what the proofs
and the refinements use and no run lists.

Only model-checked:

* Liveness (`AuditEnds`, `SilentUserGoesOffline`, `EveryRunEnds`), which the prover
  cannot treat under fairness. What a step may do to the variant is proved
  (`CursorNeverReturns`, `KeyRunsDown`, `EveryStepNearsTheEnd`); that the steps are
  taken is not.
* That `Stored` of `ChatView`, a fold over all conversations, stays within its bound.

## Not modelled

* The presence dots and the group dialog of the client: display.
* The members panel: one flag (`membersLoading`) and one element serve all groups,
  so a panel opened while another group's members are awaited lists those.
* A reload of the page (`initApp`): the client's variables start afresh, as in
  `Init`, and the session is restored as by a login.
* `js/ws.js`, `js/api.js`, `js/crypto.js`: older copies of parts of `app.js`.
* Cryptography: a ciphertext is not distinguished from its text, a wrapped key is
  known by who wrapped it; tokens and hashes are taken to work.
* Queries that a client only displays (user search, members of
  a group, bulk presence): one statement, no state.
* Order of `last_login`, names, avatars, wording, logging.

## Plan

Written, in this order: `Friendship` (the only place where two users must agree),
`Groups` (keys), `Messages`, `Presence`, `Accounts`, `ChatView`, `Sidebar`, `InfraInit`,
`Typing` and `Client`, `KeyCustody`, `Requests`, `History`.

Proved, in this order: `Friendship`, `Groups` with their refinements, `Accounts`,
`Sidebar` and `Client`, `Presence`, `Requests`, `Messages`, `ChatView`, `InfraInit`, the
refinement of `History`.

Next:

1. `ChatView` against `History`. A page that is answered may still fail, so the
   client's view can lose what the server has given; the pane would refine a
   promise in which a descent is taken back, or one with prophecy.
2. The steps of the server that `Sidebar` and `Requests` assume (a committed row
   before its event, a listing of what is stored) as an abstract specification that
   `Friendship` and `Groups` implement.
3. The members panel, beside `Client`.
