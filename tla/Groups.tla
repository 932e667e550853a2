-------------------------------- MODULE Groups --------------------------------
(***************************************************************************)
(* Group conversations: end-to-end encrypted groups, whose members each    *)
(* hold a copy of the group key encrypted for them, the plain group        *)
(* conversations of POST /conversations, and the listing in which a client *)
(* finds them (group_e2ee_business.go, chat_business.go,                   *)
(* postgres_store.go).  Requests interleave between SQL statements; the    *)
(* two *Atomic store calls are transactions and are one step.              *)
(*                                                                         *)
(* Roles creator and admin grant the same rights everywhere: "manager".    *)
(* A copy of the key is told apart by the user whose client encrypted it.  *)
(***************************************************************************)
EXTENDS Naturals, FiniteSets

CONSTANTS
    User,
    ConvId,     \* conversation ids: a bound on the conversations created
    Handler,    \* the requests that may be in flight at the same time
    NoKey       \* encrypted_group_key = ""

ASSUME NoKeyAssumption == NoKey \notin User

VARIABLES
    kind,           \* conversations: "none", "plain" or (with a groups row) "e2ee"
    role,           \* group_members.role, "none" where there is no row
    key,            \* group_members.encrypted_group_key
    participants,   \* table participants
    notices,        \* ADDED_TO_GROUP events delivered
    job,            \* what each in-flight request is doing
    founders        \* history: the users each conversation was requested for

tables == <<kind, role, key, participants>>
vars   == <<tables, notices, job, founders>>

-----------------------------------------------------------------------------
Role == {"member", "manager"}
KeyCopy == User \cup {NoKey}

\* An entry of a listing.  keyFailed is history: the code answers the same ""
\* whether the key query failed or found no row.
Entry == [conv : ConvId, members : SUBSET User, key : KeyCopy, keyFailed : BOOLEAN]
Notice == [to : User, group : ConvId, key : User]

Idle == [at |-> "idle"]
Adding     == [at : {"insertMember"}, by : User, group : ConvId, user : User, role : Role]
Announcing == [at : {"announce"}, group : ConvId, left : SUBSET User, key : User]
Creating   == [at : {"insertParticipants"}, group : ConvId, users : SUBSET User]
Listing    == [at : {"list"}, user : User, todo : SUBSET ConvId, done : SUBSET Entry]
                \cup [at : {"listKey"}, user : User, todo : SUBSET ConvId,
                      done : SUBSET Entry, conv : ConvId, members : SUBSET User]

TypeOK ==
    /\ kind \in [ConvId -> {"none", "plain", "e2ee"}]
    /\ role \in [ConvId -> [User -> Role \cup {"none"}]]
    /\ key \in [ConvId -> [User -> KeyCopy]]
    /\ participants \in [ConvId -> SUBSET User]
    /\ notices \subseteq Notice
    /\ job \in [Handler -> {Idle} \cup Adding \cup Announcing \cup Creating \cup Listing]
    /\ founders \in [ConvId -> SUBSET User]

Init ==
    /\ kind = [c \in ConvId |-> "none"]
    /\ role = [c \in ConvId |-> [u \in User |-> "none"]]
    /\ key = [c \in ConvId |-> [u \in User |-> NoKey]]
    /\ participants = [c \in ConvId |-> {}]
    /\ notices = {}
    /\ job = [h \in Handler |-> Idle]
    /\ founders = [c \in ConvId |-> {}]

Members(c) == {u \in User : role[c][u] # "none"}

-----------------------------------------------------------------------------
(* POST /groups: validation, then groups, conversations, group_members and *)
(* participants in one transaction, then an event to every member.  The    *)
(* request may name a role for any member, the creator included.           *)
CreateE2EEGroup(h, creator, users) ==
    /\ job[h] = Idle
    /\ Cardinality(users) >= 2
    /\ creator \in users
    /\ \E c \in ConvId, r \in [users -> Role] :
        /\ kind[c] = "none"
        /\ kind' = [kind EXCEPT ![c] = "e2ee"]
        /\ role' = [role EXCEPT ![c] = [u \in User |->
                        IF u \in users THEN r[u] ELSE "none"]]
        /\ key' = [key EXCEPT ![c] = [u \in User |->
                        IF u \in users THEN creator ELSE NoKey]]
        /\ participants' = [participants EXCEPT ![c] = users]
        /\ founders' = [founders EXCEPT ![c] = users]
        /\ job' = [job EXCEPT ![h] = [at |-> "announce", group |-> c, left |-> users,
                                   key |-> creator]]
    /\ UNCHANGED notices

\* One event, delivered or lost.  The copy of the key in it is the one of the
\* request: the handler does not read the row again.
Announce(h) ==
    /\ job[h].at = "announce"
    /\ \E u \in job[h].left :
        /\ notices' \in {notices, notices \cup
                {[to |-> u, group |-> job[h].group, key |-> job[h].key]}}
        /\ job' = [job EXCEPT ![h] = IF job[h].left = {u} THEN Idle
                                     ELSE [job[h] EXCEPT !.left = @ \ {u}]]
    /\ UNCHANGED <<tables, founders>>

-----------------------------------------------------------------------------
(* POST /groups/:id/members: the inviter's role is read, then the two rows *)
(* are inserted in one transaction, then the new member is notified.       *)
\* Mutant: any user may add members.
AddGroupMember_AnyInviter(h, inviter, c, user) ==
    /\ job[h] = Idle
    /\ kind[c] = "e2ee"
    /\ \E r \in Role :
        job' = [job EXCEPT ![h] = [at |-> "insertMember", by |-> inviter,
                                   group |-> c, user |-> user, role |-> r]]
    /\ UNCHANGED <<tables, notices, founders>>

\* Mutant: any member may add members.
AddGroupMember_AnyMember(h, inviter, c, user) ==
    /\ job[h] = Idle
    /\ role[c][inviter] # "none"
    /\ \E r \in Role :
        job' = [job EXCEPT ![h] = [at |-> "insertMember", by |-> inviter,
                                   group |-> c, user |-> user, role |-> r]]
    /\ UNCHANGED <<tables, notices, founders>>

AddGroupMember(h, inviter, c, user) ==
    /\ job[h] = Idle
    /\ role[c][inviter] = "manager"
    /\ \E r \in Role :
        job' = [job EXCEPT ![h] = [at |-> "insertMember", by |-> inviter,
                                   group |-> c, user |-> user, role |-> r]]
    /\ UNCHANGED <<tables, notices, founders>>

\* Mutant: the participant row is forgotten.
AddGroupMemberAtomic_MemberOnly(h) ==
    LET j == job[h] IN
    /\ j.at = "insertMember"
    /\ role[j.group][j.user] = "none"
    /\ role' = [role EXCEPT ![j.group][j.user] = j.role]
    /\ key' = [key EXCEPT ![j.group][j.user] = j.by]
    /\ job' = [job EXCEPT ![h] = [at |-> "announce", group |-> j.group,
                                  left |-> {j.user}, key |-> j.by]]
    /\ UNCHANGED <<kind, participants, notices, founders>>

\* Mutant: ON CONFLICT DO NOTHING, and the handler goes on to announce.
AddGroupMemberAtomic_IgnoreConflict(h) ==
    LET j == job[h]
        new == role[j.group][j.user] = "none" IN
    /\ j.at = "insertMember"
    /\ role' = IF new THEN [role EXCEPT ![j.group][j.user] = j.role] ELSE role
    /\ key' = IF new THEN [key EXCEPT ![j.group][j.user] = j.by] ELSE key
    /\ participants' = [participants EXCEPT ![j.group] = @ \cup {j.user}]
    /\ job' = [job EXCEPT ![h] = [at |-> "announce", group |-> j.group,
                                  left |-> {j.user}, key |-> j.by]]
    /\ UNCHANGED <<kind, notices, founders>>

\* A user who is in the group already violates the primary key: the
\* transaction rolls back and the request fails (StatementFails).
AddGroupMemberAtomic(h) ==
    LET j == job[h] IN
    /\ j.at = "insertMember"
    /\ role[j.group][j.user] = "none"
    /\ j.user \notin participants[j.group]
    /\ role' = [role EXCEPT ![j.group][j.user] = j.role]
    /\ key' = [key EXCEPT ![j.group][j.user] = j.by]
    /\ participants' = [participants EXCEPT ![j.group] = @ \cup {j.user}]
    /\ job' = [job EXCEPT ![h] = [at |-> "announce", group |-> j.group,
                                  left |-> {j.user}, key |-> j.by]]
    /\ UNCHANGED <<kind, notices, founders>>

-----------------------------------------------------------------------------
(* POST /conversations: the members without repetition and the creator (at *)
(* least two ids are asked for, not two different ones); the conversation  *)
(* and its participants are two statements.                                *)
CreateGroupConversation(h, creator, users) ==
    /\ job[h] = Idle
    /\ users # {}
    /\ \E c \in ConvId :
        /\ kind[c] = "none"
        /\ kind' = [kind EXCEPT ![c] = "plain"]
        /\ founders' = [founders EXCEPT ![c] = users \cup {creator}]
        /\ job' = [job EXCEPT ![h] = [at |-> "insertParticipants", group |-> c,
                                      users |-> users \cup {creator}]]
    /\ UNCHANGED <<role, key, participants, notices>>

AddParticipants(h) ==
    /\ job[h].at = "insertParticipants"
    /\ participants' = [participants EXCEPT ![job[h].group] = job[h].users]
    /\ job' = [job EXCEPT ![h] = Idle]
    /\ UNCHANGED <<kind, role, key, notices, founders>>

-----------------------------------------------------------------------------
(* GET /conversations: one query for the user's conversations, then, for   *)
(* each of them, one for its participants and, for a group, one for the    *)
(* user's copy of the key, whose error is dropped.                         *)
GetDetailedConversations(h, u) ==
    /\ job[h] = Idle
    /\ job' = [job EXCEPT ![h] =
            [at |-> "list", user |-> u, done |-> {},
             todo |-> {c \in ConvId : u \in participants[c]}]]
    /\ UNCHANGED <<tables, notices, founders>>

ListParticipants(h) ==
    /\ job[h].at = "list"
    /\ \E c \in job[h].todo :
        job' = [job EXCEPT ![h] =
            [at |-> "listKey", user |-> job[h].user, todo |-> job[h].todo \ {c},
             done |-> job[h].done, conv |-> c, members |-> participants[c]]]
    /\ UNCHANGED <<tables, notices, founders>>

\* Mutant: the key query does not name the user.
ListKey_AnyMember(h) ==
    LET j == job[h] IN
    /\ j.at = "listKey"
    /\ \E m \in j.members :
        job' = [job EXCEPT ![h] =
            [at |-> "list", user |-> j.user, todo |-> j.todo,
             done |-> j.done \cup {[conv |-> j.conv, members |-> j.members,
                        key |-> key[j.conv][m], keyFailed |-> FALSE]}]]
    /\ UNCHANGED <<tables, notices, founders>>

ListKey(h) ==
    LET j == job[h] IN
    /\ j.at = "listKey"
    /\ \E failed \in BOOLEAN :
        job' = [job EXCEPT ![h] =
            [at |-> "list", user |-> j.user, todo |-> j.todo,
             done |-> j.done \cup {[conv |-> j.conv, members |-> j.members,
                        key |-> IF failed THEN NoKey ELSE key[j.conv][j.user],
                        keyFailed |-> failed]}]]
    /\ UNCHANGED <<tables, notices, founders>>

AnswerListing(h) ==
    /\ job[h].at = "list"
    /\ job[h].todo = {}
    /\ job' = [job EXCEPT ![h] = Idle]
    /\ UNCHANGED <<tables, notices, founders>>

-----------------------------------------------------------------------------
\* A statement or transaction fails, or the server stops: the handler
\* returns an error; only what was committed stays.
StatementFails(h) ==
    /\ job[h].at \in {"insertMember", "insertParticipants", "list", "listKey"}
    /\ job' = [job EXCEPT ![h] = Idle]
    /\ UNCHANGED <<tables, notices, founders>>

Start(h) == \E u \in User :
    \/ \E users \in SUBSET User :
        CreateE2EEGroup(h, u, users) \/ CreateGroupConversation(h, u, users)
    \/ \E c \in ConvId, v \in User : AddGroupMember(h, u, c, v)
    \/ GetDetailedConversations(h, u)

Continue(h) ==
    \/ Announce(h) \/ AddGroupMemberAtomic(h) \/ AddParticipants(h)
    \/ ListParticipants(h) \/ ListKey(h) \/ AnswerListing(h)
    \/ StatementFails(h)

Next == \E h \in Handler : Start(h) \/ Continue(h)

Spec == Init /\ [][Next]_vars

-----------------------------------------------------------------------------
(***************************************************************************)
(* Safety                                                                  *)
(***************************************************************************)

\* The two tables that say who is in an encrypted group agree: nobody reads
\* the channel without a key, nobody has a key and is left out.
MembersAreParticipants ==
    \A c \in ConvId : kind[c] = "e2ee" =>
        /\ Members(c) = participants[c]
        /\ \A u \in User : key[c][u] # NoKey <=> u \in participants[c]

\* Every copy of a group key was encrypted by a user who holds one, and only
\* the creator made a copy for himself: the chain of invitations behind a copy
\* leads back to the creator, no outsider invites himself.
KeysComeFromHolders ==
    \A c \in ConvId, u \in User : key[c][u] # NoKey =>
        /\ key[c][key[c][u]] # NoKey
        /\ key[c][u] = u => \A v \in User \ {u} : key[c][v] # v

\* The event that adds a group to a client's sidebar is never ahead of the
\* commit and carries the copy of the key that is stored for that member,
\* also when two managers add the same user at the same time.
NoticeCarriesStoredKey ==
    \A n \in notices :
        /\ n.to \in participants[n.group]
        /\ n.key = key[n.group][n.to]

\* A listing is not a snapshot, yet an encrypted group that appears in it
\* comes with its reader among the members and with the reader's key, unless
\* the key query itself failed.
ListedGroupHasKey ==
    \A h \in Handler : job[h].at \in {"list", "listKey"} => \A e \in job[h].done :
        /\ job[h].user \in e.members
        /\ kind[e.conv] = "e2ee" /\ ~e.keyFailed =>
                e.key # NoKey /\ e.key = key[e.conv][job[h].user]

\* A conversation is created for all the users it was requested for or for
\* none of them, and for none only outside encrypted groups.
FoundersAllOrNone ==
    \A c \in ConvId : kind[c] # "none" =>
        \/ founders[c] \subseteq participants[c]
        \/ kind[c] = "plain" /\ participants[c] = {}

\* A group without a manager (a request may name none) never grows, whatever
\* additions were under way.
LeaderlessGroupIsFrozen ==
    [][\A c \in ConvId :
        (kind[c] = "e2ee" /\ \A u \in User : role[c][u] # "manager")
            => participants'[c] = participants[c]]_vars

-----------------------------------------------------------------------------
(***************************************************************************)
(* Refinement: the tables implement the promise of module KeyCustody.      *)
(***************************************************************************)
Custody == INSTANCE KeyCustody WITH Group <- ConvId, copy <- key

\* The right to invite is read one statement before the key is stored, and a
\* role says "may invite" while a row says "has a copy": still a copy of a
\* group key is only ever made by somebody who has one, is made once, and is
\* never replaced, whatever requests interleave or fail.
KeyCustodyIsKept == Custody!Spec

-----------------------------------------------------------------------------
\* chat_business.go:158: a group conversation and all its members are
\* created "in a single transaction".  Once no request works on it, a
\* conversation then has its members.
GroupConversationHasMembers ==
    \A c \in ConvId :
        (kind[c] = "plain" /\ ~\E h \in Handler :
                job[h].at = "insertParticipants" /\ job[h].group = c)
            => participants[c] = founders[c]
=============================================================================
