----------------------------- MODULE GroupsProofs -----------------------------
(***************************************************************************)
(* Theorems about Groups for any users, requests and conversation ids.     *)
(***************************************************************************)
EXTENDS GroupsInv, TLAPS

JobSet == {Idle} \cup Adding \cup Announcing \cup Creating \cup Listing

\* What the statements of this module never undo: conversations stay, members
\* keep their role and their key, participants remain.
Grows ==
    /\ \A c \in ConvId : kind[c] # "none" => kind'[c] = kind[c] /\ founders'[c] = founders[c]
    /\ \A c \in ConvId, u \in User : role[c][u] # "none" => role'[c][u] = role[c][u]
    /\ \A c \in ConvId, u \in User : key[c][u] # NoKey => key'[c][u] = key[c][u]
    /\ \A c \in ConvId : participants[c] \subseteq participants'[c]

\* The types and the invariants that speak of the tables only.
TablesType ==
    /\ kind \in [ConvId -> {"none", "plain", "e2ee"}]
    /\ role \in [ConvId -> [User -> Role \cup {"none"}]]
    /\ key \in [ConvId -> [User -> KeyCopy]]
    /\ participants \in [ConvId -> SUBSET User]
    /\ founders \in [ConvId -> SUBSET User]

TablesAgree ==
    /\ OnlyGroupsHaveMembers
    /\ MembersAreParticipants
    /\ KeysComeFromHolders
    /\ FoundersAllOrNone

Listed(j) ==
    j.at \in {"list", "listKey"} => \A e \in j.done :
        /\ j.user \in e.members
        /\ kind[e.conv] = "e2ee" /\ ~e.keyFailed =>
                e.key # NoKey /\ e.key = key[e.conv][j.user]

-----------------------------------------------------------------------------
\* The stage of a request tells which fields its job has.
LEMMA JobAt ==
    ASSUME NEW j \in JobSet
    PROVE  /\ j.at = "insertMember" => j \in Adding
           /\ j.at = "announce" => j \in Announcing
           /\ j.at = "insertParticipants" => j \in Creating
           /\ j.at \in {"list", "listKey"} =>
                j.user \in User /\ j.todo \in SUBSET ConvId /\ j.done \in SUBSET Entry
           /\ j.at = "listKey" => j.conv \in ConvId /\ j.members \in SUBSET User
           /\ Idle.at = "idle"
  BY DEF JobSet, Adding, Announcing, Creating, Listing, Idle

\* A listing so far and its next conversation are jobs.
LEMMA ListingJobs ==
    ASSUME NEW u \in User, NEW todo \in SUBSET ConvId, NEW done \in SUBSET Entry
    PROVE  /\ [at |-> "list", user |-> u, todo |-> todo, done |-> done] \in JobSet
           /\ \A c \in ConvId, m \in SUBSET User :
                [at |-> "listKey", user |-> u, todo |-> todo, done |-> done,
                 conv |-> c, members |-> m] \in JobSet
  BY DEF JobSet, Listing

-----------------------------------------------------------------------------
\* What another request holds survives a step that only lets the tables grow
\* and does not fill the conversation it is about to fill.
LEMMA InHandKept ==
    ASSUME TypeOK, JobsInHand, Grows, NEW j \in JobSet, InHand(j),
           j.at = "insertParticipants" => participants'[j.group] = {}
    PROVE  InHand(j)'
  <1>1. j.at = "insertMember" => kind'[j.group] = "e2ee" /\ role'[j.group][j.by] = "manager"
    BY JobAt DEF InHand, Grows, Adding
  <1>2. j.at = "announce" =>
            \A u \in j.left : u \in participants'[j.group] /\ key'[j.group][u] = j.key
    <2> SUFFICES ASSUME j.at = "announce", NEW u \in j.left
                 PROVE  u \in participants'[j.group] /\ key'[j.group][u] = j.key
      OBVIOUS
    <2>1. j.group \in ConvId /\ u \in User /\ j.key \in User
      BY JobAt DEF Announcing
    <2>2. u \in participants[j.group] /\ key[j.group][u] = j.key
      BY DEF InHand
    <2> QED BY <2>1, <2>2, NoKeyAssumption DEF Grows
  <1>3. j.at = "insertParticipants" =>
            /\ kind'[j.group] = "plain"
            /\ participants'[j.group] = {}
            /\ j.users = founders'[j.group]
    BY JobAt DEF InHand, Grows, Creating
  <1>4. j.at \in {"list", "listKey"} =>
            /\ \A c \in j.todo : j.user \in participants'[c]
            /\ \A e \in j.done : j.user \in participants'[e.conv]
    BY JobAt DEF InHand, Grows, Entry
  <1>5. j.at = "listKey" => j.user \in j.members /\ j.user \in participants'[j.conv]
    BY JobAt DEF InHand, Grows
  <1> QED BY <1>1, <1>2, <1>3, <1>4, <1>5 DEF InHand

\* So does what a listing has gathered.
LEMMA ListedKept ==
    ASSUME TypeOK, OnlyGroupsHaveMembers, Grows, NEW j \in JobSet, InHand(j), Listed(j)
    PROVE  Listed(j)'
  <1> SUFFICES ASSUME j.at \in {"list", "listKey"}, NEW e \in j.done
               PROVE  /\ j.user \in e.members
                      /\ kind'[e.conv] = "e2ee" /\ ~e.keyFailed =>
                            e.key # NoKey /\ e.key = key'[e.conv][j.user]
    BY DEF Listed
  <1>1. j.user \in User /\ e.conv \in ConvId
    BY JobAt DEF Entry
  <1>2. j.user \in participants[e.conv]
    BY DEF InHand
  <1>3. kind'[e.conv] = kind[e.conv]
    BY <1>1, <1>2 DEF OnlyGroupsHaveMembers, Grows
  <1>4. /\ j.user \in e.members
        /\ kind[e.conv] = "e2ee" /\ ~e.keyFailed =>
                e.key # NoKey /\ e.key = key[e.conv][j.user]
    BY DEF Listed
  <1> QED BY <1>1, <1>3, <1>4 DEF Grows

\* The common part of every step: one job changes, the tables grow.
LEMMA GrowingStep ==
    ASSUME IInv, NEW h \in Handler, NEW j \in JobSet, job' = [job EXCEPT ![h] = j],
           TablesType', TablesAgree', Grows, notices' \subseteq Notice,
           InHand(j)', Listed(j)',
           \A g \in Handler \ {h} : job[g].at = "insertParticipants" =>
                /\ participants'[job[g].group] = {}
                /\ ~(j.at = "insertParticipants" /\ j.group = job[g].group),
           \A n \in notices' \ notices :
                n.to \in participants'[n.group] /\ n.key = key'[n.group][n.to]
    PROVE  IInv'
  <1> USE DEF IInv
  <1>1. job \in [Handler -> JobSet]
    BY DEF TypeOK, JobSet
  <1>2. job'[h] = j /\ \A g \in Handler \ {h} : job'[g] = job[g]
    BY <1>1
  <1>3. TypeOK'
    <2>1. job' \in [Handler -> JobSet]
      BY <1>1
    <2> QED BY <2>1 DEF TypeOK, TablesType, JobSet
  <1>4. JobsInHand'
    <2> SUFFICES ASSUME NEW g \in Handler
                 PROVE  InHand(job[g])'
      BY DEF JobsInHand
    <2>1. CASE g = h
      BY <1>2, <2>1 DEF InHand
    <2>2. CASE g # h
      <3>1. PICK k \in JobSet : k = job[g]
        BY <1>1
      <3>2. InHand(k)
        BY <3>1 DEF JobsInHand
      <3>3. k.at = "insertParticipants" => participants'[k.group] = {}
        BY <2>2, <3>1
      <3>4. InHand(k)'
        BY <3>2, <3>3, InHandKept
      <3>5. job'[g] = k
        BY <1>2, <2>2, <3>1
      <3> QED BY <3>4, <3>5 DEF InHand
    <2> QED BY <2>1, <2>2
  <1>5. OneRequestFills'
    BY <1>2 DEF OneRequestFills
  <1>6. NoticeCarriesStoredKey'
    <2> SUFFICES ASSUME NEW n \in notices'
                 PROVE  n.to \in participants'[n.group] /\ n.key = key'[n.group][n.to]
      BY DEF NoticeCarriesStoredKey
    <2>1. CASE n \in notices
      <3>1. n.to \in User /\ n.group \in ConvId /\ n.key \in User
        BY DEF Notice
      <3>2. n.to \in participants[n.group] /\ n.key = key[n.group][n.to]
        BY <2>1 DEF NoticeCarriesStoredKey
      <3> QED BY <3>1, <3>2, NoKeyAssumption DEF Grows
    <2>2. CASE n \notin notices
      BY <2>2
    <2> QED BY <2>1, <2>2
  <1>7. ListedGroupHasKey'
    <2> SUFFICES ASSUME NEW g \in Handler
                 PROVE  Listed(job[g])'
      BY DEF ListedGroupHasKey, Listed
    <2>1. CASE g = h
      BY <1>2, <2>1 DEF Listed
    <2>2. CASE g # h
      <3>1. PICK k \in JobSet : k = job[g]
        BY <1>1
      <3>2. InHand(k) /\ Listed(k)
        BY <3>1 DEF JobsInHand, ListedGroupHasKey, Listed
      <3>3. Listed(k)'
        BY <3>2, ListedKept
      <3>4. job'[g] = k
        BY <1>2, <2>2, <3>1
      <3> QED BY <3>3, <3>4 DEF Listed
    <2> QED BY <2>1, <2>2
  <1> QED BY <1>3, <1>4, <1>5, <1>6, <1>7 DEF TablesAgree

\* A step that leaves the tables and the notices alone only has to account for
\* the new job.
LEMMA QuietStep ==
    ASSUME IInv, NEW h \in Handler, NEW j \in JobSet, job' = [job EXCEPT ![h] = j],
           UNCHANGED <<tables, notices, founders>>,
           InHand(j), Listed(j), j.at # "insertParticipants"
    PROVE  IInv'
  <1>1. UNCHANGED <<kind, role, key, participants, notices, founders>>
    BY DEF tables
  <1>2. Grows
    BY <1>1 DEF Grows
  <1>3. TablesType'
    BY <1>1 DEF TablesType, IInv, TypeOK
  <1>4. TablesAgree'
    BY <1>1 DEF TablesAgree, IInv, OnlyGroupsHaveMembers, MembersAreParticipants, Members,
        KeysComeFromHolders, FoundersAllOrNone
  <1>5. notices' \subseteq Notice
    BY <1>1 DEF IInv, TypeOK
  <1>6. InHand(j)' /\ Listed(j)'
    BY <1>1 DEF InHand, Listed
  <1>7. \A g \in Handler \ {h} : job[g].at = "insertParticipants" =>
            /\ participants'[job[g].group] = {}
            /\ ~(j.at = "insertParticipants" /\ j.group = job[g].group)
    BY <1>1 DEF IInv, JobsInHand, InHand
  <1>8. \A n \in notices' \ notices :
            n.to \in participants'[n.group] /\ n.key = key'[n.group][n.to]
    BY <1>1
  <1> QED BY <1>2, <1>3, <1>4, <1>5, <1>6, <1>7, <1>8, GrowingStep

\* A request that ends, or fails, leaves nothing in hand.
LEMMA EndingStep ==
    ASSUME IInv, NEW h \in Handler, job' = [job EXCEPT ![h] = Idle],
           UNCHANGED <<tables, notices, founders>>
    PROVE  IInv'
  <1>1. Idle \in JobSet /\ Idle.at = "idle"
    BY DEF JobSet, Idle
  <1>2. InHand(Idle) /\ Listed(Idle)
    BY <1>1 DEF InHand, Listed
  <1> QED BY <1>1, <1>2, QuietStep

-----------------------------------------------------------------------------
\* Whoever finds a role "manager" is in an encrypted group.
LEMMA AddGroupMemberStep ==
    ASSUME IInv, NEW h \in Handler, NEW u \in User, NEW c \in ConvId, NEW v \in User,
           AddGroupMember(h, u, c, v)
    PROVE  IInv'
  <1>1. PICK r \in Role : job' = [job EXCEPT ![h] = [at |-> "insertMember", by |-> u,
                                    group |-> c, user |-> v, role |-> r]]
    BY DEF AddGroupMember
  <1>2. PICK j \in JobSet : j = [at |-> "insertMember", by |-> u,
                                 group |-> c, user |-> v, role |-> r]
    BY DEF JobSet, Adding
  <1>3. kind[c] = "e2ee" /\ role[c][u] = "manager"
    BY DEF AddGroupMember, IInv, OnlyGroupsHaveMembers
  <1>4. InHand(j) /\ Listed(j)
    BY <1>2, <1>3 DEF InHand, Listed
  <1>5. UNCHANGED <<tables, notices, founders>>
    BY DEF AddGroupMember
  <1> QED BY <1>1, <1>2, <1>4, <1>5, QuietStep

\* A listing starts from the conversations the user is in at that moment.
LEMMA GetDetailedConversationsStep ==
    ASSUME IInv, NEW h \in Handler, NEW u \in User, GetDetailedConversations(h, u)
    PROVE  IInv'
  <1>1. PICK todo \in SUBSET ConvId : todo = {c \in ConvId : u \in participants[c]}
    OBVIOUS
  <1>2. PICK j \in JobSet : j = [at |-> "list", user |-> u, todo |-> todo, done |-> {}]
    BY ListingJobs
  <1>3. job' = [job EXCEPT ![h] = j]
    BY <1>1, <1>2 DEF GetDetailedConversations
  <1>4. InHand(j) /\ Listed(j)
    BY <1>1, <1>2 DEF InHand, Listed
  <1>5. UNCHANGED <<tables, notices, founders>>
    BY DEF GetDetailedConversations
  <1> QED BY <1>2, <1>3, <1>4, <1>5, QuietStep

\* The participants read later still hold the reader.
LEMMA ListParticipantsStep ==
    ASSUME IInv, NEW h \in Handler, ListParticipants(h)
    PROVE  IInv'
  <1>1. PICK k \in JobSet : k = job[h]
    BY DEF IInv, TypeOK, JobSet
  <1>2. k.at = "list" /\ InHand(k) /\ Listed(k)
    BY <1>1 DEF ListParticipants, IInv, JobsInHand, ListedGroupHasKey, Listed
  <1>3. k.user \in User /\ k.todo \in SUBSET ConvId /\ k.done \in SUBSET Entry
    BY <1>2, JobAt
  <1>4. PICK c \in k.todo : job' = [job EXCEPT ![h] =
            [at |-> "listKey", user |-> k.user, todo |-> k.todo \ {c},
             done |-> k.done, conv |-> c, members |-> participants[c]]]
    BY <1>1 DEF ListParticipants
  <1>5. PICK m \in SUBSET User : m = participants[c]
    BY <1>3 DEF IInv, TypeOK
  <1>6. PICK j \in JobSet : j = [at |-> "listKey", user |-> k.user, todo |-> k.todo \ {c},
                                 done |-> k.done, conv |-> c, members |-> m]
    BY <1>3, ListingJobs
  <1>7. InHand(j) /\ Listed(j)
    BY <1>2, <1>5, <1>6 DEF InHand, Listed
  <1>8. UNCHANGED <<tables, notices, founders>>
    BY DEF ListParticipants
  <1> QED BY <1>4, <1>5, <1>6, <1>7, <1>8, QuietStep

\* A key read for somebody who is a participant is there.
LEMMA ListKeyStep ==
    ASSUME IInv, NEW h \in Handler, ListKey(h)
    PROVE  IInv'
  <1>1. PICK k \in JobSet : k = job[h]
    BY DEF IInv, TypeOK, JobSet
  <1>2. k.at = "listKey" /\ InHand(k) /\ Listed(k)
    BY <1>1 DEF ListKey, IInv, JobsInHand, ListedGroupHasKey, Listed
  <1>3. /\ k.user \in User /\ k.todo \in SUBSET ConvId /\ k.done \in SUBSET Entry
        /\ k.conv \in ConvId /\ k.members \in SUBSET User
    BY <1>2, JobAt
  <1>4. PICK failed \in BOOLEAN : job' = [job EXCEPT ![h] =
            [at |-> "list", user |-> k.user, todo |-> k.todo,
             done |-> k.done \cup {[conv |-> k.conv, members |-> k.members,
                        key |-> IF failed THEN NoKey ELSE key[k.conv][k.user],
                        keyFailed |-> failed]}]]
    BY <1>1 DEF ListKey
  <1>5. key[k.conv][k.user] \in KeyCopy /\ NoKey \in KeyCopy
    BY <1>3 DEF IInv, TypeOK, KeyCopy
  <1>6. PICK e \in Entry : e = [conv |-> k.conv, members |-> k.members,
                        key |-> IF failed THEN NoKey ELSE key[k.conv][k.user],
                        keyFailed |-> failed]
    BY <1>3, <1>5 DEF Entry
  <1>7. PICK j \in JobSet : j = [at |-> "list", user |-> k.user, todo |-> k.todo,
                                 done |-> k.done \cup {e}]
    BY <1>3, ListingJobs
  <1>8. k.user \in k.members /\ k.user \in participants[k.conv]
    BY <1>2 DEF InHand
  <1>9. kind[k.conv] = "e2ee" => key[k.conv][k.user] # NoKey
    BY <1>3, <1>8 DEF IInv, MembersAreParticipants
  <1>10. InHand(j)
    BY <1>2, <1>6, <1>7, <1>8 DEF InHand
  <1>11. Listed(j)
    <2> SUFFICES ASSUME NEW d \in k.done \cup {e}
                 PROVE  /\ k.user \in d.members
                        /\ kind[d.conv] = "e2ee" /\ ~d.keyFailed =>
                                d.key # NoKey /\ d.key = key[d.conv][k.user]
      BY <1>7 DEF Listed
    <2>1. CASE d \in k.done
      BY <1>2, <2>1 DEF Listed
    <2>2. CASE d = e
      BY <1>6, <1>8, <1>9, <2>2
    <2> QED BY <2>1, <2>2
  <1>12. UNCHANGED <<tables, notices, founders>>
    BY DEF ListKey
  <1> QED BY <1>4, <1>6, <1>7, <1>10, <1>11, <1>12, QuietStep

\* The event repeats what the request stored, whatever others did since.
LEMMA AnnounceStep ==
    ASSUME IInv, NEW h \in Handler, Announce(h)
    PROVE  IInv'
  <1>1. PICK k \in JobSet : k = job[h]
    BY DEF IInv, TypeOK, JobSet
  <1>2. k.at = "announce" /\ InHand(k) /\ k \in Announcing
    BY <1>1, JobAt DEF Announce, IInv, JobsInHand
  <1>3. PICK u \in k.left :
            /\ notices' \in {notices, notices \cup
                    {[to |-> u, group |-> k.group, key |-> k.key]}}
            /\ job' = [job EXCEPT ![h] = IF k.left = {u} THEN Idle
                                         ELSE [k EXCEPT !.left = @ \ {u}]]
    BY <1>1 DEF Announce
  <1>4. u \in User /\ k.group \in ConvId /\ k.key \in User /\ k.left \in SUBSET User
    BY <1>2 DEF Announcing
  <1>5. u \in participants[k.group] /\ key[k.group][u] = k.key
    BY <1>2 DEF InHand
  <1>6. UNCHANGED <<kind, role, key, participants, founders>>
    BY DEF Announce, tables
  <1>7. PICK j \in JobSet : j = IF k.left = {u} THEN Idle ELSE [k EXCEPT !.left = @ \ {u}]
    <2>1. [k EXCEPT !.left = @ \ {u}] \in Announcing
      BY <1>2, <1>4 DEF Announcing
    <2> QED BY <2>1 DEF JobSet
  <1>8. job' = [job EXCEPT ![h] = j]
    BY <1>3, <1>7
  <1>10. j.at \in {"idle", "announce"} /\ InHand(j)' /\ Listed(j)'
    <2>1. CASE k.left = {u}
      BY <1>7, <2>1 DEF InHand, Listed, Idle
    <2>2. CASE k.left # {u}
      <3>1. j.at = "announce" /\ j.group = k.group /\ j.key = k.key /\ j.left = k.left \ {u}
        BY <1>2, <1>7, <2>2 DEF Announcing
      <3>2. \A v \in j.left : v \in participants[j.group] /\ key[j.group][v] = j.key
        BY <1>2, <3>1 DEF InHand
      <3> QED BY <1>6, <3>1, <3>2 DEF InHand, Listed
    <2> QED BY <2>1, <2>2
  <1>11. Grows
    BY <1>6 DEF Grows
  <1>12. TablesType'
    BY <1>6 DEF TablesType, IInv, TypeOK
  <1>13. TablesAgree'
    BY <1>6 DEF TablesAgree, IInv, OnlyGroupsHaveMembers, MembersAreParticipants, Members,
        KeysComeFromHolders, FoundersAllOrNone
  <1>14. [to |-> u, group |-> k.group, key |-> k.key] \in Notice
    BY <1>4 DEF Notice
  <1>15. notices' \subseteq Notice
    BY <1>3, <1>14 DEF IInv, TypeOK
  <1>16. \A g \in Handler \ {h} : job[g].at = "insertParticipants" =>
            /\ participants'[job[g].group] = {}
            /\ ~(j.at = "insertParticipants" /\ j.group = job[g].group)
    BY <1>6, <1>10 DEF IInv, JobsInHand, InHand
  <1>17. \A n \in notices' \ notices :
            n.to \in participants'[n.group] /\ n.key = key'[n.group][n.to]
    BY <1>3, <1>5, <1>6
  <1> QED BY <1>8, <1>10, <1>11, <1>12, <1>13, <1>15, <1>16, <1>17, GrowingStep

\* The two rows and the copy of the key appear together; the copy comes from a
\* manager, who has one.
LEMMA AddGroupMemberAtomicStep ==
    ASSUME IInv, NEW h \in Handler, AddGroupMemberAtomic(h)
    PROVE  IInv'
  <1>1. PICK k \in JobSet : k = job[h]
    BY DEF IInv, TypeOK, JobSet
  <1>2. k.at = "insertMember" /\ InHand(k) /\ k \in Adding
    BY <1>1, JobAt DEF AddGroupMemberAtomic, IInv, JobsInHand
  <1>3. /\ k.by \in User /\ k.group \in ConvId /\ k.user \in User /\ k.role \in Role
        /\ kind[k.group] = "e2ee" /\ role[k.group][k.by] = "manager"
    BY <1>2 DEF Adding, InHand
  <1>4. /\ role[k.group][k.user] = "none"
        /\ k.user \notin participants[k.group]
        /\ role' = [role EXCEPT ![k.group][k.user] = k.role]
        /\ key' = [key EXCEPT ![k.group][k.user] = k.by]
        /\ participants' = [participants EXCEPT ![k.group] = @ \cup {k.user}]
        /\ UNCHANGED <<kind, notices, founders>>
    BY <1>1 DEF AddGroupMemberAtomic
  <1>5. PICK j \in JobSet : j = [at |-> "announce", group |-> k.group,
                                 left |-> {k.user}, key |-> k.by]
    BY <1>3 DEF JobSet, Announcing
  <1>6. job' = [job EXCEPT ![h] = j]
    BY <1>1, <1>5 DEF AddGroupMemberAtomic
  <1>7. /\ role \in [ConvId -> [User -> Role \cup {"none"}]]
        /\ key \in [ConvId -> [User -> KeyCopy]]
        /\ participants \in [ConvId -> SUBSET User]
        /\ kind \in [ConvId -> {"none", "plain", "e2ee"}]
        /\ founders \in [ConvId -> SUBSET User]
    BY DEF IInv, TypeOK
  <1>8. /\ \A c \in ConvId, u \in User : role'[c][u] =
                IF c = k.group /\ u = k.user THEN k.role ELSE role[c][u]
        /\ \A c \in ConvId, u \in User : key'[c][u] =
                IF c = k.group /\ u = k.user THEN k.by ELSE key[c][u]
        /\ \A c \in ConvId : participants'[c] =
                IF c = k.group THEN participants[c] \cup {k.user} ELSE participants[c]
    BY <1>3, <1>4, <1>7
  <1>9. k.role # "none" /\ k.by # NoKey
    BY <1>3, NoKeyAssumption DEF Role
  <1>10. key[k.group][k.user] = NoKey /\ key[k.group][k.by] # NoKey /\ k.by # k.user
    BY <1>3, <1>4 DEF IInv, MembersAreParticipants, Members
  <1>11. Grows
    BY <1>4, <1>8, <1>10 DEF Grows
  <1>12. TablesType'
    <2>1. role' \in [ConvId -> [User -> Role \cup {"none"}]]
      BY <1>3, <1>4, <1>7
    <2>2. key' \in [ConvId -> [User -> KeyCopy]]
      BY <1>3, <1>4, <1>7 DEF KeyCopy
    <2>3. participants' \in [ConvId -> SUBSET User]
      BY <1>3, <1>4, <1>7
    <2> QED BY <1>4, <1>7, <2>1, <2>2, <2>3 DEF TablesType
  <1>13. OnlyGroupsHaveMembers'
    BY <1>3, <1>4, <1>8 DEF IInv, OnlyGroupsHaveMembers
  <1>14. MembersAreParticipants'
    <2> SUFFICES ASSUME NEW c \in ConvId, kind[c] = "e2ee"
                 PROVE  /\ {u \in User : role'[c][u] # "none"} = participants'[c]
                        /\ \A u \in User : key'[c][u] # NoKey <=> u \in participants'[c]
      BY <1>4 DEF MembersAreParticipants, Members
    <2>1. /\ {u \in User : role[c][u] # "none"} = participants[c]
          /\ \A u \in User : key[c][u] # NoKey <=> u \in participants[c]
      BY DEF IInv, MembersAreParticipants, Members
    <2>2. ASSUME NEW u \in User
          PROVE  /\ role'[c][u] # "none" <=> u \in participants'[c]
                 /\ key'[c][u] # NoKey <=> u \in participants'[c]
      <3>1. /\ role[c][u] # "none" <=> u \in participants[c]
            /\ key[c][u] # NoKey <=> u \in participants[c]
        BY <2>1
      <3>2. CASE c = k.group /\ u = k.user
        <4>1. role'[c][u] = k.role /\ key'[c][u] = k.by /\ u \in participants'[c]
          BY <1>8, <3>2
        <4> QED BY <1>9, <4>1
      <3>3. CASE ~(c = k.group /\ u = k.user)
        <4>1. role'[c][u] = role[c][u] /\ key'[c][u] = key[c][u]
          BY <1>8, <3>3
        <4>2. u \in participants'[c] <=> u \in participants[c]
          <5>1. CASE c = k.group
            <6>1. participants'[c] = participants[c] \cup {k.user}
              BY <1>8, <5>1
            <6> QED BY <3>3, <5>1, <6>1
          <5>2. CASE c # k.group
            <6>1. participants'[c] = participants[c]
              BY <1>8, <5>2
            <6> QED BY <6>1
          <5> QED BY <5>1, <5>2
        <4> QED BY <3>1, <4>1, <4>2
      <3> QED BY <3>2, <3>3
    <2>4. participants'[c] \subseteq User
      BY <1>12 DEF TablesType
    <2>5. participants'[c] = {u \in User : u \in participants'[c]}
      BY <2>4
    <2>6. {u \in User : role'[c][u] # "none"} = {u \in User : u \in participants'[c]}
      BY <2>2
    <2> QED BY <2>2, <2>5, <2>6
  <1>15. KeysComeFromHolders'
    <2> SUFFICES ASSUME NEW c \in ConvId, NEW u \in User, key'[c][u] # NoKey
                 PROVE  /\ key'[c][key'[c][u]] # NoKey
                        /\ key'[c][u] = u => \A v \in User \ {u} : key'[c][v] # v
      BY DEF KeysComeFromHolders
    <2>1. CASE c = k.group /\ u = k.user
      BY <1>3, <1>8, <1>10, <2>1
    <2>2. CASE ~(c = k.group /\ u = k.user)
      <3>1. key'[c][u] = key[c][u] /\ key[c][u] \in User
        BY <1>7, <1>8, <2>2 DEF KeyCopy
      <3>2. /\ key[c][key[c][u]] # NoKey
            /\ key[c][u] = u => \A v \in User \ {u} : key[c][v] # v
        BY <3>1 DEF IInv, KeysComeFromHolders
      <3>3. key'[c][key[c][u]] # NoKey
        BY <1>8, <1>9, <3>1, <3>2
      <3>4. key[c][u] = u => \A v \in User \ {u} : key'[c][v] # v
        BY <1>8, <1>10, <3>2
      <3> QED BY <3>1, <3>3, <3>4
    <2> QED BY <2>1, <2>2
  <1>16. FoundersAllOrNone'
    BY <1>3, <1>4, <1>8 DEF IInv, FoundersAllOrNone
  <1>17. InHand(j)' /\ Listed(j)'
    <2>1. k.user \in participants'[k.group] /\ key'[k.group][k.user] = k.by
      BY <1>3, <1>8
    <2> QED BY <1>5, <2>1 DEF InHand, Listed
  <1>18. \A g \in Handler \ {h} : job[g].at = "insertParticipants" =>
            /\ participants'[job[g].group] = {}
            /\ ~(j.at = "insertParticipants" /\ j.group = job[g].group)
    <2> SUFFICES ASSUME NEW g \in Handler, job[g].at = "insertParticipants"
                 PROVE  participants'[job[g].group] = {}
      BY <1>5
    <2>1. PICK i \in JobSet : i = job[g]
      BY DEF IInv, TypeOK, JobSet
    <2>2. i.group \in ConvId /\ kind[i.group] = "plain" /\ participants[i.group] = {}
      BY <2>1, JobAt DEF Creating, IInv, JobsInHand, InHand
    <2> QED BY <1>3, <1>8, <2>1, <2>2
  <1>19. notices' \subseteq Notice /\ notices' \ notices = {}
    BY <1>4 DEF IInv, TypeOK
  <1> QED BY <1>6, <1>11, <1>12, <1>13, <1>14, <1>15, <1>16, <1>17, <1>18, <1>19, GrowingStep
          DEF TablesAgree

-----------------------------------------------------------------------------
\* A new group starts complete: everybody it was requested for has the rows
\* and a copy of the key made by the creator, who is one of them.
LEMMA CreateE2EEGroupStep ==
    ASSUME IInv, NEW h \in Handler, NEW creator \in User, NEW users \in SUBSET User,
           CreateE2EEGroup(h, creator, users)
    PROVE  IInv'
  <1>1. creator \in users /\ UNCHANGED notices
    BY DEF CreateE2EEGroup
  <1>2. PICK c \in ConvId, r \in [users -> Role] :
            /\ kind[c] = "none"
            /\ kind' = [kind EXCEPT ![c] = "e2ee"]
            /\ role' = [role EXCEPT ![c] = [u \in User |->
                            IF u \in users THEN r[u] ELSE "none"]]
            /\ key' = [key EXCEPT ![c] = [u \in User |->
                            IF u \in users THEN creator ELSE NoKey]]
            /\ participants' = [participants EXCEPT ![c] = users]
            /\ founders' = [founders EXCEPT ![c] = users]
            /\ job' = [job EXCEPT ![h] = [at |-> "announce", group |-> c, left |-> users,
                                       key |-> creator]]
    BY DEF CreateE2EEGroup
  <1>3. PICK j \in JobSet : j = [at |-> "announce", group |-> c, left |-> users,
                                 key |-> creator]
    BY DEF JobSet, Announcing
  <1>4. job' = [job EXCEPT ![h] = j]
    BY <1>2, <1>3
  <1>5. /\ kind \in [ConvId -> {"none", "plain", "e2ee"}]
        /\ role \in [ConvId -> [User -> Role \cup {"none"}]]
        /\ key \in [ConvId -> [User -> KeyCopy]]
        /\ participants \in [ConvId -> SUBSET User]
        /\ founders \in [ConvId -> SUBSET User]
    BY DEF IInv, TypeOK
  <1>6. /\ kind'[c] = "e2ee" /\ participants'[c] = users /\ founders'[c] = users
        /\ \A u \in User : role'[c][u] = IF u \in users THEN r[u] ELSE "none"
        /\ \A u \in User : key'[c][u] = IF u \in users THEN creator ELSE NoKey
    BY <1>2, <1>5
  <1>7. \A d \in ConvId \ {c} :
            /\ kind'[d] = kind[d] /\ participants'[d] = participants[d]
            /\ founders'[d] = founders[d] /\ role'[d] = role[d] /\ key'[d] = key[d]
    BY <1>2, <1>5
  <1>8. /\ participants[c] = {}
        /\ \A u \in User : role[c][u] = "none" /\ key[c][u] = NoKey
    BY <1>2 DEF IInv, OnlyGroupsHaveMembers
  <1>9. Grows
    <2> SUFFICES ASSUME NEW d \in ConvId
                 PROVE  /\ kind[d] # "none" => kind'[d] = kind[d] /\ founders'[d] = founders[d]
                        /\ \A u \in User : role[d][u] # "none" => role'[d][u] = role[d][u]
                        /\ \A u \in User : key[d][u] # NoKey => key'[d][u] = key[d][u]
                        /\ participants[d] \subseteq participants'[d]
      BY DEF Grows
    <2>1. CASE d = c
      BY <1>2, <1>8, <2>1
    <2>2. CASE d # c
      BY <1>7, <2>2
    <2> QED BY <2>1, <2>2
  <1>10. TablesType'
    <2>1. [u \in User |-> IF u \in users THEN r[u] ELSE "none"]
                \in [User -> Role \cup {"none"}]
      OBVIOUS
    <2>2. [u \in User |-> IF u \in users THEN creator ELSE NoKey] \in [User -> KeyCopy]
      BY DEF KeyCopy
    <2>3. role' \in [ConvId -> [User -> Role \cup {"none"}]]
      BY <1>2, <1>5, <2>1
    <2>4. key' \in [ConvId -> [User -> KeyCopy]]
      BY <1>2, <1>5, <2>2
    <2>5. /\ kind' \in [ConvId -> {"none", "plain", "e2ee"}]
          /\ participants' \in [ConvId -> SUBSET User]
          /\ founders' \in [ConvId -> SUBSET User]
      BY <1>2, <1>5
    <2> QED BY <2>3, <2>4, <2>5 DEF TablesType
  <1>11. \A u \in User : (role'[c][u] # "none" <=> u \in users)
                      /\ (key'[c][u] # NoKey <=> u \in users)
    <2>1. \A u \in users : r[u] # "none"
      BY DEF Role
    <2> QED BY <1>6, <2>1, NoKeyAssumption
  <1>12. OnlyGroupsHaveMembers'
    <2> SUFFICES ASSUME NEW d \in ConvId
                 PROVE  /\ kind'[d] # "e2ee" =>
                                \A u \in User : role'[d][u] = "none" /\ key'[d][u] = NoKey
                        /\ kind'[d] = "none" => participants'[d] = {}
      BY DEF OnlyGroupsHaveMembers
    <2>1. CASE d = c
      BY <1>6, <2>1
    <2>2. CASE d # c
      BY <1>7, <2>2 DEF IInv, OnlyGroupsHaveMembers
    <2> QED BY <2>1, <2>2
  <1>13. MembersAreParticipants'
    <2> SUFFICES ASSUME NEW d \in ConvId, kind'[d] = "e2ee"
                 PROVE  /\ {u \in User : role'[d][u] # "none"} = participants'[d]
                        /\ \A u \in User : key'[d][u] # NoKey <=> u \in participants'[d]
      BY DEF MembersAreParticipants, Members
    <2>1. CASE d = c
      <3>1. {u \in User : role'[c][u] # "none"} = {u \in User : u \in users}
        BY <1>11
      <3> QED BY <1>6, <1>11, <2>1, <3>1
    <2>2. CASE d # c
      BY <1>7, <2>2 DEF IInv, MembersAreParticipants, Members
    <2> QED BY <2>1, <2>2
  <1>14. KeysComeFromHolders'
    <2> SUFFICES ASSUME NEW d \in ConvId, NEW u \in User, key'[d][u] # NoKey
                 PROVE  /\ key'[d][key'[d][u]] # NoKey
                        /\ key'[d][u] = u => \A v \in User \ {u} : key'[d][v] # v
      BY DEF KeysComeFromHolders
    <2>1. CASE d = c
      <3>1. \A v \in User : key'[c][v] = creator \/ key'[c][v] = NoKey
        BY <1>6
      <3>2. key'[c][u] = creator /\ key'[c][creator] # NoKey
        BY <1>1, <1>11, <2>1, <3>1
      <3> QED BY <2>1, <3>1, <3>2, NoKeyAssumption
    <2>2. CASE d # c
      BY <1>7, <2>2 DEF IInv, KeysComeFromHolders
    <2> QED BY <2>1, <2>2
  <1>15. FoundersAllOrNone'
    <2> SUFFICES ASSUME NEW d \in ConvId, kind'[d] # "none"
                 PROVE  \/ founders'[d] \subseteq participants'[d]
                        \/ kind'[d] = "plain" /\ participants'[d] = {}
      BY DEF FoundersAllOrNone
    <2>1. CASE d = c
      BY <1>6, <2>1
    <2>2. CASE d # c
      BY <1>7, <2>2 DEF IInv, FoundersAllOrNone
    <2> QED BY <2>1, <2>2
  <1>16. InHand(j)' /\ Listed(j)'
    <2>1. \A u \in users : u \in participants'[c] /\ key'[c][u] = creator
      BY <1>6
    <2> QED BY <1>3, <2>1 DEF InHand, Listed
  <1>17. \A g \in Handler \ {h} : job[g].at = "insertParticipants" =>
            /\ participants'[job[g].group] = {}
            /\ ~(j.at = "insertParticipants" /\ j.group = job[g].group)
    <2> SUFFICES ASSUME NEW g \in Handler, job[g].at = "insertParticipants"
                 PROVE  participants'[job[g].group] = {}
      BY <1>3
    <2>1. PICK i \in JobSet : i = job[g]
      BY DEF IInv, TypeOK, JobSet
    <2>2. i.group \in ConvId /\ kind[i.group] = "plain" /\ participants[i.group] = {}
      BY <2>1, JobAt DEF Creating, IInv, JobsInHand, InHand
    <2>3. participants'[i.group] = {}
      BY <1>2, <1>7, <2>2
    <2> QED BY <2>1, <2>3
  <1>18. notices' \subseteq Notice /\ notices' \ notices = {}
    BY <1>1 DEF IInv, TypeOK
  <1> QED BY <1>4, <1>9, <1>10, <1>12, <1>13, <1>14, <1>15, <1>16, <1>17, <1>18, GrowingStep
          DEF TablesAgree

\* A new plain conversation is empty and only this request will fill it.
LEMMA CreateGroupConversationStep ==
    ASSUME IInv, NEW h \in Handler, NEW creator \in User, NEW users \in SUBSET User,
           CreateGroupConversation(h, creator, users)
    PROVE  IInv'
  <1>1. PICK all \in SUBSET User : all = users \cup {creator}
    OBVIOUS
  <1>2. PICK c \in ConvId :
            /\ kind[c] = "none"
            /\ kind' = [kind EXCEPT ![c] = "plain"]
            /\ founders' = [founders EXCEPT ![c] = all]
            /\ job' = [job EXCEPT ![h] = [at |-> "insertParticipants", group |-> c,
                                          users |-> all]]
    BY <1>1 DEF CreateGroupConversation
  <1>3. UNCHANGED <<role, key, participants, notices>>
    BY DEF CreateGroupConversation
  <1>4. PICK j \in JobSet : j = [at |-> "insertParticipants", group |-> c, users |-> all]
    BY DEF JobSet, Creating
  <1>5. job' = [job EXCEPT ![h] = j]
    BY <1>2, <1>4
  <1>6. /\ kind \in [ConvId -> {"none", "plain", "e2ee"}]
        /\ founders \in [ConvId -> SUBSET User]
    BY DEF IInv, TypeOK
  <1>7. /\ kind'[c] = "plain" /\ founders'[c] = all
        /\ \A d \in ConvId \ {c} : kind'[d] = kind[d] /\ founders'[d] = founders[d]
    BY <1>2, <1>6
  <1>8. participants[c] = {}
    BY <1>2 DEF IInv, OnlyGroupsHaveMembers
  <1>9. Grows
    BY <1>2, <1>3, <1>7 DEF Grows
  <1>10. TablesType'
    BY <1>2, <1>3, <1>6 DEF TablesType, IInv, TypeOK
  <1>11. OnlyGroupsHaveMembers'
    BY <1>2, <1>3, <1>7 DEF IInv, OnlyGroupsHaveMembers
  <1>12. MembersAreParticipants'
    BY <1>3, <1>7 DEF IInv, MembersAreParticipants, Members
  <1>13. KeysComeFromHolders'
    BY <1>3 DEF IInv, KeysComeFromHolders
  <1>14. FoundersAllOrNone'
    BY <1>3, <1>7, <1>8 DEF IInv, FoundersAllOrNone
  <1>15. InHand(j)' /\ Listed(j)'
    BY <1>3, <1>4, <1>7, <1>8 DEF InHand, Listed
  <1>16. \A g \in Handler \ {h} : job[g].at = "insertParticipants" =>
            /\ participants'[job[g].group] = {}
            /\ ~(j.at = "insertParticipants" /\ j.group = job[g].group)
    <2> SUFFICES ASSUME NEW g \in Handler, job[g].at = "insertParticipants"
                 PROVE  participants[job[g].group] = {} /\ kind[job[g].group] = "plain"
      BY <1>2, <1>3, <1>4
    <2> QED BY DEF IInv, JobsInHand, InHand
  <1>17. notices' \subseteq Notice /\ notices' \ notices = {}
    BY <1>3 DEF IInv, TypeOK
  <1> QED BY <1>5, <1>9, <1>10, <1>11, <1>12, <1>13, <1>14, <1>15, <1>16, <1>17, GrowingStep
          DEF TablesAgree

\* It is filled with everybody it was requested for.
LEMMA AddParticipantsStep ==
    ASSUME IInv, NEW h \in Handler, AddParticipants(h)
    PROVE  IInv'
  <1>1. PICK k \in JobSet : k = job[h]
    BY DEF IInv, TypeOK, JobSet
  <1>2. k.at = "insertParticipants" /\ InHand(k) /\ k \in Creating
    BY <1>1, JobAt DEF AddParticipants, IInv, JobsInHand
  <1>3. /\ k.group \in ConvId /\ k.users \in SUBSET User
        /\ kind[k.group] = "plain" /\ participants[k.group] = {}
        /\ k.users = founders[k.group]
    BY <1>2 DEF InHand, Creating
  <1>4. /\ participants' = [participants EXCEPT ![k.group] = k.users]
        /\ job' = [job EXCEPT ![h] = Idle]
        /\ UNCHANGED <<kind, role, key, notices, founders>>
    BY <1>1 DEF AddParticipants
  <1>5. PICK j \in JobSet : j = Idle
    BY DEF JobSet
  <1>6. job' = [job EXCEPT ![h] = j] /\ j.at = "idle"
    BY <1>4, <1>5 DEF Idle
  <1>7. participants \in [ConvId -> SUBSET User]
    BY DEF IInv, TypeOK
  <1>8. /\ participants'[k.group] = k.users
        /\ \A d \in ConvId \ {k.group} : participants'[d] = participants[d]
    BY <1>3, <1>4, <1>7
  <1>9. Grows
    BY <1>3, <1>4, <1>8 DEF Grows
  <1>10. TablesType'
    BY <1>3, <1>4, <1>7 DEF TablesType, IInv, TypeOK
  <1>11. OnlyGroupsHaveMembers'
    BY <1>3, <1>4, <1>8 DEF IInv, OnlyGroupsHaveMembers
  <1>12. MembersAreParticipants'
    BY <1>3, <1>4, <1>8 DEF IInv, MembersAreParticipants, Members
  <1>13. KeysComeFromHolders'
    BY <1>4 DEF IInv, KeysComeFromHolders
  <1>14. FoundersAllOrNone'
    BY <1>3, <1>4, <1>8 DEF IInv, FoundersAllOrNone
  <1>15. InHand(j)' /\ Listed(j)'
    BY <1>6 DEF InHand, Listed
  <1>16. \A g \in Handler \ {h} : job[g].at = "insertParticipants" =>
            /\ participants'[job[g].group] = {}
            /\ ~(j.at = "insertParticipants" /\ j.group = job[g].group)
    <2> SUFFICES ASSUME NEW g \in Handler \ {h}, job[g].at = "insertParticipants"
                 PROVE  participants'[job[g].group] = {}
      BY <1>6
    <2>1. PICK i \in JobSet : i = job[g]
      BY DEF IInv, TypeOK, JobSet
    <2>2. i.group \in ConvId /\ participants[i.group] = {}
      BY <2>1, JobAt DEF Creating, IInv, JobsInHand, InHand
    <2>3. i.group # k.group
      BY <1>1, <1>2, <2>1 DEF IInv, OneRequestFills
    <2> QED BY <1>8, <2>1, <2>2, <2>3
  <1>17. notices' \subseteq Notice /\ notices' \ notices = {}
    BY <1>4 DEF IInv, TypeOK
  <1> QED BY <1>6, <1>9, <1>10, <1>11, <1>12, <1>13, <1>14, <1>15, <1>16, <1>17, GrowingStep
          DEF TablesAgree

-----------------------------------------------------------------------------
\* The invariant holds before any group exists.
LEMMA InitInv == Init => IInv
  <1> SUFFICES ASSUME Init
               PROVE  IInv
    OBVIOUS
  <1>1. \A h \in Handler : job[h] = Idle /\ job[h].at = "idle"
    BY DEF Init, Idle
  <1>2. TypeOK
    BY DEF Init, TypeOK, KeyCopy
  <1>3. OnlyGroupsHaveMembers /\ KeysComeFromHolders
    BY DEF Init, OnlyGroupsHaveMembers, KeysComeFromHolders
  <1>4. JobsInHand /\ OneRequestFills /\ ListedGroupHasKey
    BY <1>1 DEF JobsInHand, InHand, OneRequestFills, ListedGroupHasKey
  <1>5. MembersAreParticipants /\ FoundersAllOrNone
    BY DEF Init, MembersAreParticipants, FoundersAllOrNone
  <1>6. NoticeCarriesStoredKey
    BY DEF Init, NoticeCarriesStoredKey
  <1> QED BY <1>2, <1>3, <1>4, <1>5, <1>6 DEF IInv

\* No step, of any request, breaks it.
LEMMA NextInv == IInv /\ [Next]_vars => IInv'
  <1> SUFFICES ASSUME IInv, [Next]_vars
               PROVE  IInv'
    OBVIOUS
  <1>1. ASSUME NEW h \in Handler, Start(h)
        PROVE  IInv'
    <2>1. PICK u \in User :
            \/ \E users \in SUBSET User :
                CreateE2EEGroup(h, u, users) \/ CreateGroupConversation(h, u, users)
            \/ \E c \in ConvId, v \in User : AddGroupMember(h, u, c, v)
            \/ GetDetailedConversations(h, u)
      BY <1>1 DEF Start
    <2> QED BY <2>1, CreateE2EEGroupStep, CreateGroupConversationStep,
               AddGroupMemberStep, GetDetailedConversationsStep
  <1>2. ASSUME NEW h \in Handler, Continue(h)
        PROVE  IInv'
    <2>1. CASE AnswerListing(h)
      BY <2>1, EndingStep DEF AnswerListing
    <2>2. CASE StatementFails(h)
      BY <2>2, EndingStep DEF StatementFails
    <2> QED BY <1>2, <2>1, <2>2, AnnounceStep, AddGroupMemberAtomicStep,
               AddParticipantsStep, ListParticipantsStep, ListKeyStep DEF Continue
  <1>3. CASE UNCHANGED vars
    BY <1>3 DEF vars, tables, IInv, TypeOK, OnlyGroupsHaveMembers, JobsInHand, InHand,
        OneRequestFills, MembersAreParticipants, Members, KeysComeFromHolders,
        NoticeCarriesStoredKey, ListedGroupHasKey, FoundersAllOrNone
  <1> QED BY <1>1, <1>2, <1>3 DEF Next

\* The inductive invariant holds for any users, conversations and requests.
THEOREM Invariance == Spec => []IInv
  BY InitInv, NextInv, PTL DEF Spec

\* Type correctness of the tables, the notices and the requests in flight.
THEOREM TypeCorrect == Spec => []TypeOK
  <1>1. IInv => TypeOK
    BY DEF IInv
  <1> QED BY <1>1, Invariance, PTL

\* In an encrypted group the member rows, the participant rows and the copies
\* of the key are of the same users (the two *Atomic store calls).
THEOREM RowsAgree == Spec => []MembersAreParticipants
  <1>1. IInv => MembersAreParticipants
    BY DEF IInv
  <1> QED BY <1>1, Invariance, PTL

\* Every copy of the group key was made by somebody who has one.
THEOREM KeyProvenance == Spec => []KeysComeFromHolders
  <1>1. IInv => KeysComeFromHolders
    BY DEF IInv
  <1> QED BY <1>1, Invariance, PTL

\* An ADDED_TO_GROUP event that reaches a client repeats the stored row.
THEOREM NoticesMatchRows == Spec => []NoticeCarriesStoredKey
  <1>1. IInv => NoticeCarriesStoredKey
    BY DEF IInv
  <1> QED BY <1>1, Invariance, PTL

\* A listed encrypted group comes with the reader's key.
THEOREM ListingsHaveKeys == Spec => []ListedGroupHasKey
  <1>1. IInv => ListedGroupHasKey
    BY DEF IInv
  <1> QED BY <1>1, Invariance, PTL

\* A conversation has all the users it was requested for, or is an empty plain one.
THEOREM CreationAllOrNone == Spec => []FoundersAllOrNone
  <1>1. IInv => FoundersAllOrNone
    BY DEF IInv
  <1> QED BY <1>1, Invariance, PTL

\* A group that has no manager never gets another participant.
THEOREM LeaderlessGroupsFrozen == Spec => LeaderlessGroupIsFrozen
  <1> DEFINE Frozen == \A c \in ConvId :
                (kind[c] = "e2ee" /\ \A u \in User : role[c][u] # "manager")
                    => participants'[c] = participants[c]
  <1>1. IInv /\ [Next]_vars => [Frozen]_vars
    <2> SUFFICES ASSUME IInv, Next, NEW c \in ConvId, kind[c] = "e2ee",
                        \A u \in User : role[c][u] # "manager"
                 PROVE  participants'[c] = participants[c]
      OBVIOUS
    <2>1. participants \in [ConvId -> SUBSET User] /\ job \in [Handler -> JobSet]
      BY DEF IInv, TypeOK, JobSet
    <2>2. PICK h \in Handler : Start(h) \/ Continue(h)
      BY DEF Next
    <2>3. PICK k \in JobSet : k = job[h]
      BY <2>1
    <2>4. InHand(k)
      BY <2>3 DEF IInv, JobsInHand
    <2>5. ASSUME NEW creator \in User, NEW users \in SUBSET User,
                 CreateE2EEGroup(h, creator, users)
          PROVE  participants'[c] = participants[c]
      BY <2>1, <2>5 DEF CreateE2EEGroup
    <2>6. CASE AddGroupMemberAtomic(h)
      <3>1. k.at = "insertMember" /\ k.by \in User
        BY <2>3, <2>6, JobAt DEF AddGroupMemberAtomic, Adding
      <3>2. k.group # c
        BY <2>4, <3>1 DEF InHand
      <3>3. participants' = [participants EXCEPT ![k.group] = @ \cup {k.user}]
        BY <2>3, <2>6 DEF AddGroupMemberAtomic
      <3> QED BY <2>1, <3>2, <3>3
    <2>7. CASE AddParticipants(h)
      <3>1. k.at = "insertParticipants"
        BY <2>3, <2>7 DEF AddParticipants
      <3>2. k.group # c
        BY <2>4, <3>1 DEF InHand
      <3>3. participants' = [participants EXCEPT ![k.group] = k.users]
        BY <2>3, <2>7 DEF AddParticipants
      <3> QED BY <2>1, <3>2, <3>3
    <2>8. CASE Announce(h) \/ ListParticipants(h) \/ ListKey(h) \/ AnswerListing(h)
                    \/ StatementFails(h)
      BY <2>8 DEF Announce, ListParticipants, ListKey, AnswerListing, StatementFails, tables
    <2>9. CASE Start(h)
      BY <2>5, <2>9 DEF Start, CreateGroupConversation, AddGroupMember,
          GetDetailedConversations, tables
    <2> QED BY <2>2, <2>6, <2>7, <2>8, <2>9 DEF Continue
  <1> QED BY <1>1, Invariance, PTL DEF Spec, LeaderlessGroupIsFrozen

-----------------------------------------------------------------------------
\* The refinement, one case for each of the two statements that store a copy.
LEMMA CustodyInit == Init => Custody!Init
  BY DEF Init, Custody!Init

\* A created group had no holder, because it did not exist.
LEMMA CreateE2EEGroupFounds ==
    ASSUME IInv, NEW h \in Handler, NEW creator \in User, NEW users \in SUBSET User,
           CreateE2EEGroup(h, creator, users)
    PROVE  Custody!Next
  <1>1. PICK c \in ConvId :
          /\ kind[c] = "none"
          /\ key' = [key EXCEPT ![c] = [u \in User |-> IF u \in users THEN creator ELSE NoKey]]
    BY DEF CreateE2EEGroup
  <1>2. Custody!Holders(c) = {}
    BY <1>1 DEF IInv, OnlyGroupsHaveMembers, Custody!Holders
  <1>3. creator \in users
    BY DEF CreateE2EEGroup
  <1>4. Custody!Found(c, creator, users)
    BY <1>1, <1>2, <1>3 DEF Custody!Found
  <1> QED BY <1>4 DEF Custody!Next

\* The inviter is still a manager, so a member with a copy; the new member has
\* no row, so no copy.
LEMMA AddGroupMemberAtomicShares ==
    ASSUME IInv, NEW h \in Handler, AddGroupMemberAtomic(h)
    PROVE  Custody!Next
  <1>1. job \in [Handler -> JobSet]
    BY DEF IInv, TypeOK, JobSet
  <1>2. PICK k \in JobSet : k = job[h]
    BY <1>1
  <1>3. k.at = "insertMember" /\ k.by \in User /\ k.group \in ConvId /\ k.user \in User
    BY <1>2, JobAt DEF AddGroupMemberAtomic, Adding
  <1>4. kind[k.group] = "e2ee" /\ role[k.group][k.by] = "manager"
    BY <1>2, <1>3 DEF IInv, JobsInHand, InHand
  <1>5. role[k.group][k.user] = "none" /\ key' = [key EXCEPT ![k.group][k.user] = k.by]
    BY <1>2 DEF AddGroupMemberAtomic
  <1>6. \A u \in User : key[k.group][u] # NoKey <=> role[k.group][u] # "none"
    BY <1>3, <1>4 DEF IInv, MembersAreParticipants, Members
  <1>7. Custody!Share(k.group, k.by, k.user)
    BY <1>3, <1>4, <1>5, <1>6 DEF Custody!Share, Custody!Holders
  <1> QED BY <1>3, <1>7 DEF Custody!Next

\* Groups implements KeyCustody: copies of a group key are made by holders,
\* once, and never replaced.
THEOREM KeysStayInCustody == Spec => KeyCustodyIsKept
  <1>1. IInv /\ [Next]_vars => [Custody!Next]_key
    <2> SUFFICES ASSUME IInv, Next
                 PROVE  Custody!Next \/ UNCHANGED key
      BY DEF vars, tables
    <2>1. PICK h \in Handler : Start(h) \/ Continue(h)
      BY DEF Next
    <2>2. CASE Start(h)
      BY <2>2, CreateE2EEGroupFounds DEF Start, CreateGroupConversation, AddGroupMember,
          GetDetailedConversations, tables
    <2>3. CASE Continue(h)
      BY <2>3, AddGroupMemberAtomicShares DEF Continue, Announce, AddParticipants,
          ListParticipants, ListKey, AnswerListing, StatementFails, tables
    <2> QED BY <2>1, <2>2, <2>3
  <1> QED BY <1>1, CustodyInit, Invariance, PTL DEF Spec, KeyCustodyIsKept, Custody!Spec
=============================================================================
