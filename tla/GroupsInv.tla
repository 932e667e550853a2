------------------------------ MODULE GroupsInv ------------------------------
(***************************************************************************)
(* The inductive invariant of Groups: what the requests in flight rely on  *)
(* and the other requests leave alone.                                     *)
(***************************************************************************)
EXTENDS Groups

\* Only encrypted groups have group_members rows; a conversation that does
\* not exist has nobody.
OnlyGroupsHaveMembers ==
    \A c \in ConvId :
        /\ kind[c] # "e2ee" => \A u \in User : role[c][u] = "none" /\ key[c][u] = NoKey
        /\ kind[c] = "none" => participants[c] = {}

\* What each request in flight has established stays true until it is done:
\* the inviter stays a manager, the empty conversation stays empty, whoever
\* was listed as a participant remains one.
InHand(j) ==
    /\ j.at = "insertMember" =>
        kind[j.group] = "e2ee" /\ role[j.group][j.by] = "manager"
    /\ j.at = "announce" =>
        \A u \in j.left : u \in participants[j.group] /\ key[j.group][u] = j.key
    /\ j.at = "insertParticipants" =>
        /\ kind[j.group] = "plain"
        /\ participants[j.group] = {}
        /\ j.users = founders[j.group]
    /\ j.at \in {"list", "listKey"} =>
        /\ \A c \in j.todo : j.user \in participants[c]
        /\ \A e \in j.done : j.user \in participants[e.conv]
    /\ j.at = "listKey" => j.user \in j.members /\ j.user \in participants[j.conv]

JobsInHand == \A h \in Handler : InHand(job[h])

\* A plain conversation is filled by the request that created it.
OneRequestFills ==
    \A g, h \in Handler :
        (/\ job[g].at = "insertParticipants"
         /\ job[h].at = "insertParticipants"
         /\ job[g].group = job[h].group) => g = h

\* The properties speak of what was read or announced earlier; they are
\* inductive only together with what the requests in flight hold.
IInv ==
    /\ TypeOK
    /\ OnlyGroupsHaveMembers
    /\ JobsInHand
    /\ OneRequestFills
    /\ MembersAreParticipants
    /\ KeysComeFromHolders
    /\ NoticeCarriesStoredKey
    /\ ListedGroupHasKey
    /\ FoundersAllOrNone
=============================================================================
