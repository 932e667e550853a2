----------------------------- MODULE AccountsInv -----------------------------
(***************************************************************************)
(* The inductive invariant of Accounts: what the logins in flight took from *)
(* the tables stays true while the others write them.                      *)
(***************************************************************************)
EXTENDS Accounts

LoginStages == {"findDevice", "touchDevice", "insertDevice", "insertAudit", "answer"}

\* Who holds a token, or is being given one, has an account.
TokensHaveAccounts ==
    /\ \A u \in loggedIn : account[u] # NoAccount
    /\ \A h \in Handler : job[h].at \in LoginStages => account[job[h].user] # NoAccount

\* The row keeps the password and the private half of its registration, and
\* every login, at whatever stage, the halves it read from the row.
RegistrationKept ==
    \A r \in registered :
        /\ account[r.user] # NoAccount
        /\ account[r.user].password = r.password
        /\ account[r.user].private = r.keys
        /\ account[r.user].public \in PublicHalves(r)
        /\ \A h \in Handler : (job[h].at \in LoginStages /\ job[h].user = r.user) =>
            /\ job[h].private = r.keys
            /\ job[h].public \in PublicHalves(r)

Inserting(h, d) == job[h].at = "insertDevice" /\ OwnDeviceOf(job[h]) = d
Auditing(h, d)  == job[h].at = "insertAudit" /\ OwnDeviceOf(job[h]) = d

\* The one login that inserted a device owes it its audit row, which is
\* written, or still owed, or lost with that login.
AuditOwed ==
    \A d \in OwnDevice :
        /\ \A g, h \in Handler : Auditing(g, d) /\ Auditing(h, d) => g = h
        /\ d \in cutShort => d \in devices
        /\ \A h \in Handler : Auditing(h, d) => d \in devices \ cutShort
        /\ audits[d] = IF d \in devices \ cutShort /\ \A h \in Handler : ~Auditing(h, d)
                       THEN 1 ELSE 0

\* Two logins about to insert a device know of each other.
RacesRecorded ==
    \A d \in OwnDevice : \A g, h \in Handler :
        Inserting(g, d) /\ Inserting(h, d) /\ g # h => d \in raced

IInv ==
    /\ TypeOK
    /\ TokensHaveAccounts
    /\ RegistrationKept
    /\ AuditOwed
    /\ RacesRecorded
    /\ ConflictOnlyWhenRaced
=============================================================================
