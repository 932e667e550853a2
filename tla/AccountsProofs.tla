---------------------------- MODULE AccountsProofs ----------------------------
(***************************************************************************)
(* Theorems about Accounts for any users, devices, keys and requests, and, *)
(* in the second half, about the start-up that makes the tables they fill  *)
(* (InfraInit), for any number of attempts at a connection.                *)
(***************************************************************************)
EXTENDS AccountsInv, InfraInitInv, FiniteSetTheorems, SequenceTheorems, TLAPS

JobSet == {Idle} \cup Registering \cup LoggingIn

(***************************************************************************)
(* Requests in flight                                                      *)
(***************************************************************************)

\* What a request carries at each stage.
LEMMA JobAt ==
    ASSUME NEW j \in JobSet
    PROVE  /\ Idle.at = "idle"
           /\ j.at = "insertUser" =>
                j.user \in User /\ j.password \in Password /\ j.keys \in KeyPair
           /\ j.at \in LoginStages =>
                /\ j \in LoggingIn
                /\ j.user \in User /\ OwnDeviceOf(j) \in OwnDevice
                /\ j.public \in KeyPair /\ j.private \in KeyPair
           /\ j # Idle => j.at # "idle"
  BY DEF JobSet, Idle, Registering, LoggingIn, LoginStages, OwnDeviceOf, OwnDevice

\* A login at its next stage is the same login.
LEMMA LoginMovesOn ==
    ASSUME NEW j \in LoggingIn, NEW at \in LoginStages
    PROVE  LET k == [j EXCEPT !.at = at] IN
           /\ k \in LoggingIn /\ k \in JobSet /\ k.at = at
           /\ k.user = j.user /\ k.public = j.public /\ k.private = j.private
           /\ OwnDeviceOf(k) = OwnDeviceOf(j)
  BY DEF JobSet, LoggingIn, LoginStages, OwnDeviceOf

\* One request changes its stage, the others keep theirs.
LEMMA OneJobChanges ==
    ASSUME TypeOK, NEW h \in Handler, NEW j \in JobSet, job' = [job EXCEPT ![h] = j]
    PROVE  /\ job' \in [Handler -> JobSet]
           /\ job'[h] = j
           /\ \A g \in Handler : g # h => job'[g] = job[g]
  BY DEF TypeOK, JobSet

(***************************************************************************)
(* The parts of the invariant that speak of devices                        *)
(***************************************************************************)

\* A request that neither inserts a device nor leaves its audit row behind
\* changes nothing about devices.
LEMMA DevicesUntouched ==
    ASSUME IInv, NEW h \in Handler, NEW j \in JobSet, job' = [job EXCEPT ![h] = j],
           job[h].at # "insertAudit",
           j.at \notin {"insertDevice", "insertAudit"},
           UNCHANGED <<devices, audits, raced, cutShort>>
    PROVE  AuditOwed' /\ RacesRecorded' /\ ConflictOnlyWhenRaced'
  <1>1. /\ job'[h] = j
        /\ \A g \in Handler : g # h => job'[g] = job[g]
    BY OneJobChanges DEF IInv
  <1>2. \A g \in Handler, d \in OwnDevice : Auditing(g, d)' <=> Auditing(g, d)
    BY <1>1 DEF Auditing
  <1>3. AuditOwed'
    BY <1>2 DEF IInv, AuditOwed
  <1>4. \A g \in Handler, d \in OwnDevice : Inserting(g, d)' => Inserting(g, d)
    BY <1>1 DEF Inserting
  <1>5. RacesRecorded'
    BY <1>4 DEF IInv, RacesRecorded
  <1>6. ConflictOnlyWhenRaced'
    BY <1>1 DEF IInv, ConflictOnlyWhenRaced
  <1> QED BY <1>3, <1>5, <1>6

\* A login that goes on takes nothing of its registration with it.
LEMMA LoginGoesOn ==
    ASSUME IInv, NEW h \in Handler, NEW j \in JobSet, job' = [job EXCEPT ![h] = j],
           \/ j.at \notin LoginStages
           \/ /\ job[h].at \in LoginStages
              /\ j.user = job[h].user /\ j.public = job[h].public
              /\ j.private = job[h].private,
           UNCHANGED <<account, registered, replaced>>
    PROVE  /\ RegistrationKept'
           /\ loggedIn' \subseteq {u \in User : account[u] # NoAccount} => TokensHaveAccounts'
  <1>1. /\ job'[h] = j
        /\ \A g \in Handler : g # h => job'[g] = job[g]
    BY OneJobChanges DEF IInv
  <1>2. RegistrationKept'
    <2>1. \A r \in registered : PublicHalves(r)' = PublicHalves(r)
      BY DEF PublicHalves
    <2> QED BY <1>1, <2>1 DEF IInv, RegistrationKept
  <1>3. loggedIn' \subseteq {u \in User : account[u] # NoAccount} => TokensHaveAccounts'
    BY <1>1 DEF IInv, TokensHaveAccounts
  <1> QED BY <1>2, <1>3

(***************************************************************************)
(* The inductive invariant: one lemma per action                           *)
(***************************************************************************)

\* A registration begins with a pair of its own.
LEMMA RegisterStep ==
    ASSUME IInv, NEW h \in Handler, NEW u \in User, NEW p \in Password, Register(h, u, p)
    PROVE  IInv'
  <1>1. PICK k \in KeyPair :
            job' = [job EXCEPT ![h] = [at |-> "insertUser", user |-> u, password |-> p, keys |-> k]]
    BY DEF Register
  <1> DEFINE j == [at |-> "insertUser", user |-> u, password |-> p, keys |-> k]
  <1>2. j \in JobSet /\ j.at = "insertUser"
    BY DEF JobSet, Registering
  <1>3. /\ job' = [job EXCEPT ![h] = j]
        /\ UNCHANGED <<account, devices, audits, loggedIn, registered, replaced, raced, cutShort>>
        /\ job[h].at # "insertAudit"
    <2>1. job' = [job EXCEPT ![h] = j]
      BY <1>1
    <2>2. UNCHANGED <<account, devices, audits, loggedIn, registered, replaced, raced, cutShort>>
      BY DEF Register, tables, history
    <2>3. job[h].at # "insertAudit"
      BY DEF Register, Idle
    <2> QED BY <2>1, <2>2, <2>3
  <1> HIDE DEF j
  <1>4. TypeOK'
    <2>1. job' \in [Handler -> JobSet]
      BY <1>2, <1>3, OneJobChanges DEF IInv
    <2> QED BY <1>3, <2>1 DEF IInv, TypeOK, JobSet
  <1>5. AuditOwed' /\ RacesRecorded' /\ ConflictOnlyWhenRaced'
    BY <1>2, <1>3, DevicesUntouched
  <1>6. RegistrationKept' /\ TokensHaveAccounts'
    BY <1>2, <1>3, LoginGoesOn DEF IInv, LoginStages, TokensHaveAccounts, TypeOK
  <1> QED BY <1>4, <1>5, <1>6 DEF IInv

\* A registration takes a free name; the row starts with the pair it told.
LEMMA CreateUserStep ==
    ASSUME IInv, NEW h \in Handler, CreateUser(h)
    PROVE  IInv'
  <1>1. PICK j \in JobSet : j = job[h]
    BY DEF IInv, TypeOK, JobSet
  <1>2. /\ j.at = "insertUser"
        /\ j.user \in User /\ j.password \in Password /\ j.keys \in KeyPair
    BY <1>1, JobAt DEF CreateUser
  <1> DEFINE row == [password |-> j.password, public |-> j.keys, private |-> j.keys]
             told == [user |-> j.user, password |-> j.password, keys |-> j.keys]
  <1>3. /\ account[j.user] = NoAccount
        /\ account' = [account EXCEPT ![j.user] = row]
        /\ registered' = registered \cup {told}
        /\ job' = [job EXCEPT ![h] = Idle]
        /\ UNCHANGED <<devices, audits, loggedIn, replaced, raced, cutShort>>
    BY <1>1 DEF CreateUser, Return
  <1>4. /\ row \in Account /\ row # NoAccount /\ told \in Registration
        /\ row.password = j.password /\ row.public = j.keys /\ row.private = j.keys
        /\ told.user = j.user /\ told.password = j.password /\ told.keys = j.keys
    BY <1>2, NoAccountAssumption DEF Account, Registration
  <1> HIDE DEF row, told
  <1>5. /\ account \in [User -> {NoAccount} \cup Account]
        /\ registered \subseteq Registration
        /\ \A r \in Registration : r.user \in User
    BY DEF IInv, TypeOK, Registration
  <1>6. /\ account' \in [User -> {NoAccount} \cup Account]
        /\ account'[j.user] = row
        /\ \A u \in User : u # j.user => account'[u] = account[u]
    BY <1>2, <1>3, <1>4, <1>5
  <1>7. /\ Idle \in JobSet /\ Idle.at \notin LoginStages /\ Idle.at = "idle"
        /\ job[h].at # "insertAudit"
    BY <1>1, <1>2 DEF JobSet, Idle, LoginStages
  <1>8. /\ job' \in [Handler -> JobSet]
        /\ job'[h] = Idle
        /\ \A g \in Handler : g # h => job'[g] = job[g]
    BY <1>3, <1>7, OneJobChanges DEF IInv
  <1>9. \A g \in Handler : job'[g].at \in LoginStages =>
            /\ job'[g] = job[g] /\ job[g].user \in User
            /\ account[job[g].user] # NoAccount
            /\ job[g].user # j.user
    <2> SUFFICES ASSUME NEW g \in Handler, job'[g].at \in LoginStages
                 PROVE  /\ job'[g] = job[g] /\ job[g].user \in User
                        /\ account[job[g].user] # NoAccount
      BY <1>3
    <2>1. job'[g] = job[g]
      BY <1>7, <1>8
    <2>2. PICK k \in JobSet : k = job[g]
      BY DEF IInv, TypeOK, JobSet
    <2> QED BY <2>1, <2>2, JobAt DEF IInv, TokensHaveAccounts
  <1>10. TypeOK'
    BY <1>3, <1>4, <1>6, <1>8 DEF IInv, TypeOK, JobSet
  <1>11. TokensHaveAccounts'
    BY <1>3, <1>4, <1>6, <1>9 DEF IInv, TypeOK, TokensHaveAccounts
  <1>12. RegistrationKept'
    <2> SUFFICES ASSUME NEW r \in registered'
                 PROVE  /\ account'[r.user] # NoAccount
                        /\ account'[r.user].password = r.password
                        /\ account'[r.user].private = r.keys
                        /\ account'[r.user].public \in PublicHalves(r)
                        /\ \A g \in Handler :
                            (job'[g].at \in LoginStages /\ job'[g].user = r.user) =>
                                /\ job'[g].private = r.keys
                                /\ job'[g].public \in PublicHalves(r)
      <3>1. \A r \in registered' : PublicHalves(r)' = PublicHalves(r)
        BY <1>3 DEF PublicHalves
      <3> QED BY <1>3, <3>1 DEF RegistrationKept
    <2>1. CASE r \in registered
      <3>1. r.user \in User /\ account[r.user] # NoAccount
        BY <1>5, <2>1 DEF IInv, RegistrationKept
      <3>2. account'[r.user] = account[r.user]
        BY <1>3, <1>6, <3>1
      <3> QED BY <1>9, <2>1, <3>2 DEF IInv, RegistrationKept
    <2>2. CASE r = told
      BY <1>4, <1>6, <1>9, <2>2 DEF PublicHalves
    <2> QED BY <1>3, <2>1, <2>2
  <1>13. AuditOwed' /\ RacesRecorded' /\ ConflictOnlyWhenRaced'
    BY <1>3, <1>7, DevicesUntouched
  <1> QED BY <1>10, <1>11, <1>12, <1>13 DEF IInv

\* A login takes both halves of its answer from the row it read.
LEMMA LoginStep ==
    ASSUME IInv, NEW h \in Handler, NEW u \in User, NEW p \in Password, NEW d \in Device,
           Login(h, u, p, d)
    PROVE  IInv'
  <1> DEFINE j == [at |-> "findDevice", user |-> u, device |-> d,
                   public |-> account[u].public, private |-> account[u].private]
  <1>1. /\ account[u] # NoAccount /\ account[u] \in Account
        /\ job' = [job EXCEPT ![h] = j]
        /\ UNCHANGED <<account, devices, audits, loggedIn, registered, replaced, raced, cutShort>>
        /\ job[h].at # "insertAudit"
    BY DEF Login, tables, history, Idle, IInv, TypeOK
  <1>2. /\ j \in JobSet /\ j.at = "findDevice" /\ j.user = u
        /\ j.public = account[u].public /\ j.private = account[u].private
    BY <1>1 DEF JobSet, LoggingIn, Account
  <1> HIDE DEF j
  <1>3. /\ job' \in [Handler -> JobSet]
        /\ job'[h] = j
        /\ \A g \in Handler : g # h => job'[g] = job[g]
    BY <1>1, <1>2, OneJobChanges DEF IInv
  <1>4. TypeOK'
    BY <1>1, <1>3 DEF IInv, TypeOK, JobSet
  <1>5. TokensHaveAccounts'
    BY <1>1, <1>2, <1>3 DEF IInv, TokensHaveAccounts
  <1>6. RegistrationKept'
    BY <1>1, <1>2, <1>3 DEF IInv, RegistrationKept, PublicHalves
  <1>7. AuditOwed' /\ RacesRecorded' /\ ConflictOnlyWhenRaced'
    BY <1>1, <1>2, DevicesUntouched
  <1> QED BY <1>4, <1>5, <1>6, <1>7 DEF IInv

\* The login looks its device up: if it is absent, it will insert it, and
\* knows of the others that saw it absent too.
LEMMA HasActiveUserDeviceStep ==
    ASSUME IInv, NEW h \in Handler, HasActiveUserDevice(h)
    PROVE  IInv'
  <1>1. PICK j \in LoggingIn : j = job[h] /\ j.at = "findDevice"
    BY JobAt DEF IInv, TypeOK, JobSet, HasActiveUserDevice, LoginStages
  <1> DEFINE d  == OwnDeviceOf(j)
             at == IF d \in devices THEN "touchDevice" ELSE "insertDevice"
             k  == [j EXCEPT !.at = at]
  <1>2. /\ k \in JobSet /\ k.at = at /\ d \in OwnDevice /\ OwnDeviceOf(k) = d
        /\ k.user = j.user /\ k.public = j.public /\ k.private = j.private
    <2>1. at \in LoginStages /\ j \in JobSet /\ j.at \in LoginStages
      BY <1>1 DEF LoginStages, JobSet
    <2> QED BY <2>1, JobAt, LoginMovesOn
  <1>3. /\ job' = [job EXCEPT ![h] = k]
        /\ raced' = IF d \notin devices /\ AlsoInserting(h) # {} THEN raced \cup {d} ELSE raced
        /\ UNCHANGED <<account, devices, audits, loggedIn, registered, replaced, cutShort>>
    BY <1>1 DEF HasActiveUserDevice, Goto, tables, IInv, TypeOK
  <1>4. /\ at \in {"touchDevice", "insertDevice"}
        /\ at = "insertDevice" => d \notin devices
    OBVIOUS
  <1> HIDE DEF k, at
  <1>5. /\ job' \in [Handler -> JobSet]
        /\ job'[h] = k
        /\ \A g \in Handler : g # h => job'[g] = job[g]
    BY <1>2, <1>3, OneJobChanges DEF IInv
  <1>6. TypeOK'
    BY <1>2, <1>3, <1>5 DEF IInv, TypeOK, JobSet
  <1>7. RegistrationKept' /\ TokensHaveAccounts'
    BY <1>1, <1>2, <1>3, LoginGoesOn DEF IInv, TypeOK, TokensHaveAccounts, LoginStages
  <1>8. \A g \in Handler, e \in OwnDevice : Auditing(g, e)' <=> Auditing(g, e)
    BY <1>1, <1>2, <1>4, <1>5 DEF Auditing
  <1>9. AuditOwed'
    BY <1>3, <1>8 DEF IInv, AuditOwed
  <1>10. \A g \in Handler \ {h}, e \in OwnDevice : Inserting(g, e)' <=> Inserting(g, e)
    BY <1>5 DEF Inserting
  <1>11. \A e \in OwnDevice : Inserting(h, e)' =>
            e = d /\ e \notin devices /\ at = "insertDevice"
    BY <1>2, <1>4, <1>5 DEF Inserting
  <1>12. RacesRecorded'
    <2> SUFFICES ASSUME NEW e \in OwnDevice, NEW f \in Handler, NEW g \in Handler,
                        Inserting(f, e)', Inserting(g, e)', f # g
                 PROVE  e \in raced'
      BY DEF RacesRecorded
    <2>1. CASE f # h /\ g # h
      BY <1>3, <1>10, <2>1 DEF IInv, RacesRecorded
    <2>2. ASSUME NEW i \in Handler \ {h}, Inserting(i, e), Inserting(h, e)'
          PROVE  e \in raced'
      <3>1. i \in AlsoInserting(h) /\ e = d /\ d \notin devices
        BY <1>1, <1>11, <2>2 DEF AlsoInserting, Inserting
      <3> QED BY <1>3, <3>1
    <2> QED BY <1>10, <2>1, <2>2
  <1>13. ConflictOnlyWhenRaced'
    BY <1>2, <1>3, <1>4, <1>5 DEF IInv, ConflictOnlyWhenRaced
  <1> QED BY <1>6, <1>7, <1>9, <1>12, <1>13 DEF IInv

\* One login inserts the device; it alone owes the audit row, and whoever is
\* about to insert it as well was seen before.
LEMMA InsertUserDeviceStep ==
    ASSUME IInv, NEW h \in Handler, InsertUserDevice(h)
    PROVE  IInv'
  <1>1. PICK j \in LoggingIn : j = job[h] /\ j.at = "insertDevice"
    BY JobAt DEF IInv, TypeOK, JobSet, InsertUserDevice, LoginStages
  <1> DEFINE d == OwnDeviceOf(j)
             k == [j EXCEPT !.at = "insertAudit"]
  <1>2. /\ k \in JobSet /\ k.at = "insertAudit" /\ d \in OwnDevice /\ OwnDeviceOf(k) = d
        /\ k.user = j.user /\ k.public = j.public /\ k.private = j.private
    BY <1>1, JobAt, LoginMovesOn DEF LoginStages, JobSet
  <1>3. /\ job' = [job EXCEPT ![h] = k]
        /\ d \notin devices /\ devices' = devices \cup {d}
        /\ UNCHANGED <<account, audits, loggedIn, registered, replaced, raced, cutShort>>
    BY <1>1 DEF InsertUserDevice, Goto, history, IInv, TypeOK
  <1> HIDE DEF k
  <1>5. /\ job' \in [Handler -> JobSet]
        /\ job'[h] = k
        /\ \A g \in Handler : g # h => job'[g] = job[g]
    BY <1>2, <1>3, OneJobChanges DEF IInv
  <1>6. TypeOK'
    BY <1>2, <1>3, <1>5 DEF IInv, TypeOK, JobSet
  <1>7. RegistrationKept' /\ TokensHaveAccounts'
    BY <1>1, <1>2, <1>3, LoginGoesOn DEF IInv, TypeOK, TokensHaveAccounts, LoginStages
  <1>8. /\ \A g \in Handler, e \in OwnDevice : e # d => (Auditing(g, e)' <=> Auditing(g, e))
        /\ \A g \in Handler : Auditing(g, d)' <=> g = h
        /\ \A g \in Handler : ~Auditing(g, d)
        /\ d \notin cutShort /\ audits[d] = 0
    <2>1. \A g \in Handler : ~Auditing(g, d)
      BY <1>2, <1>3 DEF IInv, AuditOwed
    <2>2. d \notin cutShort /\ audits[d] = 0
      BY <1>2, <1>3 DEF IInv, AuditOwed
    <2> QED BY <1>1, <1>2, <1>5, <2>1, <2>2 DEF Auditing
  <1>9. AuditOwed'
    <2> SUFFICES ASSUME NEW e \in OwnDevice
                 PROVE  /\ \A f, g \in Handler : Auditing(f, e)' /\ Auditing(g, e)' => f = g
                        /\ e \in cutShort => e \in devices'
                        /\ \A g \in Handler : Auditing(g, e)' => e \in devices' \ cutShort
                        /\ audits[e] = IF /\ e \in devices' \ cutShort
                                          /\ \A g \in Handler : ~Auditing(g, e)'
                                       THEN 1 ELSE 0
      BY <1>3 DEF AuditOwed
    <2>1. CASE e = d
      BY <1>3, <1>8, <2>1
    <2>2. CASE e # d
      <3>1. e \in devices' <=> e \in devices
        BY <1>3, <2>2
      <3> QED BY <1>8, <2>2, <3>1 DEF IInv, AuditOwed
    <2> QED BY <2>1, <2>2
  <1>10. \A g \in Handler, e \in OwnDevice :
            Inserting(g, e)' => g # h /\ Inserting(g, e)
    BY <1>2, <1>5 DEF Inserting
  <1>11. RacesRecorded'
    BY <1>3, <1>10 DEF IInv, RacesRecorded
  <1>12. ConflictOnlyWhenRaced'
    <2> SUFFICES ASSUME NEW g \in Handler, job'[g].at = "insertDevice",
                        OwnDeviceOf(job'[g]) \in devices'
                 PROVE  OwnDeviceOf(job'[g]) \in raced
      BY <1>3 DEF ConflictOnlyWhenRaced
    <2>1. g # h /\ job'[g] = job[g]
      BY <1>2, <1>5
    <2>2. CASE OwnDeviceOf(job[g]) \in devices
      BY <2>1, <2>2 DEF IInv, ConflictOnlyWhenRaced
    <2>3. CASE OwnDeviceOf(job[g]) = d
      <3>1. Inserting(g, d) /\ Inserting(h, d)
        BY <1>1, <2>1, <2>3 DEF Inserting
      <3> QED BY <1>2, <2>1, <2>3, <3>1 DEF IInv, RacesRecorded
    <2> QED BY <1>3, <2>1, <2>2, <2>3
  <1> QED BY <1>6, <1>7, <1>9, <1>11, <1>12 DEF IInv

\* The audit row is written once, by the login that owes it.
LEMMA InsertUserDeviceChangedStep ==
    ASSUME IInv, NEW h \in Handler, InsertUserDeviceChanged(h)
    PROVE  IInv'
  <1>1. PICK j \in LoggingIn : j = job[h] /\ j.at = "insertAudit"
    BY JobAt DEF IInv, TypeOK, JobSet, InsertUserDeviceChanged, LoginStages
  <1> DEFINE d == OwnDeviceOf(j)
             k == [j EXCEPT !.at = "answer"]
  <1>2. /\ k \in JobSet /\ k.at = "answer" /\ d \in OwnDevice
        /\ k.user = j.user /\ k.public = j.public /\ k.private = j.private
    BY <1>1, JobAt, LoginMovesOn DEF LoginStages, JobSet
  <1>3. /\ job' = [job EXCEPT ![h] = k]
        /\ audits' = [audits EXCEPT ![d] = @ + 1]
        /\ UNCHANGED <<account, devices, loggedIn, registered, replaced, raced, cutShort>>
    BY <1>1 DEF InsertUserDeviceChanged, Goto, history, IInv, TypeOK
  <1> HIDE DEF k
  <1>4. /\ job' \in [Handler -> JobSet]
        /\ job'[h] = k
        /\ \A g \in Handler : g # h => job'[g] = job[g]
    BY <1>2, <1>3, OneJobChanges DEF IInv
  <1>5. /\ audits \in [OwnDevice -> Nat] /\ audits' \in [OwnDevice -> Nat]
        /\ audits'[d] = audits[d] + 1
        /\ \A e \in OwnDevice : e # d => audits'[e] = audits[e]
    BY <1>2, <1>3 DEF IInv, TypeOK
  <1>6. TypeOK'
    BY <1>3, <1>4, <1>5 DEF IInv, TypeOK, JobSet
  <1>7. RegistrationKept' /\ TokensHaveAccounts'
    BY <1>1, <1>2, <1>3, LoginGoesOn DEF IInv, TypeOK, TokensHaveAccounts, LoginStages
  <1>8. Auditing(h, d)
    BY <1>1 DEF Auditing
  <1>9. /\ \A g \in Handler, e \in OwnDevice : e # d => (Auditing(g, e)' <=> Auditing(g, e))
        /\ \A g \in Handler : ~Auditing(g, d)'
        /\ d \in devices \ cutShort /\ audits[d] = 0
    <2>1. d \in devices \ cutShort /\ audits[d] = 0
      BY <1>2, <1>8 DEF IInv, AuditOwed
    <2>2. \A g \in Handler : Auditing(g, d) => g = h
      BY <1>2, <1>8 DEF IInv, AuditOwed
    <2> QED BY <1>1, <1>2, <1>4, <2>1, <2>2 DEF Auditing
  <1>10. AuditOwed'
    <2> SUFFICES ASSUME NEW e \in OwnDevice
                 PROVE  /\ \A f, g \in Handler : Auditing(f, e)' /\ Auditing(g, e)' => f = g
                        /\ e \in cutShort => e \in devices
                        /\ \A g \in Handler : Auditing(g, e)' => e \in devices \ cutShort
                        /\ audits'[e] = IF /\ e \in devices \ cutShort
                                           /\ \A g \in Handler : ~Auditing(g, e)'
                                        THEN 1 ELSE 0
      BY <1>3 DEF AuditOwed
    <2>1. CASE e = d
      BY <1>5, <1>9, <2>1
    <2>2. CASE e # d
      BY <1>5, <1>9, <2>2 DEF IInv, AuditOwed
    <2> QED BY <2>1, <2>2
  <1>11. \A g \in Handler, e \in OwnDevice : Inserting(g, e)' => Inserting(g, e)
    BY <1>2, <1>4 DEF Inserting
  <1>12. RacesRecorded'
    BY <1>3, <1>11 DEF IInv, RacesRecorded
  <1>13. ConflictOnlyWhenRaced'
    BY <1>2, <1>3, <1>4 DEF IInv, ConflictOnlyWhenRaced
  <1> QED BY <1>6, <1>7, <1>10, <1>12, <1>13 DEF IInv

\* A failed login may leave its device without the audit row; nothing else of
\* it stays.
LEMMA StatementFailsStep ==
    ASSUME IInv, NEW h \in Handler, StatementFails(h)
    PROVE  IInv'
  <1>1. PICK j \in JobSet : j = job[h]
    BY DEF IInv, TypeOK, JobSet
  <1> DEFINE d == OwnDeviceOf(j)
  <1>2. /\ job' = [job EXCEPT ![h] = Idle]
        /\ cutShort' = IF j.at = "insertAudit" THEN cutShort \cup {d} ELSE cutShort
        /\ UNCHANGED <<account, devices, audits, loggedIn, registered, replaced, raced>>
    BY <1>1 DEF StatementFails, Return, tables
  <1>3. /\ Idle \in JobSet /\ Idle.at = "idle" /\ Idle.at \notin LoginStages
        /\ Idle.at \notin {"insertDevice", "insertAudit"}
    BY DEF JobSet, Idle, LoginStages
  <1>4. /\ job' \in [Handler -> JobSet]
        /\ job'[h] = Idle
        /\ \A g \in Handler : g # h => job'[g] = job[g]
    BY <1>2, <1>3, OneJobChanges DEF IInv
  <1>5. j.at = "insertAudit" => d \in OwnDevice
    BY <1>1, JobAt DEF LoginStages
  <1>6. TypeOK'
    BY <1>2, <1>4, <1>5 DEF IInv, TypeOK, JobSet
  <1>7. RegistrationKept' /\ TokensHaveAccounts'
    BY <1>1, <1>2, <1>3, LoginGoesOn DEF IInv, TypeOK, TokensHaveAccounts
  <1>8. AuditOwed' /\ RacesRecorded' /\ ConflictOnlyWhenRaced'
    <2>1. CASE j.at # "insertAudit"
      BY <1>1, <1>2, <1>3, <2>1, DevicesUntouched
    <2>2. CASE j.at = "insertAudit"
      <3>1. Auditing(h, d)
        BY <1>1, <2>2 DEF Auditing
      <3>2. /\ \A g \in Handler, e \in OwnDevice : e # d => (Auditing(g, e)' <=> Auditing(g, e))
            /\ \A g \in Handler : ~Auditing(g, d)'
            /\ d \in devices \ cutShort /\ audits[d] = 0
        <4>1. d \in devices \ cutShort /\ audits[d] = 0
          BY <1>5, <2>2, <3>1 DEF IInv, AuditOwed
        <4>2. \A g \in Handler : Auditing(g, d) => g = h
          BY <1>5, <2>2, <3>1 DEF IInv, AuditOwed
        <4> QED BY <1>1, <1>3, <1>4, <4>1, <4>2 DEF Auditing
      <3>3. AuditOwed'
        <4> SUFFICES ASSUME NEW e \in OwnDevice
                     PROVE  /\ \A f, g \in Handler : Auditing(f, e)' /\ Auditing(g, e)' => f = g
                            /\ e \in cutShort' => e \in devices
                            /\ \A g \in Handler : Auditing(g, e)' => e \in devices \ cutShort'
                            /\ audits[e] = IF /\ e \in devices \ cutShort'
                                              /\ \A g \in Handler : ~Auditing(g, e)'
                                           THEN 1 ELSE 0
          BY <1>2 DEF AuditOwed
        <4>1. CASE e = d
          BY <1>2, <2>2, <3>2, <4>1
        <4>2. CASE e # d
          <5>1. e \in cutShort' <=> e \in cutShort
            BY <1>2, <2>2, <4>2
          <5> QED BY <3>2, <4>2, <5>1 DEF IInv, AuditOwed
        <4> QED BY <4>1, <4>2
      <3>4. \A g \in Handler, e \in OwnDevice : Inserting(g, e)' => Inserting(g, e)
        BY <1>3, <1>4 DEF Inserting
      <3>5. RacesRecorded'
        BY <1>2, <3>4 DEF IInv, RacesRecorded
      <3>6. ConflictOnlyWhenRaced'
        BY <1>2, <1>3, <1>4 DEF IInv, ConflictOnlyWhenRaced
      <3> QED BY <3>3, <3>5, <3>6
    <2> QED BY <2>1, <2>2
  <1> QED BY <1>6, <1>7, <1>8 DEF IInv

\* The steps of a login that touch neither a device nor its audit.
LEMMA UpdateUserDeviceLastLoginStep ==
    ASSUME IInv, NEW h \in Handler, UpdateUserDeviceLastLogin(h)
    PROVE  IInv'
  <1>1. PICK j \in LoggingIn : j = job[h] /\ j.at = "touchDevice"
    BY JobAt DEF IInv, TypeOK, JobSet, UpdateUserDeviceLastLogin, LoginStages
  <1> DEFINE k == [j EXCEPT !.at = "answer"]
  <1>2. /\ k \in JobSet /\ k.at = "answer"
        /\ k.user = j.user /\ k.public = j.public /\ k.private = j.private
    BY <1>1, LoginMovesOn DEF LoginStages
  <1>3. /\ job' = [job EXCEPT ![h] = k]
        /\ UNCHANGED <<account, devices, audits, loggedIn, registered, replaced, raced, cutShort>>
    BY <1>1 DEF UpdateUserDeviceLastLogin, Goto, tables, history, IInv, TypeOK
  <1> HIDE DEF k
  <1>4. job' \in [Handler -> JobSet]
    BY <1>2, <1>3, OneJobChanges DEF IInv
  <1>5. TypeOK'
    BY <1>3, <1>4 DEF IInv, TypeOK, JobSet
  <1>6. RegistrationKept' /\ TokensHaveAccounts'
    BY <1>1, <1>2, <1>3, LoginGoesOn DEF IInv, TypeOK, TokensHaveAccounts, LoginStages
  <1>7. AuditOwed' /\ RacesRecorded' /\ ConflictOnlyWhenRaced'
    BY <1>1, <1>2, <1>3, DevicesUntouched
  <1> QED BY <1>5, <1>6, <1>7 DEF IInv

\* The user who is handed a token has an account.
LEMMA AnswerLoginStep ==
    ASSUME IInv, NEW h \in Handler, AnswerLogin(h)
    PROVE  IInv'
  <1>1. PICK j \in LoggingIn : j = job[h] /\ j.at = "answer"
    BY JobAt DEF IInv, TypeOK, JobSet, AnswerLogin, LoginStages
  <1>2. j.user \in User /\ account[j.user] # NoAccount
    BY <1>1, JobAt DEF IInv, TokensHaveAccounts, LoginStages, JobSet
  <1>3. /\ job' = [job EXCEPT ![h] = Idle]
        /\ loggedIn' = loggedIn \cup {j.user}
        /\ UNCHANGED <<account, devices, audits, registered, replaced, raced, cutShort>>
    BY <1>1 DEF AnswerLogin, Return, tables, history
  <1>4. /\ Idle \in JobSet /\ Idle.at \notin LoginStages
        /\ Idle.at \notin {"insertDevice", "insertAudit"}
    BY DEF JobSet, Idle, LoginStages
  <1>5. job' \in [Handler -> JobSet]
    BY <1>3, <1>4, OneJobChanges DEF IInv
  <1>6. TypeOK'
    BY <1>2, <1>3, <1>5 DEF IInv, TypeOK, JobSet
  <1>7. RegistrationKept' /\ TokensHaveAccounts'
    BY <1>2, <1>3, <1>4, LoginGoesOn DEF IInv, TypeOK, TokensHaveAccounts
  <1>8. AuditOwed' /\ RacesRecorded' /\ ConflictOnlyWhenRaced'
    BY <1>1, <1>3, <1>4, DevicesUntouched
  <1> QED BY <1>6, <1>7, <1>8 DEF IInv

\* Only the public half of an account that exists is replaced.
LEMMA UpdateUserPublicKeyStep ==
    ASSUME IInv, NEW u \in User, NEW k \in KeyPair, UpdateUserPublicKey(u, k)
    PROVE  IInv'
  <1>1. account[u] \in Account /\ account \in [User -> {NoAccount} \cup Account]
    BY DEF IInv, TypeOK, TokensHaveAccounts, UpdateUserPublicKey
  <1> DEFINE row == [account[u] EXCEPT !.public = k]
  <1>2. /\ account' = [account EXCEPT ![u] = row]
        /\ replaced' = replaced \cup {<<u, k>>}
        /\ UNCHANGED <<devices, audits, job, loggedIn, registered, raced, cutShort>>
    BY <1>1 DEF UpdateUserPublicKey
  <1>3. /\ row \in Account /\ row # NoAccount
        /\ row.password = account[u].password /\ row.private = account[u].private
    BY <1>1, NoAccountAssumption DEF Account
  <1> HIDE DEF row
  <1>4. /\ account' \in [User -> {NoAccount} \cup Account]
        /\ account'[u] = row
        /\ \A v \in User : v # u => account'[v] = account[v]
    BY <1>1, <1>2, <1>3
  <1>5. TypeOK'
    BY <1>2, <1>4 DEF IInv, TypeOK
  <1>6. \A v \in User : account[v] # NoAccount =>
            /\ account'[v] # NoAccount
            /\ account'[v].password = account[v].password
            /\ account'[v].private = account[v].private
            /\ \/ account'[v].public = account[v].public
               \/ <<v, account'[v].public>> \in replaced'
    <2>1. account'[u].public = k /\ <<u, k>> \in replaced'
      BY <1>1, <1>2, <1>4 DEF row, Account
    <2> QED BY <1>2, <1>3, <1>4, <2>1
  <1>7. \A h \in Handler : job[h].at \in LoginStages => job[h].user \in User
    BY JobAt DEF IInv, TypeOK, JobSet
  <1>8. TokensHaveAccounts'
    BY <1>2, <1>6, <1>7 DEF IInv, TypeOK, TokensHaveAccounts
  <1>9. RegistrationKept'
    <2>1. \A r \in registered : r.user \in User
      BY DEF IInv, TypeOK, Registration
    <2>2. \A r \in registered : PublicHalves(r) \subseteq PublicHalves(r)'
      BY <1>2 DEF PublicHalves
    <2>3. \A r \in registered : account'[r.user].public \in PublicHalves(r)'
      <3> SUFFICES ASSUME NEW r \in registered
                   PROVE  account'[r.user].public \in PublicHalves(r)'
        OBVIOUS
      <3>1. account[r.user] # NoAccount /\ account[r.user].public \in PublicHalves(r)
        BY DEF IInv, RegistrationKept
      <3>2. account'[r.user] \in Account
        BY <1>4, <1>6, <2>1, <3>1
      <3> QED BY <1>6, <2>1, <2>2, <3>1, <3>2 DEF PublicHalves, Account
    <2> QED BY <1>2, <1>6, <2>1, <2>2, <2>3 DEF IInv, RegistrationKept
  <1>10. AuditOwed' /\ RacesRecorded' /\ ConflictOnlyWhenRaced'
    BY <1>2 DEF IInv, AuditOwed, RacesRecorded, ConflictOnlyWhenRaced, Auditing, Inserting
  <1> QED BY <1>5, <1>8, <1>9, <1>10 DEF IInv

-----------------------------------------------------------------------------
\* The invariant holds before anybody registers.
LEMMA InitInv == Init => IInv
  <1> SUFFICES ASSUME Init
               PROVE  IInv
    OBVIOUS
  <1>1. \A h \in Handler : job[h] = Idle /\ job[h].at = "idle"
    BY DEF Init, Idle
  <1>2. TypeOK
    BY DEF Init, TypeOK
  <1>3. TokensHaveAccounts /\ RegistrationKept
    BY <1>1 DEF Init, TokensHaveAccounts, RegistrationKept, LoginStages
  <1>4. AuditOwed /\ RacesRecorded
    BY <1>1 DEF Init, AuditOwed, RacesRecorded, Auditing, Inserting
  <1>5. ConflictOnlyWhenRaced
    BY DEF Init, ConflictOnlyWhenRaced
  <1> QED BY <1>2, <1>3, <1>4, <1>5 DEF IInv

\* No step, of any request, breaks it.
LEMMA NextInv == IInv /\ [Next]_vars => IInv'
  <1> SUFFICES ASSUME IInv, [Next]_vars
               PROVE  IInv'
    OBVIOUS
  <1>1. ASSUME NEW h \in Handler, Start(h)
        PROVE  IInv'
    BY <1>1, RegisterStep, LoginStep DEF Start
  <1>2. ASSUME NEW h \in Handler, Continue(h)
        PROVE  IInv'
    BY <1>2, CreateUserStep, HasActiveUserDeviceStep, UpdateUserDeviceLastLoginStep,
       InsertUserDeviceStep, InsertUserDeviceChangedStep, AnswerLoginStep,
       StatementFailsStep DEF Continue
  <1>3. ASSUME NEW u \in User, NEW k \in KeyPair, UpdateUserPublicKey(u, k)
        PROVE  IInv'
    BY <1>3, UpdateUserPublicKeyStep
  <1>4. CASE UNCHANGED vars
    BY <1>4 DEF vars, tables, history, IInv, TypeOK, TokensHaveAccounts, RegistrationKept,
        PublicHalves, AuditOwed, RacesRecorded, ConflictOnlyWhenRaced, Auditing, Inserting
  <1> QED BY <1>1, <1>2, <1>3, <1>4 DEF Next

\* The inductive invariant holds for any users, devices, keys and requests.
THEOREM Invariance == Spec => []IInv
  BY InitInv, NextInv, PTL DEF Spec

\* Type correctness of the tables and the requests in flight.
THEOREM TypeCorrect == Spec => []TypeOK
  <1>1. IInv => TypeOK
    BY DEF IInv
  <1> QED BY <1>1, Invariance, PTL

\* Who was told that he is registered owns the account for good, and every
\* login is answered with the pair of that registration.
THEOREM RegistrationsStand == Spec => []RegistrationStands
  <1>1. IInv => RegistrationStands
    BY DEF IInv, RegistrationKept, RegistrationStands, LoginStages
  <1> QED BY <1>1, Invariance, PTL

\* A device is in the audit exactly once, however many first logins race.
THEOREM DevicesAudited == Spec => []DevicesAreAuditedOnce
  <1>1. IInv => DevicesAreAuditedOnce
    <2> SUFFICES ASSUME IInv, NEW d \in OwnDevice
                 PROVE  audits[d] + Cardinality({h \in Handler : Auditing(h, d)})
                            = IF d \in devices \ cutShort THEN 1 ELSE 0
      BY DEF DevicesAreAuditedOnce, Auditing
    <2> DEFINE auditing == {h \in Handler : Auditing(h, d)}
    <2>1. CASE auditing = {}
      <3>1. Cardinality(auditing) = 0
        BY <2>1, FS_EmptySet
      <3>2. audits[d] = IF d \in devices \ cutShort THEN 1 ELSE 0
        BY <2>1 DEF IInv, AuditOwed
      <3> QED BY <3>1, <3>2
    <2>2. CASE auditing # {}
      <3>1. PICK h \in Handler : Auditing(h, d)
        BY <2>2
      <3>2. auditing = {h}
        BY <3>1 DEF IInv, AuditOwed
      <3>3. Cardinality(auditing) = 1
        BY <3>2, FS_Singleton
      <3>4. audits[d] = 0 /\ d \in devices \ cutShort
        BY <3>1 DEF IInv, AuditOwed
      <3> QED BY <3>3, <3>4
    <2> QED BY <2>1, <2>2
  <1> QED BY <1>1, Invariance, PTL

\* A right password is refused for the unique constraint only after a race of
\* two first logins.
THEOREM ConflictsAreRaces == Spec => []ConflictOnlyWhenRaced
  <1>1. IInv => ConflictOnlyWhenRaced
    BY DEF IInv
  <1> QED BY <1>1, Invariance, PTL

(***************************************************************************)
(* Start-up: the schema that infra-init makes (InfraInit)                  *)
(***************************************************************************)

\* The statements of the migration files, in the order of their names.
Users == Create("users", {})
Friends == Create("friendships", {"users"})
Groups == Create("groups", {"users"})
Members == Create("group_members", {"users", "groups"})
Keyspace == [kind |-> "keyspace", makes |-> {"keyspace"}, needs |-> {}]
Messages == Create("messages", {"keyspace"})
GroupId == [kind |-> "alter", makes |-> {"group_id"}, needs |-> {"messages"}]

\* Sequences of known length, joined.
LEMMA Concat ==
    ASSUME NEW S, NEW s \in Seq(S), NEW t \in Seq(S)
    PROVE  /\ s \o t \in Seq(S)
           /\ Len(s \o t) = Len(s) + Len(t)
           /\ \A i \in 1..(Len(s) + Len(t)) :
                 (s \o t)[i] = IF i <= Len(s) THEN s[i] ELSE t[i - Len(s)]
  OBVIOUS

LEMMA SameSeq ==
    ASSUME NEW S, NEW s \in Seq(S), NEW t \in Seq(S), Len(s) = Len(t),
           \A i \in 1..Len(s) : s[i] = t[i]
    PROVE  s = t
  OBVIOUS

LEMMA ConcatPairs ==
    ASSUME NEW a, NEW b, NEW c, NEW d
    PROVE  <<a, b>> \o <<c, d>> = <<a, b, c, d>>
  <1> DEFINE S == {a, b, c, d}
             x == <<a, b>>
             y == <<c, d>>
             z == x \o y
             w == <<a, b, c, d>>
  <1>1. /\ x \in Seq(S) /\ Len(x) = 2 /\ x[1] = a /\ x[2] = b
        /\ y \in Seq(S) /\ Len(y) = 2 /\ y[1] = c /\ y[2] = d
        /\ w \in Seq(S) /\ Len(w) = 4 /\ w[1] = a /\ w[2] = b /\ w[3] = c /\ w[4] = d
    OBVIOUS
  <1> HIDE DEF S, x, y, w
  <1>2. /\ z \in Seq(S) /\ Len(z) = Len(x) + Len(y)
        /\ \A i \in 1..(Len(x) + Len(y)) : z[i] = IF i <= Len(x) THEN x[i] ELSE y[i - Len(x)]
    BY <1>1, Concat
  <1> HIDE DEF z
  <1>3. Len(z) = 4 /\ \A i \in 1..4 : z[i] = IF i <= 2 THEN x[i] ELSE y[i - 2]
    BY <1>1, <1>2
  <1>4. \A i \in 1..4 : z[i] = w[i]
    BY <1>1, <1>3
  <1>5. z = w
    BY <1>1, <1>2, <1>3, <1>4, SameSeq
  <1> QED BY <1>5 DEF x, y, z, w

LEMMA ConcatEmpty ==
    ASSUME NEW s
    PROVE  <<s>> \o <<>> = <<s>> /\ <<>> \o <<s>> = <<s>> /\ <<>> \o <<>> = <<>>
  <1>1. <<s>> \in Seq({s}) /\ <<>> \in Seq({s})
    OBVIOUS
  <1>2. \A t \in Seq({s}) : t \o <<>> = t /\ <<>> \o t = t
    OBVIOUS
  <1> QED BY <1>1, <1>2

LEMMA ConcatOnes ==
    ASSUME NEW a, NEW b
    PROVE  <<a>> \o <<b>> = <<a, b>>
  <1> DEFINE S == {a, b}
             x == <<a>>
             y == <<b>>
             z == x \o y
             w == <<a, b>>
  <1>1. /\ x \in Seq(S) /\ Len(x) = 1 /\ x[1] = a
        /\ y \in Seq(S) /\ Len(y) = 1 /\ y[1] = b
        /\ w \in Seq(S) /\ Len(w) = 2 /\ w[1] = a /\ w[2] = b
    OBVIOUS
  <1> HIDE DEF S, x, y, w
  <1>2. /\ z \in Seq(S) /\ Len(z) = Len(x) + Len(y)
        /\ \A i \in 1..(Len(x) + Len(y)) : z[i] = IF i <= Len(x) THEN x[i] ELSE y[i - Len(x)]
    BY <1>1, Concat
  <1> HIDE DEF z
  <1>3. Len(z) = 2 /\ \A i \in 1..2 : z[i] = IF i <= 1 THEN x[i] ELSE y[i - 1]
    BY <1>1, <1>2
  <1>4. \A i \in 1..2 : z[i] = w[i]
    BY <1>1, <1>3
  <1>5. z = w
    BY <1>1, <1>2, <1>3, <1>4, SameSeq
  <1> QED BY <1>5 DEF x, y, z, w

\* FlattenSeq of two and of three sequences.
LEMMA FlattenTwo ==
    ASSUME NEW ss, Len(ss) = 2
    PROVE  FlattenSeq(ss) = ss[1] \o ss[2]
  <1> DEFINE h == [i \in 1..2 |-> IF i = 1 THEN ss[1] ELSE ss[1] \o ss[2]]
             fl == CHOOSE f : f = [i \in 1..Len(ss) |->
                                    IF i = 1 THEN ss[i] ELSE f[i-1] \o ss[i]]
  <1>1. h = [i \in 1..Len(ss) |-> IF i = 1 THEN ss[i] ELSE h[i-1] \o ss[i]]
    OBVIOUS
  <1>2. FlattenSeq(ss) = fl[2]
    BY DEF FlattenSeq
  <1>3. fl = [i \in 1..Len(ss) |-> IF i = 1 THEN ss[i] ELSE fl[i-1] \o ss[i]]
    <2> HIDE DEF h
    <2> QED BY <1>1
  <1> HIDE DEF fl
  <1>4. fl[1] = ss[1]
    BY <1>3
  <1>5. fl[2] = fl[2-1] \o ss[2] /\ 2-1 = 1
    BY <1>3
  <1>6. fl[2] = ss[1] \o ss[2]
    BY <1>4, <1>5, Zenon
  <1> QED BY <1>2, <1>6

LEMMA FlattenThree ==
    ASSUME NEW ss, Len(ss) = 3
    PROVE  FlattenSeq(ss) = (ss[1] \o ss[2]) \o ss[3]
  <1> DEFINE h == [i \in 1..3 |-> IF i = 1 THEN ss[1] ELSE
                                  IF i = 2 THEN ss[1] \o ss[2] ELSE (ss[1] \o ss[2]) \o ss[3]]
             fl == CHOOSE f : f = [i \in 1..Len(ss) |->
                                    IF i = 1 THEN ss[i] ELSE f[i-1] \o ss[i]]
  <1>1. h = [i \in 1..Len(ss) |-> IF i = 1 THEN ss[i] ELSE h[i-1] \o ss[i]]
    OBVIOUS
  <1>2. FlattenSeq(ss) = fl[3]
    BY DEF FlattenSeq
  <1>3. fl = [i \in 1..Len(ss) |-> IF i = 1 THEN ss[i] ELSE fl[i-1] \o ss[i]]
    <2> HIDE DEF h
    <2> QED BY <1>1
  <1> HIDE DEF fl
  <1>4. fl[1] = ss[1]
    BY <1>3
  <1>5. fl[2] = fl[2-1] \o ss[2]
    BY <1>3
  <1>6. fl[3] = fl[3-1] \o ss[3]
    <2>1. \A i \in 1..3 : fl[i] = IF i = 1 THEN ss[i] ELSE fl[i-1] \o ss[i]
      BY <1>3, Zenon
    <2>2. 3 \in 1..3 /\ 3 # 1
      OBVIOUS
    <2> QED BY <2>1, <2>2, Zenon
  <1>7. 2-1 = 1 /\ 3-1 = 2
    OBVIOUS
  <1>8. fl[3] = (ss[1] \o ss[2]) \o ss[3]
    BY <1>4, <1>5, <1>6, <1>7, Zenon
  <1> QED BY <1>2, <1>8

\* What the runs of each phase have to apply.
LEMMA SqlStatements == ListMigrationFiles(SqlFiles) = <<Users, Friends, Groups, Members>>
  <1> DEFINE files == << <<Users, Friends>>, <<Groups, Members>> >>
  <1>1. SqlFiles = files
    BY DEF SqlFiles, Users, Friends, Groups, Members
  <1>2. Len(files) = 2 /\ files[1] = <<Users, Friends>> /\ files[2] = <<Groups, Members>>
    OBVIOUS
  <1> HIDE DEF files
  <1>3. FlattenSeq(files) = <<Users, Friends>> \o <<Groups, Members>>
    BY <1>2, FlattenTwo
  <1> QED BY <1>1, <1>3, ConcatPairs DEF ListMigrationFiles

LEMMA Kinds ==
    /\ Users.kind = "create" /\ Friends.kind = "create" /\ Groups.kind = "create" /\ Members.kind = "create"
    /\ Keyspace.kind = "keyspace" /\ Use.kind = "use" /\ Messages.kind = "create" /\ GroupId.kind = "alter"
  BY DEF Users, Friends, Groups, Members, Keyspace, Use, Messages, GroupId, Create

\* What a pass takes of a file of three statements and of one of two.
LEMMA TakesOfTwo ==
    ASSUME NEW file, DOMAIN file = 1..2, NEW only
    PROVE  RunCQLMigration(file, only) = Taken(file[1], only) \o Taken(file[2], only)
  <1> DEFINE kept == [i \in DOMAIN file |-> Taken(file[i], only)]
  <1>1. RunCQLMigration(file, only) = FlattenSeq(kept)
    BY DEF RunCQLMigration
  <1>2. Len(kept) = 2 /\ \A i \in 1..2 : kept[i] = Taken(file[i], only)
    OBVIOUS
  <1> HIDE DEF kept
  <1>3. FlattenSeq(kept) = kept[1] \o kept[2]
    BY <1>2, FlattenTwo
  <1> QED BY <1>1, <1>2, <1>3

LEMMA TakesOfThree ==
    ASSUME NEW file, DOMAIN file = 1..3, NEW only
    PROVE  RunCQLMigration(file, only) = (Taken(file[1], only) \o Taken(file[2], only)) \o Taken(file[3], only)
  <1> DEFINE kept == [i \in DOMAIN file |-> Taken(file[i], only)]
  <1>1. RunCQLMigration(file, only) = FlattenSeq(kept)
    BY DEF RunCQLMigration
  <1>2. Len(kept) = 3 /\ \A i \in 1..3 : kept[i] = Taken(file[i], only)
    OBVIOUS
  <1> HIDE DEF kept
  <1>3. FlattenSeq(kept) = (kept[1] \o kept[2]) \o kept[3]
    BY <1>2, FlattenThree
  <1> QED BY <1>1, <1>2, <1>3

LEMMA PassTakes ==
    ASSUME NEW only
    PROVE  CqlPass(only) = ((Taken(Keyspace, only) \o Taken(Use, only)) \o Taken(Messages, only))
                             \o (Taken(Use, only) \o Taken(GroupId, only))
  <1> DEFINE a == <<Keyspace, Use, Messages>>
             b == <<Use, GroupId>>
             files == <<a, b>>
             pass == [i \in DOMAIN files |-> RunCQLMigration(files[i], only)]
  <1>1. CqlFiles = files
    BY DEF CqlFiles, Keyspace, Messages, GroupId
  <1>2. CqlPass(only) = FlattenSeq(pass)
    BY <1>1 DEF CqlPass, ListMigrationFiles
  <1>3. /\ DOMAIN a = 1..3 /\ a[1] = Keyspace /\ a[2] = Use /\ a[3] = Messages
        /\ DOMAIN b = 1..2 /\ b[1] = Use /\ b[2] = GroupId
    OBVIOUS
  <1> HIDE DEF a, b
  <1>4. DOMAIN files = 1..2 /\ files[1] = a /\ files[2] = b
    OBVIOUS
  <1> HIDE DEF files
  <1>5. Len(pass) = 2 /\ pass[1] = RunCQLMigration(a, only) /\ pass[2] = RunCQLMigration(b, only)
    BY <1>4
  <1> HIDE DEF pass
  <1>6. FlattenSeq(pass) = RunCQLMigration(a, only) \o RunCQLMigration(b, only)
    BY <1>5, FlattenTwo
  <1>7. RunCQLMigration(a, only) = (Taken(Keyspace, only) \o Taken(Use, only)) \o Taken(Messages, only)
    BY <1>3, TakesOfThree
  <1>8. RunCQLMigration(b, only) = Taken(Use, only) \o Taken(GroupId, only)
    BY <1>3, TakesOfTwo
  <1> QED BY <1>2, <1>6, <1>7, <1>8

LEMMA KeyspaceStatements ==
    ASSUME NEW only, only = TRUE
    PROVE  CqlPass(only) = <<Keyspace>>
  <1>1. Taken(Keyspace, only) = <<Keyspace>> /\ Taken(Use, only) = <<>> /\ Taken(Messages, only) = <<>>
        /\ Taken(GroupId, only) = <<>>
    BY Kinds DEF Taken
  <1> QED BY <1>1, PassTakes, ConcatEmpty

LEMMA TableStatements ==
    ASSUME NEW only, only = FALSE
    PROVE  CqlPass(only) = <<Messages, GroupId>>
  <1>1. Taken(Keyspace, only) = <<>> /\ Taken(Use, only) = <<>> /\ Taken(Messages, only) = <<Messages>>
        /\ Taken(GroupId, only) = <<GroupId>>
    BY Kinds DEF Taken
  <1> QED BY <1>1, PassTakes, ConcatEmpty, ConcatOnes

LEMMA PhasesAre ==
    /\ Len(Phases) = 3 /\ DOMAIN Phases = 1..3
    /\ Phases[1] = [db |-> "postgres", keyspace |-> {}, statements |-> <<Users, Friends, Groups, Members>>]
    /\ Phases[2] = [db |-> "scylla", keyspace |-> {}, statements |-> <<Keyspace>>]
    /\ Phases[3] = [db |-> "scylla", keyspace |-> {"keyspace"}, statements |-> <<Messages, GroupId>>]
  <1>1. CqlPass(TRUE) = <<Keyspace>> /\ CqlPass(FALSE) = <<Messages, GroupId>>
    BY KeyspaceStatements, TableStatements
  <1> DEFINE sql == [db |-> "postgres", keyspace |-> {}, statements |-> <<Users, Friends, Groups, Members>>]
             first == [db |-> "scylla", keyspace |-> {}, statements |-> <<Keyspace>>]
             second == [db |-> "scylla", keyspace |-> {"keyspace"}, statements |-> <<Messages, GroupId>>]
  <1>2. Phases = <<sql, first, second>>
    BY <1>1, SqlStatements DEF Phases
  <1> HIDE DEF sql, first, second
  <1>3. Len(Phases) = 3 /\ DOMAIN Phases = 1..3 /\ Phases[1] = sql /\ Phases[2] = first
        /\ Phases[3] = second
    BY <1>2
  <1> QED BY <1>3 DEF sql, first, second

\* What the statements make and what they need.
AllMade == {"users", "friendships", "groups", "group_members", "keyspace", "messages", "group_id"}

LEMMA Makes ==
    /\ Users.makes = {"users"} /\ Friends.makes = {"friendships"} /\ Groups.makes = {"groups"}
    /\ Members.makes = {"group_members"} /\ Keyspace.makes = {"keyspace"} /\ Use.makes = {}
    /\ Messages.makes = {"messages"} /\ GroupId.makes = {"group_id"}
  BY DEF Users, Friends, Groups, Members, Keyspace, Use, Messages, GroupId, Create

LEMMA Needs ==
    /\ Users.needs = {} /\ Friends.needs = {"users"} /\ Groups.needs = {"users"}
    /\ Members.needs = {"users", "groups"} /\ Keyspace.needs = {}
    /\ Messages.needs = {"keyspace"} /\ GroupId.needs = {"messages"}
  BY DEF Users, Friends, Groups, Members, Keyspace, Messages, GroupId, Create

LEMMA StatementsAre ==
    /\ Statement = {Users, Friends, Groups, Members, Keyspace, Use, Messages, GroupId}
    /\ Everything = AllMade
  <1> DEFINE a == <<Users, Friends>>
             b == <<Groups, Members>>
             c == <<Keyspace, Use, Messages>>
             d == <<Use, GroupId>>
  <1>1. SqlFiles = <<a, b>> /\ CqlFiles = <<c, d>>
    BY DEF SqlFiles, CqlFiles, Users, Friends, Groups, Members, Keyspace, Messages, GroupId
  <1>2. /\ ToSet(a) = {Users, Friends} /\ ToSet(b) = {Groups, Members}
        /\ ToSet(c) = {Keyspace, Use, Messages} /\ ToSet(d) = {Use, GroupId}
    BY DEF ToSet
  <1> HIDE DEF a, b, c, d
  <1>3. ToSet(<<a, b, c, d>>) = {a, b, c, d}
    BY DEF ToSet
  <1>4. SqlFiles \o CqlFiles = <<a, b, c, d>>
    BY <1>1, ConcatPairs
  <1>5. UNION {ToSet(file) : file \in {a, b, c, d}} = ToSet(a) \cup ToSet(b) \cup ToSet(c) \cup ToSet(d)
    OBVIOUS
  <1>6. Statement = {Users, Friends, Groups, Members, Keyspace, Use, Messages, GroupId}
    BY <1>2, <1>3, <1>4, <1>5 DEF Statement
  <1>7. Everything = AllMade
    BY <1>6, Makes DEF Everything, AllMade
  <1> QED BY <1>6, <1>7

\* The statements one by one, and what is made from each on.
LEMMA StatementsOf ==
    /\ Len(Statements(1)) = 4 /\ Len(Statements(2)) = 1 /\ Len(Statements(3)) = 2
    /\ Statements(1)[1] = Users /\ Statements(1)[2] = Friends
    /\ Statements(1)[3] = Groups /\ Statements(1)[4] = Members
    /\ Statements(2)[1] = Keyspace /\ Statements(3)[1] = Messages /\ Statements(3)[2] = GroupId
    /\ \A p \in 1..3 : Statements(p) \in Seq(Statement)
  <1> DEFINE a == <<Users, Friends, Groups, Members>>
             b == <<Keyspace>>
             c == <<Messages, GroupId>>
  <1>1. Statements(1) = a /\ Statements(2) = b /\ Statements(3) = c
    BY PhasesAre DEF Statements
  <1>2. /\ Len(a) = 4 /\ a[1] = Users /\ a[2] = Friends /\ a[3] = Groups /\ a[4] = Members
        /\ Len(b) = 1 /\ b[1] = Keyspace
        /\ Len(c) = 2 /\ c[1] = Messages /\ c[2] = GroupId
    OBVIOUS
  <1>3. a \in Seq(Statement) /\ b \in Seq(Statement) /\ c \in Seq(Statement)
    BY StatementsAre
  <1> HIDE DEF a, b, c
  <1> QED BY <1>1, <1>2, <1>3

\* What is made from each statement on.
LEMMA MadeIs ==
    /\ Made(1, 1) = {"users", "friendships", "groups", "group_members"}
    /\ Made(1, 2) = {"friendships", "groups", "group_members"}
    /\ Made(1, 3) = {"groups", "group_members"}
    /\ Made(1, 4) = {"group_members"}
    /\ Made(1, 5) = {}
    /\ Made(2, 1) = {"keyspace"}
    /\ Made(2, 2) = {}
    /\ Made(3, 1) = {"messages", "group_id"}
    /\ Made(3, 2) = {"group_id"}
    /\ Made(3, 3) = {}
  <1>1. /\ 1..4 = {1, 2, 3, 4} /\ 2..4 = {2, 3, 4} /\ 3..4 = {3, 4} /\ 4..4 = {4} /\ 5..4 = {}
        /\ 1..1 = {1} /\ 2..1 = {} /\ 1..2 = {1, 2} /\ 2..2 = {2} /\ 3..2 = {}
    OBVIOUS
  <1>2. /\ Statements(1)[1].makes = {"users"} /\ Statements(1)[2].makes = {"friendships"}
        /\ Statements(1)[3].makes = {"groups"} /\ Statements(1)[4].makes = {"group_members"}
        /\ Statements(2)[1].makes = {"keyspace"}
        /\ Statements(3)[1].makes = {"messages"} /\ Statements(3)[2].makes = {"group_id"}
    BY StatementsOf, Makes
  <1>3. Len(Statements(1)) = 4 /\ Len(Statements(2)) = 1 /\ Len(Statements(3)) = 2
    BY StatementsOf
  <1> USE <1>1, <1>2, <1>3 DEF Made
  <1>4. Made(1, 1) = {"users", "friendships", "groups", "group_members"}
    OBVIOUS
  <1>5. Made(1, 2) = {"friendships", "groups", "group_members"}
    OBVIOUS
  <1>6. Made(1, 3) = {"groups", "group_members"} /\ Made(1, 4) = {"group_members"}
        /\ Made(1, 5) = {}
    OBVIOUS
  <1>7. Made(2, 1) = {"keyspace"} /\ Made(2, 2) = {}
    OBVIOUS
  <1>8. Made(3, 1) = {"messages", "group_id"} /\ Made(3, 2) = {"group_id"} /\ Made(3, 3) = {}
    OBVIOUS
  <1> QED BY <1>4, <1>5, <1>6, <1>7, <1>8

LEMMA AheadIs ==
    ASSUME NEW n
    PROVE  /\ Ahead(1, n) = Made(1, n) \cup {"keyspace", "messages", "group_id"}
           /\ Ahead(2, n) = Made(2, n) \cup {"messages", "group_id"}
           /\ Ahead(3, n) = Made(3, n)
  <1>1. (1 + 1)..Len(Phases) = {2, 3} /\ (2 + 1)..Len(Phases) = {3} /\ (3 + 1)..Len(Phases) = {}
    BY PhasesAre
  <1> QED BY <1>1, MadeIs DEF Ahead

\* A statement needs only what is behind it, and only the last makes the column.
LEMMA Course ==
    ASSUME NEW p \in 1..3, NEW n \in 1..Len(Statements(p))
    PROVE  LET s == Statements(p)[n] IN
           /\ s \in Statement /\ s.makes \subseteq Everything
           /\ Ahead(p, n) = s.makes \cup Ahead(p, n + 1)
           /\ s.needs \subseteq Everything \ Ahead(p, n)
           /\ "group_id" \in s.makes \/ s.kind = "alter" =>
                /\ Ahead(p, n) = {"group_id"}
                /\ s.makes = {"group_id"}
  <1>1. \/ p = 1 /\ n \in {1, 2, 3, 4}
        \/ p = 2 /\ n = 1
        \/ p = 3 /\ n \in {1, 2}
    <2>1. 1..3 = {1, 2, 3} /\ 1..4 = {1, 2, 3, 4} /\ 1..1 = {1} /\ 1..2 = {1, 2}
      OBVIOUS
    <2> QED BY <2>1, StatementsOf
  <1>2. 1 + 1 = 2 /\ 2 + 1 = 3 /\ 3 + 1 = 4 /\ 4 + 1 = 5
    OBVIOUS
  <1> USE StatementsAre, StatementsOf, AheadIs, MadeIs, Makes, Needs, Kinds, <1>2 DEF AllMade
  <1>3. CASE p = 1 /\ n = 1
    BY <1>3
  <1>4. CASE p = 1 /\ n = 2
    BY <1>4
  <1>5. CASE p = 1 /\ n = 3
    BY <1>5
  <1>6. CASE p = 1 /\ n = 4
    BY <1>6
  <1>7. CASE p = 2 /\ n = 1
    BY <1>7
  <1>8. CASE p = 3 /\ n = 1
    BY <1>8
  <1>9. CASE p = 3 /\ n = 2
    BY <1>9
  <1> QED BY <1>1, <1>3, <1>4, <1>5, <1>6, <1>7, <1>8, <1>9

\* The end of one phase is the beginning of the next, the end of the last the end.
LEMMA PhaseEnds ==
    /\ Ahead(1, Len(Statements(1)) + 1) = Ahead(2, 1)
    /\ Ahead(2, Len(Statements(2)) + 1) = Ahead(3, 1)
    /\ Ahead(3, Len(Statements(3)) + 1) = {}
    /\ Everything \ Ahead(1, 1) = {}
  <1>1. Len(Statements(1)) + 1 = 5 /\ Len(Statements(2)) + 1 = 2 /\ Len(Statements(3)) + 1 = 3
    <2>1. Len(Statements(1)) = 4 /\ Len(Statements(2)) = 1 /\ Len(Statements(3)) = 2
      BY StatementsOf
    <2>2. 4 + 1 = 5 /\ 1 + 1 = 2 /\ 2 + 1 = 3
      OBVIOUS
    <2> QED BY <2>1, <2>2, Zenon
  <1>2. Ahead(1, 5) = Ahead(2, 1)
    BY AheadIs, MadeIs
  <1>3. Ahead(2, 2) = Ahead(3, 1)
    <2>1. Ahead(2, 2) = Made(2, 2) \cup {"messages", "group_id"} /\ Ahead(3, 1) = Made(3, 1)
      BY AheadIs
    <2> QED BY <2>1, MadeIs
  <1>5. Ahead(3, 3) = {}
    BY AheadIs, MadeIs
  <1>4. Everything \ Ahead(1, 1) = {}
    BY StatementsAre, AheadIs, MadeIs DEF AllMade
  <1> QED BY <1>1, <1>2, <1>3, <1>4, <1>5

\* The statements of a phase, a run at its end and a run amid it.
LEMMA LeftOfPhase ==
    ASSUME NEW j \in InitRun, j.at = "apply", LeftFits(j)
    PROVE  LET n == Position(j) all == Statements(j.phase) IN
           /\ j.phase \in 1..3 /\ all \in Seq(Statement) /\ n \in 1..(Len(all) + 1)
           /\ Len(j.left) = Len(all) + 1 - n
           /\ j.left = <<>> => n = Len(all) + 1
           /\ j.left # <<>> => /\ n \in 1..Len(all)
                              /\ Head(j.left) = all[n]
                              /\ Tail(j.left) = SubSeq(all, n + 1, Len(all))
                              /\ Tail(j.left) \in Seq(Statement)
                              /\ Len(Tail(j.left)) = Len(all) - n
  <1> DEFINE n == Position(j)
             all == Statements(j.phase)
  <1>1. j.phase \in 1..3 /\ all \in Seq(Statement) /\ j.left \in Seq(Statement)
    BY PhasesAre, StatementsOf DEF InitRun
  <1>2. n \in 1..(Len(all) + 1) /\ j.left = SubSeq(all, n, Len(all))
    BY DEF LeftFits
  <1>3. n = Len(all) + 1 - Len(j.left) /\ Len(all) \in Nat /\ Len(j.left) \in Nat
    BY <1>1 DEF Position
  <1> HIDE DEF n, all
  <1>4. Len(j.left) = Len(all) + 1 - n
    BY <1>2, <1>3
  <1>5. j.left = <<>> => n = Len(all) + 1
    BY <1>3
  <1>6. ASSUME j.left # <<>>
        PROVE  /\ n \in 1..Len(all)
               /\ Head(j.left) = all[n]
               /\ Tail(j.left) = SubSeq(all, n + 1, Len(all))
               /\ Tail(j.left) \in Seq(Statement)
               /\ Len(Tail(j.left)) = Len(all) - n
    <2>1. Len(j.left) > 0 /\ Tail(j.left) \in Seq(Statement) /\ Len(Tail(j.left)) = Len(j.left) - 1
      BY <1>1, <1>6
    <2>2. n \in 1..Len(all)
      BY <1>2, <1>3, <2>1
    <2>3. Head(j.left) = all[n] /\ Tail(j.left) = SubSeq(all, n + 1, Len(all))
      BY <1>1, <1>2, <2>2, HeadTailOfSubSeq
    <2> QED BY <1>4, <2>1, <2>2, <2>3, <1>3
  <1> QED BY <1>1, <1>2, <1>4, <1>5, <1>6 DEF n, all

(***************************************************************************)
(* One run takes a step                                                    *)
(***************************************************************************)

LEMMA RunIs ==
    /\ InitRun = [at : Running \cup {"idle", "done", "unreachable", "rejected", "lost"},
                  phase : 1..3, attempt : 1..MaxAttempts, left : Seq(Statement)]
    /\ 1 \in 1..MaxAttempts /\ 1 \in 1..3 /\ <<>> \in Seq(Statement)
  <1>1. DOMAIN Phases = 1..3
    BY PhasesAre
  <1>2. InitRun = [at : Running \cup {"idle", "done", "unreachable", "rejected", "lost"},
                  phase : 1..3, attempt : 1..MaxAttempts, left : Seq(Statement)]
    BY <1>1 DEF InitRun
  <1>3. 1 \in 1..MaxAttempts /\ 1 \in 1..3 /\ <<>> \in Seq(Statement)
    BY InfraInitAssumption
  <1> QED BY <1>2, <1>3

\* What a step of one run owes the invariant: its own place, a schema that has
\* not shrunk, and the column last.
LEMMA RunStep ==
    ASSUME StartUpIInv, NEW l \in Launcher, NEW j \in InitRun,
           init' = [init EXCEPT ![l] = j], server' = server, reachable' = reachable,
           schema \subseteq schema', schema' \subseteq Everything,
           "group_id" \in schema' => schema' = Everything,
           LeftFits(j),
           j.at \in Running => Everything \ Ahead(j.phase, Position(j)) \subseteq schema',
           j.at \in {"done", "rejected"} => schema' = Everything
    PROVE  StartUpIInv'
  <1>1. /\ init' \in [Launcher -> InitRun] /\ init'[l] = j
        /\ \A k \in Launcher : k # l => init'[k] = init[k]
    BY DEF StartUpIInv, StartUpTypeOK
  <1>2. Complete => Complete'
    BY DEF Complete
  <1>3. StartUpTypeOK'
    BY <1>1 DEF StartUpIInv, StartUpTypeOK
  <1>4. LeftFitsPhase'
    BY <1>1 DEF StartUpIInv, LeftFitsPhase
  <1>5. BehindIsMade'
    BY <1>1 DEF StartUpIInv, BehindIsMade
  <1>6. ColumnIsLast' /\ DoneIsComplete' /\ RefusedOnlyWhenComplete'
    BY <1>1, <1>2 DEF StartUpIInv, ColumnIsLast, DoneIsComplete, RefusedOnlyWhenComplete, Complete
  <1>7. ServedSchemaIsComplete'
    BY <1>2 DEF StartUpIInv, ServedSchemaIsComplete
  <1> QED BY <1>3, <1>4, <1>5, <1>6, <1>7 DEF StartUpIInv

LEMMA LaunchStep ==
    ASSUME StartUpIInv, NEW l \in Launcher, Launch(l)
    PROVE  StartUpIInv'
  <1> DEFINE j == [Fresh EXCEPT !.at = "connect"]
  <1>1. j \in InitRun /\ j.at = "connect" /\ j.phase = 1
    BY RunIs DEF Fresh, Running
  <1> HIDE DEF j
  <1>2. init' = [init EXCEPT ![l] = j] /\ UNCHANGED <<reachable, schema, server>>
    BY DEF Launch, j
  <1>3. Position(j) = 1 /\ LeftFits(j)
    BY <1>1 DEF Position, LeftFits
  <1> QED BY <1>1, <1>2, <1>3, RunStep, PhaseEnds
          DEF StartUpIInv, StartUpTypeOK, ColumnIsLast, Complete

LEMMA ConnectStep ==
    ASSUME StartUpIInv, NEW l \in Launcher, Connect(l)
    PROVE  StartUpIInv'
  <1> DEFINE p == init[l].phase
             j == [init[l] EXCEPT !.at = "apply", !.attempt = 1, !.left = Statements(p)]
  <1>1. init[l] \in InitRun /\ p \in 1..3
    BY RunIs DEF StartUpIInv, StartUpTypeOK
  <1>2. Statements(p) \in Seq(Statement) /\ Len(Statements(p)) \in Nat
    BY <1>1, StatementsOf
  <1>3. j \in InitRun /\ j.at = "apply" /\ j.phase = p /\ j.left = Statements(p)
    BY <1>1, <1>2, RunIs DEF Running
  <1>4. init' = [init EXCEPT ![l] = j] /\ UNCHANGED <<reachable, schema, server>>
    BY DEF Connect, Statements, StartUpIInv, StartUpTypeOK
  <1> HIDE DEF j
  <1>5. Position(j) = 1
    BY <1>2, <1>3 DEF Position
  <1>6. LeftFits(j)
    BY <1>2, <1>3, <1>5, SubSeqFull DEF LeftFits
  <1>7. Everything \ Ahead(p, 1) \subseteq schema
    BY DEF Connect, StartUpIInv, BehindIsMade, Position, Running
  <1> QED BY <1>3, <1>4, <1>5, <1>6, <1>7, RunStep
          DEF StartUpIInv, StartUpTypeOK, ColumnIsLast, Complete

\* A run that takes no further step.
LEMMA RunStops ==
    ASSUME StartUpIInv, NEW l \in Launcher, NEW j \in InitRun,
           j.at \in {"unreachable", "lost"} \/ (j.at = "rejected" /\ Complete),
           init' = [init EXCEPT ![l] = j], UNCHANGED <<reachable, schema, server>>
    PROVE  StartUpIInv'
  <1>1. LeftFits(j) /\ j.at \notin Running
    BY DEF LeftFits, Running
  <1> QED BY <1>1, RunStep DEF StartUpIInv, StartUpTypeOK, ColumnIsLast, Complete

LEMMA ConnectFailsStep ==
    ASSUME StartUpIInv, NEW l \in Launcher, ConnectFails(l)
    PROVE  StartUpIInv'
  <1> DEFINE i == init[l]
             j == Retry(i, "unreachable")
  <1>1. i \in InitRun /\ i.at = "connect"
    BY DEF ConnectFails, StartUpIInv, StartUpTypeOK
  <1>2. init' = [init EXCEPT ![l] = j] /\ UNCHANGED <<reachable, schema, server>>
    BY DEF ConnectFails
  <1>3. CASE i.attempt < MaxAttempts
    <2>1. j = [i EXCEPT !.attempt = @ + 1]
      BY <1>3 DEF Retry
    <2>2. j \in InitRun /\ j.at = "connect" /\ j.phase = i.phase
      BY <1>1, <1>3, <2>1, InfraInitAssumption, RunIs
    <2> HIDE DEF j
    <2>3. LeftFits(j) /\ Position(j) = 1
      BY <2>2 DEF LeftFits, Position
    <2>4. Everything \ Ahead(i.phase, 1) \subseteq schema
      BY <1>1 DEF StartUpIInv, BehindIsMade, Position, Running
    <2> QED BY <1>2, <2>2, <2>3, <2>4, RunStep
            DEF StartUpIInv, StartUpTypeOK, ColumnIsLast, Complete
  <1>4. CASE ~(i.attempt < MaxAttempts)
    <2>1. j = [i EXCEPT !.at = "unreachable"]
      BY <1>4 DEF Retry
    <2>2. j \in InitRun /\ j.at = "unreachable"
      BY <1>1, <2>1, RunIs
    <2> HIDE DEF j
    <2>3. j.at \in {"unreachable", "lost"}
      BY <2>2
    <2> QED BY <1>2, <2>2, <2>3, RunStops
  <1> QED BY <1>3, <1>4

\* A run amid a phase: the statement at hand and what the schema has.
LEMMA AtStatement ==
    ASSUME StartUpIInv, NEW l \in Launcher, init[l].at = "apply", init[l].left # <<>>
    PROVE  LET j == init[l] n == Position(j) s == Head(j.left) IN
           /\ j \in InitRun /\ LeftFits(j)
           /\ j.phase \in 1..3 /\ n \in 1..Len(Statements(j.phase))
           /\ s = Statements(j.phase)[n]
           /\ Everything \ Ahead(j.phase, n) \subseteq schema
           /\ s.makes \subseteq Everything
           /\ Ahead(j.phase, n) = s.makes \cup Ahead(j.phase, n + 1)
           /\ s.needs \subseteq schema
           /\ "group_id" \in s.makes \/ s.kind = "alter" =>
                Everything \ {"group_id"} \subseteq schema /\ s.makes = {"group_id"}
  <1> DEFINE j == init[l]
             n == Position(j)
             s == Head(j.left)
  <1>1. j \in InitRun /\ LeftFits(j)
    BY DEF StartUpIInv, StartUpTypeOK, LeftFitsPhase
  <1>2. j.phase \in 1..3 /\ n \in 1..Len(Statements(j.phase)) /\ s = Statements(j.phase)[n]
    BY <1>1, LeftOfPhase
  <1>3. Everything \ Ahead(j.phase, n) \subseteq schema
    BY DEF StartUpIInv, BehindIsMade, Running
  <1> HIDE DEF n, s
  <1>4. /\ s.makes \subseteq Everything
        /\ Ahead(j.phase, n) = s.makes \cup Ahead(j.phase, n + 1)
        /\ s.needs \subseteq Everything \ Ahead(j.phase, n)
        /\ "group_id" \in s.makes \/ s.kind = "alter" =>
                /\ Ahead(j.phase, n) = {"group_id"}
                /\ s.makes = {"group_id"}
    BY <1>2, Course
  <1>5. /\ s.needs \subseteq schema
        /\ "group_id" \in s.makes \/ s.kind = "alter" =>
                Everything \ {"group_id"} \subseteq schema /\ s.makes = {"group_id"}
    BY <1>3, <1>4
  <1> QED BY <1>1, <1>2, <1>3, <1>4, <1>5 DEF n, s

\* What a statement may do to the schema, applied or not.
LEMMA SchemaGrows ==
    ASSUME StartUpIInv, NEW l \in Launcher, init[l].at = "apply", init[l].left # <<>>,
           schema' \in {schema, schema \cup Head(init[l].left).makes}
    PROVE  /\ schema \subseteq schema' /\ schema' \subseteq Everything
           /\ "group_id" \in schema' => schema' = Everything
  <1> DEFINE s == Head(init[l].left)
  <1>1. /\ s.makes \subseteq Everything
        /\ "group_id" \in s.makes =>
                Everything \ {"group_id"} \subseteq schema /\ s.makes = {"group_id"}
    BY AtStatement
  <1>2. schema \subseteq Everything /\ ("group_id" \in schema => schema = Everything)
    BY DEF StartUpIInv, StartUpTypeOK, ColumnIsLast, Complete
  <1> QED BY <1>1, <1>2

LEMMA ApplyStep ==
    ASSUME StartUpIInv, NEW l \in Launcher, Apply(l)
    PROVE  StartUpIInv'
  <1> DEFINE i == init[l]
             all == Statements(i.phase)
             n == Position(i)
             j == [i EXCEPT !.left = Tail(@)]
  <1>1. /\ i.at = "apply" /\ i.left # <<>> /\ init' = [init EXCEPT ![l] = j]
        /\ schema' = schema \cup Head(i.left).makes /\ UNCHANGED <<reachable, server>>
    BY DEF Apply, StartUpIInv, StartUpTypeOK
  <1>2. /\ i \in InitRun /\ LeftFits(i) /\ n \in 1..Len(all)
        /\ Everything \ Ahead(i.phase, n) \subseteq schema
        /\ Ahead(i.phase, n) = Head(i.left).makes \cup Ahead(i.phase, n + 1)
    BY <1>1, AtStatement
  <1>3. /\ all \in Seq(Statement) /\ Tail(i.left) = SubSeq(all, n + 1, Len(all))
        /\ Tail(i.left) \in Seq(Statement) /\ Len(Tail(i.left)) = Len(all) - n
    BY <1>1, <1>2, LeftOfPhase
  <1>4. j \in InitRun /\ j.at = "apply" /\ j.phase = i.phase /\ j.left = Tail(i.left)
    BY <1>1, <1>2, <1>3, RunIs
  <1> HIDE DEF j, n
  <1>5. Position(j) = n + 1
    <2> DEFINE len == Len(all)
               rest == Len(Tail(i.left))
    <2>1. Position(j) = len + 1 - rest
      BY <1>4 DEF Position
    <2>2. len \in Nat /\ n \in Nat /\ rest = len - n
      BY <1>2, <1>3
    <2> HIDE DEF len, rest
    <2> QED BY <2>1, <2>2
  <1>6. LeftFits(j)
    BY <1>2, <1>3, <1>4, <1>5 DEF LeftFits
  <1>7. Everything \ Ahead(j.phase, Position(j)) \subseteq schema'
    BY <1>1, <1>2, <1>4, <1>5
  <1>8. /\ schema \subseteq schema' /\ schema' \subseteq Everything
        /\ "group_id" \in schema' => schema' = Everything
    BY <1>1, SchemaGrows
  <1> QED BY <1>1, <1>4, <1>6, <1>7, <1>8, RunStep

LEMMA RefuseStep ==
    ASSUME StartUpIInv, NEW l \in Launcher, Refuse(l)
    PROVE  StartUpIInv'
  <1> DEFINE i == init[l]
             s == Head(i.left)
             j == [i EXCEPT !.at = "rejected"]
  <1>1. /\ i.at = "apply" /\ i.left # <<>> /\ ~Accepts(s)
        /\ init' = [init EXCEPT ![l] = j] /\ UNCHANGED <<reachable, schema, server>>
    BY DEF Refuse, StartUpIInv, StartUpTypeOK
  <1>2. i \in InitRun /\ s.needs \subseteq schema /\ (s.kind = "alter" => s.makes = {"group_id"})
    BY <1>1, AtStatement
  <1>3. Complete
    BY <1>1, <1>2 DEF Accepts, StartUpIInv, ColumnIsLast
  <1>4. j \in InitRun /\ j.at = "rejected"
    BY <1>2, RunIs
  <1> HIDE DEF j
  <1> QED BY <1>1, <1>3, <1>4, RunStops

LEMMA StatementLostStep ==
    ASSUME StartUpIInv, NEW l \in Launcher, StatementLost(l)
    PROVE  StartUpIInv'
  <1> DEFINE i == init[l]
             j == [i EXCEPT !.at = "lost"]
  <1>1. /\ i.at = "apply" /\ i.left # <<>> /\ init' = [init EXCEPT ![l] = j]
        /\ schema' \in {schema, schema \cup Head(i.left).makes} /\ UNCHANGED <<reachable, server>>
    BY DEF StatementLost, StartUpIInv, StartUpTypeOK
  <1>2. i \in InitRun
    BY <1>1, AtStatement
  <1>3. j \in InitRun /\ j.at = "lost"
    BY <1>2, RunIs
  <1> HIDE DEF j
  <1>4. LeftFits(j) /\ j.at \notin Running
    BY <1>3 DEF LeftFits, Running
  <1>5. /\ schema \subseteq schema' /\ schema' \subseteq Everything
        /\ "group_id" \in schema' => schema' = Everything
    BY <1>1, SchemaGrows
  <1> QED BY <1>1, <1>3, <1>4, <1>5, RunStep

LEMMA NextPhaseStep ==
    ASSUME StartUpIInv, NEW l \in Launcher, NextPhase(l)
    PROVE  StartUpIInv'
  <1> DEFINE i == init[l]
  <1>1. i.at = "apply" /\ i.left = <<>> /\ UNCHANGED <<reachable, schema, server>>
    BY DEF NextPhase
  <1>2. i \in InitRun /\ LeftFits(i)
    BY DEF StartUpIInv, StartUpTypeOK, LeftFitsPhase
  <1>3. i.phase \in 1..3 /\ Position(i) = Len(Statements(i.phase)) + 1
    BY <1>1, <1>2, LeftOfPhase
  <1>4. Everything \ Ahead(i.phase, Len(Statements(i.phase)) + 1) \subseteq schema
    BY <1>1, <1>3 DEF StartUpIInv, BehindIsMade, Running
  <1>5. CASE i.phase < 3
    <2> DEFINE j == [i EXCEPT !.at = "connect", !.phase = i.phase + 1]
    <2>0. i.phase < Len(Phases) /\ i.phase + 1 \in 1..3
      BY <1>3, <1>5, PhasesAre
    <2>1. init' = [init EXCEPT ![l] = j]
      BY <2>0 DEF NextPhase
    <2>2. j \in InitRun /\ j.at = "connect" /\ j.phase = i.phase + 1
      BY <1>2, <2>0, RunIs DEF Running
    <2> HIDE DEF j
    <2>3. LeftFits(j) /\ Position(j) = 1
      BY <2>2 DEF LeftFits, Position
    <2>4. i.phase = 1 \/ i.phase = 2
      BY <1>3, <1>5
    <2>5. 1 + 1 = 2 /\ 2 + 1 = 3
      OBVIOUS
    <2>6. Ahead(i.phase, Len(Statements(i.phase)) + 1) = Ahead(i.phase + 1, 1)
      BY <2>4, <2>5, PhaseEnds
    <2> QED BY <1>1, <1>4, <2>1, <2>2, <2>3, <2>6, RunStep
            DEF StartUpIInv, StartUpTypeOK, ColumnIsLast, Complete
  <1>6. CASE i.phase = 3
    <2> DEFINE j == [i EXCEPT !.at = "done"]
    <2>1. init' = [init EXCEPT ![l] = j]
      BY <1>6, PhasesAre DEF NextPhase
    <2>2. j \in InitRun /\ j.at = "done"
      BY <1>2, RunIs
    <2> HIDE DEF j
    <2>3. LeftFits(j) /\ j.at \notin Running
      BY <2>2 DEF LeftFits, Running
    <2>4. schema = Everything
      BY <1>4, <1>6, PhaseEnds DEF StartUpIInv, StartUpTypeOK
    <2> QED BY <1>1, <2>1, <2>2, <2>3, <2>4, RunStep DEF StartUpIInv, StartUpTypeOK
  <1> QED BY <1>3, <1>5, <1>6

(***************************************************************************)
(* The server and what happens around                                      *)
(***************************************************************************)

\* Steps that leave the runs and the schema alone.
LEMMA AroundStep ==
    ASSUME StartUpIInv, UNCHANGED <<schema, init>>, reachable' \subseteq Database,
           server' \in Server, ServedSchemaIsComplete'
    PROVE  StartUpIInv'
  <1>1. StartUpTypeOK'
    BY DEF StartUpIInv, StartUpTypeOK
  <1>2. LeftFitsPhase' /\ BehindIsMade'
    BY DEF StartUpIInv, LeftFitsPhase, BehindIsMade
  <1>3. ColumnIsLast' /\ DoneIsComplete' /\ RefusedOnlyWhenComplete'
    BY DEF StartUpIInv, ColumnIsLast, DoneIsComplete, RefusedOnlyWhenComplete, Complete
  <1> QED BY <1>1, <1>2, <1>3 DEF StartUpIInv

LEMMA StartServerStep ==
    ASSUME StartUpIInv, NEW by \in Launcher, StartServer(by)
    PROVE  StartUpIInv'
  <1>1. server' \in Server /\ server'.at = "postgres" /\ server'.by = by
    BY RunIs DEF StartServer, Server
  <1>2. by = "compose" => Complete'
    BY DEF StartServer, StartUpIInv, DoneIsComplete, Launcher, Complete
  <1>3. ServedSchemaIsComplete'
    BY <1>1, <1>2 DEF ServedSchemaIsComplete
  <1> QED BY <1>1, <1>3, AroundStep DEF StartServer, StartUpIInv, StartUpTypeOK

LEMMA ConnectPostgresStep ==
    ASSUME StartUpIInv, ConnectPostgres
    PROVE  StartUpIInv'
  <1>1. server' \in Server /\ server'.at \in {"scylla", "dead"} /\ server'.by = server.by
    BY DEF ConnectPostgres, Server, StartUpIInv, StartUpTypeOK
  <1>2. ServedSchemaIsComplete'
    BY <1>1 DEF ConnectPostgres, StartUpIInv, ServedSchemaIsComplete, Complete
  <1> QED BY <1>1, <1>2, AroundStep DEF ConnectPostgres, StartUpIInv, StartUpTypeOK

LEMMA ConnectScyllaStep ==
    ASSUME StartUpIInv, ConnectScylla
    PROVE  StartUpIInv'
  <1>1. server \in Server /\ server.at = "scylla"
    BY DEF ConnectScylla, StartUpIInv, StartUpTypeOK
  <1>2. /\ server' \in Server /\ server'.by = server.by
        /\ server'.at \in {"scylla", "dead", "serving"}
        /\ server'.at = "serving" => "keyspace" \in schema
    <2>1. CASE Opens("scylla", {"keyspace"})
      BY <1>1, <2>1 DEF ConnectScylla, Opens, Server
    <2>2. CASE ~Opens("scylla", {"keyspace"}) /\ server.attempt < MaxAttempts
      <3>1. server' = [server EXCEPT !.attempt = server.attempt + 1]
        BY <2>2 DEF ConnectScylla, Retry
      <3>2. server.attempt + 1 \in 1..MaxAttempts
        BY <1>1, <2>2, InfraInitAssumption DEF Server
      <3> QED BY <1>1, <3>1, <3>2 DEF Server
    <2>3. CASE ~Opens("scylla", {"keyspace"}) /\ ~(server.attempt < MaxAttempts)
      <3>1. server' = [server EXCEPT !.at = "dead"]
        BY <2>3 DEF ConnectScylla, Retry
      <3> QED BY <1>1, <3>1 DEF Server
    <2> QED BY <2>1, <2>2, <2>3
  <1>3. ServedSchemaIsComplete'
    BY <1>1, <1>2 DEF ConnectScylla, StartUpIInv, ServedSchemaIsComplete, Complete
  <1> QED BY <1>2, <1>3, AroundStep DEF ConnectScylla, StartUpIInv, StartUpTypeOK

LEMMA OutageStep ==
    ASSUME StartUpIInv, NEW db \in Database, Outage(db)
    PROVE  StartUpIInv'
  <1>1. ServedSchemaIsComplete'
    BY DEF Outage, StartUpIInv, ServedSchemaIsComplete, Complete
  <1> QED BY <1>1, AroundStep DEF Outage, StartUpIInv, StartUpTypeOK

LEMMA DownIs == Down \in Server /\ Down.at = "down" /\ Down.by = "compose"
  BY RunIs DEF Down, Server, Launcher

LEMMA KillStep ==
    ASSUME StartUpIInv, Kill
    PROVE  StartUpIInv'
  <1>1. CASE \E l \in Launcher : /\ init[l].at \in Running
                                /\ init' = [init EXCEPT ![l].at = "lost"]
                                /\ UNCHANGED <<reachable, schema, server>>
    <2>1. PICK l \in Launcher : /\ init' = [init EXCEPT ![l].at = "lost"]
                               /\ UNCHANGED <<reachable, schema, server>>
      BY <1>1
    <2> DEFINE j == [init[l] EXCEPT !.at = "lost"]
    <2>2. j \in InitRun /\ j.at = "lost"
      BY RunIs DEF StartUpIInv, StartUpTypeOK
    <2>3. init' = [init EXCEPT ![l] = j]
      BY <2>1 DEF StartUpIInv, StartUpTypeOK
    <2> HIDE DEF j
    <2>4. j.at \in {"unreachable", "lost"}
      BY <2>2
    <2> QED BY <2>1, <2>2, <2>3, <2>4, RunStops
  <1>2. CASE server' = Down /\ UNCHANGED <<reachable, schema, init>>
    <2>1. ServedSchemaIsComplete'
      BY <1>2, DownIs DEF ServedSchemaIsComplete
    <2> QED BY <1>2, <2>1, DownIs, AroundStep DEF StartUpIInv, StartUpTypeOK
  <1> QED BY <1>1, <1>2 DEF Kill

LEMMA FreshIs ==
    /\ Fresh \in InitRun /\ Fresh.at = "idle"
    /\ LET all == [l \in Launcher |-> Fresh] IN
       all \in [Launcher -> InitRun] /\ \A l \in Launcher : all[l].at = "idle"
  BY RunIs DEF Fresh

LEMMA MakeDownStep ==
    ASSUME MakeDown
    PROVE  StartUpIInv'
  <1>1. /\ reachable' = {} /\ schema' = {} /\ server' = Down
        /\ init' \in [Launcher -> InitRun] /\ \A l \in Launcher : init'[l].at = "idle"
    BY FreshIs DEF MakeDown
  <1>2. StartUpTypeOK'
    BY <1>1, DownIs DEF StartUpTypeOK
  <1>3. LeftFitsPhase' /\ BehindIsMade'
    BY <1>1 DEF LeftFitsPhase, LeftFits, BehindIsMade, Running
  <1>4. ColumnIsLast' /\ DoneIsComplete' /\ RefusedOnlyWhenComplete'
    BY <1>1 DEF ColumnIsLast, DoneIsComplete, RefusedOnlyWhenComplete
  <1>5. ServedSchemaIsComplete'
    BY <1>1, DownIs DEF ServedSchemaIsComplete
  <1> QED BY <1>2, <1>3, <1>4, <1>5 DEF StartUpIInv

LEMMA StartUpInitInv == StartUpInit => StartUpIInv
  <1> SUFFICES ASSUME StartUpInit
               PROVE  StartUpIInv
    OBVIOUS
  <1>1. /\ reachable = {} /\ schema = {} /\ server = Down
        /\ init \in [Launcher -> InitRun] /\ \A l \in Launcher : init[l].at = "idle"
    BY FreshIs DEF StartUpInit
  <1>2. StartUpTypeOK
    BY <1>1, DownIs DEF StartUpTypeOK
  <1>3. LeftFitsPhase /\ BehindIsMade
    BY <1>1 DEF LeftFitsPhase, LeftFits, BehindIsMade, Running
  <1>4. ColumnIsLast /\ DoneIsComplete /\ RefusedOnlyWhenComplete
    BY <1>1 DEF ColumnIsLast, DoneIsComplete, RefusedOnlyWhenComplete
  <1>5. ServedSchemaIsComplete
    BY <1>1, DownIs DEF ServedSchemaIsComplete
  <1> QED BY <1>2, <1>3, <1>4, <1>5 DEF StartUpIInv

LEMMA StartUpNextInv == StartUpIInv /\ [StartUpNext]_startUpVars => StartUpIInv'
  <1> SUFFICES ASSUME StartUpIInv, [StartUpNext]_startUpVars
               PROVE  StartUpIInv'
    OBVIOUS
  <1>1. ASSUME NEW l \in Launcher, Launch(l) \/ Step(l) \/ StartServer(l)
        PROVE  StartUpIInv'
    BY <1>1, LaunchStep, ConnectStep, ConnectFailsStep, ApplyStep, RefuseStep,
       StatementLostStep, NextPhaseStep, StartServerStep DEF Step
  <1>2. ASSUME NEW db \in Database, Outage(db)
        PROVE  StartUpIInv'
    BY <1>2, OutageStep
  <1>3. CASE UNCHANGED startUpVars
    BY <1>3, AroundStep DEF startUpVars, StartUpIInv, StartUpTypeOK, ServedSchemaIsComplete, Complete
  <1> QED BY <1>1, <1>2, <1>3, ConnectPostgresStep, ConnectScyllaStep, KillStep, MakeDownStep
          DEF StartUpNext

\* However the databases and the programs come and go, a run of infra-init has
\* everything behind it in the schema, for any number of attempts.
THEOREM StartUpInvariance == StartUpSpec => []StartUpIInv
  <1> QED BY StartUpInitInv, StartUpNextInv, PTL DEF StartUpSpec

\* Runs, server and schema keep their types.
THEOREM StartUpTypeCorrect == StartUpSpec => []StartUpTypeOK
  <1>1. StartUpIInv => StartUpTypeOK
    BY DEF StartUpIInv
  <1> QED BY <1>1, StartUpInvariance, PTL

\* A run that the database refuses finds nothing left to do: ALTER TABLE, which
\* cannot be repeated, is the last statement of the last file.
THEOREM RefusedWhenComplete == StartUpSpec => []RefusedOnlyWhenComplete
  <1>1. StartUpIInv => RefusedOnlyWhenComplete
    BY DEF StartUpIInv
  <1> QED BY <1>1, StartUpInvariance, PTL

\* A server that compose started has the whole schema under it, one started by
\* hand that serves its keyspace.
THEOREM ServedSchemaComplete == StartUpSpec => []ServedSchemaIsComplete
  <1>1. StartUpIInv => ServedSchemaIsComplete
    BY DEF StartUpIInv
  <1> QED BY <1>1, StartUpInvariance, PTL

(***************************************************************************)
(* Every step of a run brings it nearer to its end                         *)
(***************************************************************************)

PhasesAhead(p) == (3 - p) * PhaseSteps

LEMMA StepsLeftIs ==
    ASSUME NEW j \in InitRun
    PROVE  /\ PhaseSteps = MaxAttempts + 5 /\ PhasesAhead(j.phase) \in Nat
           /\ j.phase < 3 => PhasesAhead(j.phase) = PhasesAhead(j.phase + 1) + PhaseSteps
           /\ j.at = "connect" =>
                StepsLeft(j) = PhasesAhead(j.phase) + PhaseSteps - (j.attempt - 1)
           /\ j.at = "apply" => StepsLeft(j) = PhasesAhead(j.phase) + Len(j.left) + 1
           /\ j.at \notin Running => StepsLeft(j) = 0
  <1> DEFINE p == j.phase
             r == PhasesAhead(p)
             both == (3 + 1 - p) * PhaseSteps
  <1>1. PhaseSteps = MaxAttempts + 5
    <2>1. Len(Phases[1].statements) = 4
      BY StatementsOf DEF Statements
    <2> QED BY <2>1, InfraInitAssumption DEF PhaseSteps
  <1>2. p \in {1, 2, 3} /\ j.attempt \in Nat /\ PhaseSteps \in Nat
    BY <1>1, RunIs, InfraInitAssumption
  <1>3. /\ r \in Nat
        /\ p < 3 => r = PhasesAhead(p + 1) + PhaseSteps
        /\ both = r + PhaseSteps
    <2>1. CASE p = 1
      BY <1>2, <2>1 DEF PhasesAhead
    <2>2. CASE p = 2
      BY <1>2, <2>2 DEF PhasesAhead
    <2>3. CASE p = 3
      BY <1>2, <2>3 DEF PhasesAhead
    <2> QED BY <1>2, <2>1, <2>2, <2>3
  <1>4. j.at = "connect" => StepsLeft(j) = both - (j.attempt - 1)
    BY PhasesAre DEF StepsLeft
  <1> HIDE DEF both
  <1>5. j.at = "connect" => StepsLeft(j) = r + PhaseSteps - (j.attempt - 1)
    BY <1>2, <1>3, <1>4
  <1>6. j.at = "apply" => StepsLeft(j) = r + Len(j.left) + 1
    BY PhasesAre DEF StepsLeft, PhasesAhead
  <1>7. j.at \notin Running => StepsLeft(j) = 0
    BY DEF StepsLeft, Running
  <1> QED BY <1>1, <1>3, <1>5, <1>6, <1>7

\* An attempt that succeeds saves the rest of them.
LEMMA Closer ==
    ASSUME NEW m \in Nat, NEW a \in 1..m, NEW r \in Nat, NEW n \in 1..4
    PROVE  r + n + 1 < r + (m + 5) - (a - 1)
  OBVIOUS

LEMMA StepCounts ==
    ASSUME StartUpIInv, NEW l \in Launcher, Step(l)
    PROVE  StepsLeft(init'[l]) < StepsLeft(init[l])
  <1> DEFINE i == init[l]
             p == i.phase
             r == PhasesAhead(p)
  <1>1. i \in InitRun /\ init \in [Launcher -> InitRun] /\ LeftFits(i)
    BY DEF StartUpIInv, StartUpTypeOK, LeftFitsPhase
  <1>2. /\ PhaseSteps = MaxAttempts + 5 /\ r \in Nat
        /\ p < 3 => r = PhasesAhead(p + 1) + PhaseSteps
        /\ i.at = "connect" => StepsLeft(i) = r + PhaseSteps - (i.attempt - 1)
        /\ i.at = "apply" => StepsLeft(i) = r + Len(i.left) + 1
    BY <1>1, StepsLeftIs
  <1>3. /\ p \in 1..3 /\ i.attempt \in 1..MaxAttempts /\ MaxAttempts \in Nat \ {0}
        /\ i.left \in Seq(Statement) /\ Len(i.left) \in Nat
    BY <1>1, RunIs, InfraInitAssumption
  <1>4. ASSUME NEW j \in InitRun, j.at \notin Running, init' = [init EXCEPT ![l] = j],
               i.at \in Running
        PROVE  StepsLeft(init'[l]) < StepsLeft(i)
    <2>1. init'[l] = j /\ StepsLeft(j) = 0
      BY <1>1, <1>4, StepsLeftIs
    <2>2. CASE i.at = "connect"
      BY <1>2, <1>3, <2>1, <2>2
    <2>3. CASE i.at = "apply"
      BY <1>2, <1>3, <2>1, <2>3
    <2> QED BY <1>4, <2>2, <2>3 DEF Running
  <1>5. CASE Connect(l)
    <2> DEFINE j == [i EXCEPT !.at = "apply", !.attempt = 1, !.left = Statements(p)]
    <2>1. i.at = "connect" /\ init'[l] = j
      BY <1>1, <1>5 DEF Connect, Statements
    <2>2. Len(Statements(p)) \in 1..4 /\ Statements(p) \in Seq(Statement)
      BY <1>3, StatementsOf
    <2>3. j \in InitRun /\ j.at = "apply" /\ j.phase = p /\ j.left = Statements(p)
      BY <1>1, <2>2, RunIs DEF Running
    <2> HIDE DEF j
    <2>4. StepsLeft(j) = r + Len(Statements(p)) + 1
      BY <2>3, StepsLeftIs
    <2>5. StepsLeft(i) = r + PhaseSteps - (i.attempt - 1)
      BY <1>2, <2>1
    <2> QED BY <1>2, <1>3, <2>1, <2>2, <2>4, <2>5, Closer
  <1>6. CASE ConnectFails(l)
    <2>1. i.at = "connect" /\ init' = [init EXCEPT ![l] = Retry(i, "unreachable")]
      BY <1>6 DEF ConnectFails
    <2>2. CASE i.attempt < MaxAttempts
      <3> DEFINE j == [i EXCEPT !.attempt = i.attempt + 1]
      <3>1. init'[l] = j
        BY <1>1, <2>1, <2>2 DEF Retry
      <3>2. i.attempt + 1 \in 1..MaxAttempts
        BY <1>3, <2>2
      <3>3. j \in InitRun /\ j.at = "connect" /\ j.phase = p /\ j.attempt = i.attempt + 1
        BY <1>1, <2>1, <3>2, RunIs
      <3> HIDE DEF j
      <3>4. StepsLeft(j) = r + PhaseSteps - (j.attempt - 1)
        BY <3>3, StepsLeftIs
      <3> QED BY <1>2, <1>3, <2>1, <3>1, <3>3, <3>4
    <2>3. CASE ~(i.attempt < MaxAttempts)
      <3> DEFINE j == [i EXCEPT !.at = "unreachable"]
      <3>1. init' = [init EXCEPT ![l] = j]
        BY <2>1, <2>3 DEF Retry
      <3>2. j \in InitRun /\ j.at \notin Running
        BY <1>1, RunIs DEF Running
      <3> HIDE DEF j
      <3> QED BY <1>4, <2>1, <3>1, <3>2 DEF Running
    <2> QED BY <2>2, <2>3
  <1>7. CASE Apply(l)
    <2> DEFINE j == [i EXCEPT !.left = Tail(@)]
    <2>1. i.at = "apply" /\ i.left # <<>> /\ init'[l] = j
      BY <1>1, <1>7 DEF Apply
    <2>2. Tail(i.left) \in Seq(Statement) /\ Len(Tail(i.left)) = Len(i.left) - 1
      BY <1>3, <2>1
    <2>3. j \in InitRun /\ j.at = "apply" /\ j.phase = p /\ j.left = Tail(i.left)
      BY <1>1, <2>1, <2>2, RunIs
    <2> HIDE DEF j
    <2>4. StepsLeft(j) = r + Len(Tail(i.left)) + 1
      BY <2>3, StepsLeftIs
    <2> QED BY <1>2, <1>3, <2>1, <2>2, <2>4
  <1>8. CASE Refuse(l) \/ StatementLost(l)
    <2>1. PICK at \in {"rejected", "lost"} :
                i.at = "apply" /\ init' = [init EXCEPT ![l] = [i EXCEPT !.at = at]]
      BY <1>1, <1>8 DEF Refuse, StatementLost
    <2> DEFINE j == [i EXCEPT !.at = at]
    <2>2. j \in InitRun /\ j.at \notin Running
      BY <1>1, RunIs DEF Running
    <2> HIDE DEF j
    <2> QED BY <1>4, <2>1, <2>2 DEF Running, j
  <1>9. CASE NextPhase(l)
    <2>1. i.at = "apply" /\ i.left = <<>>
      BY <1>9 DEF NextPhase
    <2>2. CASE p < 3
      <3> DEFINE j == [i EXCEPT !.at = "connect", !.phase = p + 1]
      <3>1. p < Len(Phases) /\ p + 1 \in 1..3
        BY <1>3, <2>2, PhasesAre
      <3>2. init'[l] = j
        BY <1>1, <1>9, <3>1 DEF NextPhase
      <3>3. j \in InitRun /\ j.at = "connect" /\ j.phase = p + 1 /\ j.attempt = i.attempt
        BY <1>1, <3>1, RunIs DEF Running
      <3> HIDE DEF j
      <3> DEFINE q == PhasesAhead(p + 1)
      <3>4. StepsLeft(j) = q + PhaseSteps - (i.attempt - 1) /\ q \in Nat
        BY <3>3, StepsLeftIs
      <3>5. r = q + PhaseSteps /\ r \in Nat /\ StepsLeft(i) = r + Len(i.left) + 1
        BY <1>2, <2>1, <2>2
      <3>6. PhaseSteps \in Nat /\ i.attempt \in Nat \ {0} /\ Len(i.left) = 0
        BY <1>2, <1>3, <2>1
      <3> HIDE DEF q
      <3> QED BY <3>2, <3>4, <3>5, <3>6
    <2>3. CASE p = 3
      <3> DEFINE j == [i EXCEPT !.at = "done"]
      <3>1. init' = [init EXCEPT ![l] = j]
        BY <1>9, <2>3, PhasesAre DEF NextPhase
      <3>2. j \in InitRun /\ j.at \notin Running
        BY <1>1, RunIs DEF Running
      <3> HIDE DEF j
      <3> QED BY <1>4, <2>1, <3>1, <3>2 DEF Running
    <2> QED BY <1>3, <2>2, <2>3
  <1> QED BY <1>5, <1>6, <1>7, <1>8, <1>9 DEF Step

\* A run of infra-init takes at most three times PhaseSteps steps, for any
\* number of attempts and whatever the databases and other runs do meanwhile.
THEOREM EveryStepNearsTheEnd == StartUpSpec => EveryStepCounts
  <1>1. ASSUME StartUpIInv, [StartUpNext]_startUpVars
        PROVE  [\A l \in Launcher : Step(l) =>
                    StepsLeft(init'[l]) < StepsLeft(init[l])]_startUpVars
    BY <1>1, StepCounts
  <1> QED BY <1>1, StartUpInvariance, PTL DEF StartUpSpec, EveryStepCounts
=============================================================================
