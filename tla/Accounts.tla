------------------------------- MODULE Accounts -------------------------------
(***************************************************************************)
(* Accounts, their key pairs and their devices: registration, login with   *)
(* the device records it leaves, replacement of the public key             *)
(* (auth_business.go, chat_business.go, postgres_store.go).  As everywhere *)
(* in the server a request is a goroutine that issues single statements    *)
(* outside any transaction.                                                *)
(*                                                                         *)
(* A key pair is one value that stands for either half; MASTER_KEY is set  *)
(* and stays the same, so that encrypting and decrypting the private half  *)
(* succeed.  A request refused by a check writes nothing and is no step.   *)
(***************************************************************************)
EXTENDS Naturals, FiniteSets

CONSTANTS
    User,       \* usernames: unique, they name the accounts
    Password,
    Device,     \* fingerprints of user agent and address
    KeyPair,    \* a bound on the pairs in use at the same time
    Handler,    \* the requests that may be in flight at the same time
    NoAccount

ASSUME NoAccountAssumption ==
    NoAccount \notin [password : Password, public : KeyPair, private : KeyPair]

VARIABLES
    account,        \* table users
    devices,        \* table user_devices, all of them active
    audits,         \* table user_device_changed: the rows about each device
    job,            \* what each in-flight request is doing
    loggedIn,       \* users somebody holds a token of
    registered,     \* history: registrations that were answered 200
    replaced,       \* history: public halves by which users replaced their own
    raced,          \* history: devices that two first logins saw absent together
    cutShort        \* history: devices whose first login failed after its insert

tables  == <<account, devices, audits>>
history == <<registered, replaced, raced, cutShort>>
vars    == <<tables, job, loggedIn, history>>

-----------------------------------------------------------------------------
Account == [password : Password, public : KeyPair, private : KeyPair]
Registration == [user : User, password : Password, keys : KeyPair]
OwnDevice == User \X Device

Idle == [at |-> "idle"]
Registering == [at : {"insertUser"}, user : User, password : Password, keys : KeyPair]
LoggingIn == [at : {"findDevice", "touchDevice", "insertDevice", "insertAudit", "answer"},
              user : User, device : Device, public : KeyPair, private : KeyPair]

TypeOK ==
    /\ account \in [User -> {NoAccount} \cup Account]
    /\ devices \subseteq OwnDevice
    /\ audits \in [OwnDevice -> Nat]
    /\ job \in [Handler -> {Idle} \cup Registering \cup LoggingIn]
    /\ loggedIn \subseteq User
    /\ registered \subseteq Registration
    /\ replaced \subseteq User \X KeyPair
    /\ raced \subseteq OwnDevice
    /\ cutShort \subseteq OwnDevice

Init ==
    /\ account = [u \in User |-> NoAccount]
    /\ devices = {}
    /\ audits = [d \in OwnDevice |-> 0]
    /\ job = [h \in Handler |-> Idle]
    /\ loggedIn = {}
    /\ registered = {}
    /\ replaced = {}
    /\ raced = {}
    /\ cutShort = {}

Goto(h, at) == job' = [job EXCEPT ![h].at = at]
Return(h)   == job' = [job EXCEPT ![h] = Idle]

\* The pairs that a newly generated one differs from.
KeysInUse ==
    LET known == {account[u] : u \in User} \ {NoAccount}
        busy == {job[h] : h \in Handler} IN
    {a.public : a \in known} \cup {a.private : a \in known}
        \cup {j.keys : j \in busy \cap Registering}

-----------------------------------------------------------------------------
(* POST /auth/register: the pair is generated and the password hashed, then *)
(* one INSERT, which fails when the username is taken.                      *)
Register(h, u, p) ==
    /\ job[h] = Idle
    /\ \E k \in KeyPair \ KeysInUse :
        job' = [job EXCEPT ![h] = [at |-> "insertUser", user |-> u,
                                   password |-> p, keys |-> k]]
    /\ UNCHANGED <<tables, loggedIn, history>>

\* Mutant: the insert updates the row of a taken username.
CreateUser_Upsert(h) ==
    LET j == job[h] IN
    /\ j.at = "insertUser"
    /\ account' = [account EXCEPT ![j.user] =
            [password |-> j.password, public |-> j.keys, private |-> j.keys]]
    /\ registered' = registered \cup
            {[user |-> j.user, password |-> j.password, keys |-> j.keys]}
    /\ Return(h)
    /\ UNCHANGED <<devices, audits, loggedIn, replaced, raced, cutShort>>

CreateUser(h) ==
    LET j == job[h] IN
    /\ j.at = "insertUser"
    /\ account[j.user] = NoAccount
    /\ account' = [account EXCEPT ![j.user] =
            [password |-> j.password, public |-> j.keys, private |-> j.keys]]
    /\ registered' = registered \cup
            {[user |-> j.user, password |-> j.password, keys |-> j.keys]}
    /\ Return(h)
    /\ UNCHANGED <<devices, audits, loggedIn, replaced, raced, cutShort>>

-----------------------------------------------------------------------------
(* POST /auth/login: one read of the user's row, from which both halves of  *)
(* the answer are taken, then the records about the device.                 *)
Login(h, u, p, d) ==
    /\ job[h] = Idle
    /\ account[u] # NoAccount
    /\ account[u].password = p
    /\ job' = [job EXCEPT ![h] = [at |-> "findDevice", user |-> u, device |-> d,
                    public |-> account[u].public, private |-> account[u].private]]
    /\ UNCHANGED <<tables, loggedIn, history>>

OwnDeviceOf(j) == <<j.user, j.device>>

\* Requests about to insert the same device: each saw it absent.
AlsoInserting(h) ==
    {g \in Handler \ {h} : job[g].at = "insertDevice" /\ OwnDeviceOf(job[g]) = OwnDeviceOf(job[h])}

\* Mutant: asks for a status that no row has.
HasActiveUserDevice_WrongStatus(h) ==
    /\ job[h].at = "findDevice"
    /\ Goto(h, "insertDevice")
    /\ raced' = IF AlsoInserting(h) # {} THEN raced \cup {OwnDeviceOf(job[h])} ELSE raced
    /\ UNCHANGED <<tables, loggedIn, registered, replaced, cutShort>>

HasActiveUserDevice(h) ==
    LET known == OwnDeviceOf(job[h]) \in devices IN
    /\ job[h].at = "findDevice"
    /\ Goto(h, IF known THEN "touchDevice" ELSE "insertDevice")
    /\ raced' = IF ~known /\ AlsoInserting(h) # {}
                THEN raced \cup {OwnDeviceOf(job[h])} ELSE raced
    /\ UNCHANGED <<tables, loggedIn, registered, replaced, cutShort>>

\* last_login itself is left out.
UpdateUserDeviceLastLogin(h) ==
    /\ job[h].at = "touchDevice"
    /\ Goto(h, "answer")
    /\ UNCHANGED <<tables, loggedIn, history>>

\* Mutant: ON CONFLICT DO NOTHING.
InsertUserDevice_IgnoreConflict(h) ==
    /\ job[h].at = "insertDevice"
    /\ devices' = devices \cup {OwnDeviceOf(job[h])}
    /\ Goto(h, "insertAudit")
    /\ UNCHANGED <<account, audits, loggedIn, history>>

\* A device that is there meanwhile violates the unique constraint: the login
\* fails (StatementFails).
InsertUserDevice(h) ==
    /\ job[h].at = "insertDevice"
    /\ OwnDeviceOf(job[h]) \notin devices
    /\ devices' = devices \cup {OwnDeviceOf(job[h])}
    /\ Goto(h, "insertAudit")
    /\ UNCHANGED <<account, audits, loggedIn, history>>

InsertUserDeviceChanged(h) ==
    /\ job[h].at = "insertAudit"
    /\ audits' = [audits EXCEPT ![OwnDeviceOf(job[h])] = @ + 1]
    /\ Goto(h, "answer")
    /\ UNCHANGED <<account, devices, loggedIn, history>>

\* The token and both halves of the key pair reach the client.
AnswerLogin(h) ==
    /\ job[h].at = "answer"
    /\ loggedIn' = loggedIn \cup {job[h].user}
    /\ Return(h)
    /\ UNCHANGED <<tables, history>>

-----------------------------------------------------------------------------
\* Mutant: the empty key is not refused.
UpdateUserPublicKey_Empty(u, k) ==
    /\ u \in loggedIn
    /\ account' = [account EXCEPT ![u].public = ""]
    /\ replaced' = replaced \cup {<<u, k>>}
    /\ UNCHANGED <<devices, audits, job, loggedIn, registered, raced, cutShort>>

\* PUT /users/me/public-key: any non-empty text, for the holder of a token.
\* The private half that logins return stays.
UpdateUserPublicKey(u, k) ==
    /\ u \in loggedIn
    /\ account' = [account EXCEPT ![u].public = k]
    /\ replaced' = replaced \cup {<<u, k>>}
    /\ UNCHANGED <<devices, audits, job, loggedIn, registered, raced, cutShort>>

\* A statement fails, the client goes away or the server stops: the request
\* is answered with an error, if at all, and undoes nothing.
StatementFails(h) ==
    LET j == job[h] IN
    /\ j # Idle
    /\ Return(h)
    /\ cutShort' = IF j.at = "insertAudit" THEN cutShort \cup {OwnDeviceOf(j)} ELSE cutShort
    /\ UNCHANGED <<tables, loggedIn, registered, replaced, raced>>

-----------------------------------------------------------------------------
Start(h) == \E u \in User, p \in Password :
    \/ Register(h, u, p)
    \/ \E d \in Device : Login(h, u, p, d)

Continue(h) ==
    \/ CreateUser(h)
    \/ HasActiveUserDevice(h) \/ UpdateUserDeviceLastLogin(h)
    \/ InsertUserDevice(h) \/ InsertUserDeviceChanged(h) \/ AnswerLogin(h)
    \/ StatementFails(h)

Next ==
    \/ \E h \in Handler : Start(h) \/ Continue(h)
    \/ \E u \in User, k \in KeyPair : UpdateUserPublicKey(u, k)

Spec == Init /\ [][Next]_vars

-----------------------------------------------------------------------------
(***************************************************************************)
(* Safety                                                                  *)
(***************************************************************************)

\* The public half that was registered and those that replaced it.
PublicHalves(r) == {r.keys} \cup {k \in KeyPair : <<r.user, k>> \in replaced}

\* Who was told "user registered successfully" owns the account for good:
\* the password works, every login returns the private half of that answer,
\* whoever else tried the same username.  The public half beside it is that of
\* the registration, or one that a holder of this user's token put there: the
\* two may not belong together (nothing asks for a private half when a public
\* one is replaced), but the half of another account is never among them.
RegistrationStands ==
    \A r \in registered :
        /\ account[r.user] # NoAccount
        /\ account[r.user].password = r.password
        /\ \A h \in Handler : (job[h].at = "answer" /\ job[h].user = r.user) =>
            /\ job[h].private = r.keys
            /\ job[h].public \in PublicHalves(r)

\* However many first logins race, a device is in the audit exactly once, by
\* the login that inserted it, as soon as that login got there; only a login
\* that failed right after its insert leaves a device without its row.
DevicesAreAuditedOnce ==
    \A d \in OwnDevice :
        LET auditing == {h \in Handler : job[h].at = "insertAudit" /\ OwnDeviceOf(job[h]) = d} IN
        audits[d] + Cardinality(auditing) = IF d \in devices \ cutShort THEN 1 ELSE 0

\* The insert of a device meets the unique constraint, and a login with the
\* right password is refused for it, only when two first logins raced.
ConflictOnlyWhenRaced ==
    \A h \in Handler :
        (job[h].at = "insertDevice" /\ OwnDeviceOf(job[h]) \in devices)
            => OwnDeviceOf(job[h]) \in raced

=============================================================================
