------------------------------- MODULE InfraInit -------------------------------
(***************************************************************************)
(* Bringing the system up: infra-init (cmd/infra-init/main.go) applies the *)
(* migrations to Postgres and then to Scylla, statement by statement, and  *)
(* the chat server (cmd/chat/main.go) connects to both before it serves.   *)
(* docker-compose starts infra-init once the databases are healthy, and    *)
(* the server once infra-init has succeeded; either can also be started by *)
(* hand (make init, make run), at any moment and next to the other.        *)
(*                                                                         *)
(* Either database may become unreachable or reachable between two steps,  *)
(* and a statement may be applied although its answer is lost.  Statements *)
(* are kept as what they make and what they need; those that create        *)
(* neither a table others need nor a column are left out.                  *)
(***************************************************************************)
EXTENDS Naturals, Sequences, SequencesExt

CONSTANTS
    MaxAttempts     \* 15 in both programs

ASSUME InfraInitAssumption == MaxAttempts \in Nat \ {0}

Launcher == {"compose", "hand"}
Database == {"postgres", "scylla"}

VARIABLES
    reachable,      \* databases that answer
    schema,         \* what the migrations have made so far
    init,           \* the latest run of infra-init of each launcher
    server          \* the chat server

startUpVars == <<reachable, schema, init, server>>

-----------------------------------------------------------------------------
(* The migration files.  "create" is CREATE ... IF NOT EXISTS, "use" makes  *)
(* nothing; "alter" is refused when the column is there.                    *)
Create(made, needed) == [kind |-> "create", makes |-> {made}, needs |-> needed]
SqlFiles == <<
    << Create("users", {}), Create("friendships", {"users"}) >>,
    << Create("groups", {"users"}), Create("group_members", {"users", "groups"}) >> >>

Use == [kind |-> "use", makes |-> {}, needs |-> {"keyspace"}]
CqlFiles == <<
    << [kind |-> "keyspace", makes |-> {"keyspace"}, needs |-> {}],
       Use, Create("messages", {"keyspace"}) >>,
    << Use, [kind |-> "alter", makes |-> {"group_id"}, needs |-> {"messages"}] >> >>

Statement == UNION {ToSet(file) : file \in ToSet(SqlFiles \o CqlFiles)}
Everything == UNION {s.makes : s \in Statement}
Complete == schema = Everything

\* Mutant: the files as the directory happens to list them.
ListMigrationFiles_Unsorted(files) == FlattenSeq(Reverse(files))

ListMigrationFiles(files) == FlattenSeq(files)

\* Of the same files the first pass takes the keyspaces, the second the rest.
Taken(s, onlyKeyspace) ==
    IF s.kind # "use" /\ (s.kind = "keyspace") = onlyKeyspace THEN <<s>> ELSE <<>>

RunCQLMigration(file, onlyKeyspace) ==
    FlattenSeq([i \in DOMAIN file |-> Taken(file[i], onlyKeyspace)])

CqlPass(onlyKeyspace) ==
    ListMigrationFiles([i \in DOMAIN CqlFiles |-> RunCQLMigration(CqlFiles[i], onlyKeyspace)])

Phases == <<
    [db |-> "postgres", keyspace |-> {}, statements |-> ListMigrationFiles(SqlFiles)],
    [db |-> "scylla", keyspace |-> {}, statements |-> CqlPass(TRUE)],
    [db |-> "scylla", keyspace |-> {"keyspace"}, statements |-> CqlPass(FALSE)] >>

-----------------------------------------------------------------------------
Running == {"connect", "apply"}
InitRun == [at : Running \cup {"idle", "done", "unreachable", "rejected", "lost"},
            phase : DOMAIN Phases, attempt : 1..MaxAttempts, left : Seq(Statement)]
Server == [at : {"down", "postgres", "scylla", "serving", "dead"},
           by : Launcher, attempt : 1..MaxAttempts]

StartUpTypeOK ==
    /\ reachable \subseteq Database
    /\ schema \subseteq Everything
    /\ init \in [Launcher -> InitRun]
    /\ server \in Server

Fresh == [at |-> "idle", phase |-> 1, attempt |-> 1, left |-> <<>>]
Down == [at |-> "down", by |-> "compose", attempt |-> 1]

StartUpInit ==
    /\ reachable = {}
    /\ schema = {}
    /\ init = [l \in Launcher |-> Fresh]
    /\ server = Down

-----------------------------------------------------------------------------
(***************************************************************************)
(* infra-init                                                              *)
(***************************************************************************)

\* make up and make init.  Compose waits for healthy databases, and runs the
\* container again each time.
Launch(l) ==
    /\ init[l].at \notin Running
    /\ l = "compose" => reachable = Database
    /\ init' = [init EXCEPT ![l] = [Fresh EXCEPT !.at = "connect"]]
    /\ UNCHANGED <<reachable, schema, server>>

\* A session opens if the database answers and the session's keyspace exists.
Opens(db, keyspace) == db \in reachable /\ keyspace \subseteq schema

Connect(l) ==
    LET phase == Phases[init[l].phase] IN
    /\ init[l].at = "connect"
    /\ Opens(phase.db, phase.keyspace)
    /\ init' = [init EXCEPT ![l].at = "apply", ![l].attempt = 1, ![l].left = phase.statements]
    /\ UNCHANGED <<reachable, schema, server>>

\* Mutant: tries for ever.
Retry_ForEver(j, end) == [j EXCEPT !.attempt = (@ % MaxAttempts) + 1]

\* After a pause; the last attempt ends the program (log.Fatalf).
Retry(j, end) ==
    IF j.attempt < MaxAttempts THEN [j EXCEPT !.attempt = @ + 1] ELSE [j EXCEPT !.at = end]

ConnectFails(l) ==
    LET phase == Phases[init[l].phase] IN
    /\ init[l].at = "connect"
    /\ ~Opens(phase.db, phase.keyspace)
    /\ init' = [init EXCEPT ![l] = Retry(@, "unreachable")]
    /\ UNCHANGED <<reachable, schema, server>>

\* What the database does with a statement.
Accepts(s) == s.needs \subseteq schema /\ (s.kind = "alter" => schema \cap s.makes = {})

Apply(l) ==
    LET j == init[l] IN
    /\ j.at = "apply" /\ j.left # <<>>
    /\ Phases[j.phase].db \in reachable
    /\ Accepts(Head(j.left))
    /\ schema' = schema \cup Head(j.left).makes
    /\ init' = [init EXCEPT ![l].left = Tail(@)]
    /\ UNCHANGED <<reachable, server>>

\* log.Fatalf at the first statement that is refused.
Refuse(l) ==
    LET j == init[l] IN
    /\ j.at = "apply" /\ j.left # <<>>
    /\ Phases[j.phase].db \in reachable
    /\ ~Accepts(Head(j.left))
    /\ init' = [init EXCEPT ![l].at = "rejected"]
    /\ UNCHANGED <<reachable, schema, server>>

\* Mutant: the error is logged and the next statement is tried.
StatementLost_Skipped(l) ==
    LET j == init[l] IN
    /\ j.at = "apply" /\ j.left # <<>>
    /\ schema' \in {schema} \cup IF Accepts(Head(j.left)) THEN {schema \cup Head(j.left).makes} ELSE {}
    /\ init' = [init EXCEPT ![l].left = Tail(@)]
    /\ UNCHANGED <<reachable, server>>

\* The connection breaks or times out: an error, whether or not the statement
\* was applied.
StatementLost(l) ==
    LET j == init[l] IN
    /\ j.at = "apply" /\ j.left # <<>>
    /\ schema' \in {schema} \cup IF Accepts(Head(j.left)) THEN {schema \cup Head(j.left).makes} ELSE {}
    /\ init' = [init EXCEPT ![l].at = "lost"]
    /\ UNCHANGED <<reachable, server>>

NextPhase(l) ==
    LET j == init[l] IN
    /\ j.at = "apply" /\ j.left = <<>>
    /\ init' = [init EXCEPT ![l] = IF j.phase < Len(Phases)
                                   THEN [j EXCEPT !.at = "connect", !.phase = j.phase + 1]
                                   ELSE [j EXCEPT !.at = "done"]]
    /\ UNCHANGED <<reachable, schema, server>>

-----------------------------------------------------------------------------
(***************************************************************************)
(* The chat server                                                         *)
(***************************************************************************)

\* Compose waits for infra-init to have succeeded.
StartServer(by) ==
    /\ server.at \in {"down", "dead"}
    /\ by = "compose" => reachable = Database /\ init["compose"].at = "done"
    /\ server' = [at |-> "postgres", by |-> by, attempt |-> 1]
    /\ UNCHANGED <<reachable, schema, init>>

\* Postgres is tried once.
ConnectPostgres ==
    /\ server.at = "postgres"
    /\ server' = [server EXCEPT !.at = IF Opens("postgres", {}) THEN "scylla" ELSE "dead"]
    /\ UNCHANGED <<reachable, schema, init>>

ConnectScylla ==
    /\ server.at = "scylla"
    /\ server' = IF Opens("scylla", {"keyspace"}) THEN [server EXCEPT !.at = "serving"]
                                                  ELSE Retry(server, "dead")
    /\ UNCHANGED <<reachable, schema, init>>

-----------------------------------------------------------------------------
(***************************************************************************)
(* Around them                                                             *)
(***************************************************************************)

Outage(db) ==
    /\ reachable' = (reachable \ {db}) \cup ({db} \ reachable)
    /\ UNCHANGED <<schema, init, server>>

\* Any of the processes may be killed.
Kill ==
    /\ \/ \E l \in Launcher :
            /\ init[l].at \in Running
            /\ init' = [init EXCEPT ![l].at = "lost"]
            /\ UNCHANGED server
       \/ server.at # "down" /\ server' = Down /\ UNCHANGED init
    /\ UNCHANGED <<reachable, schema>>

\* make down: the containers go, and the volumes with them.  Nobody does so
\* under a program started by hand.
MakeDown ==
    /\ init["hand"].at \notin Running
    /\ server.by = "hand" => server.at \in {"down", "dead"}
    /\ reachable' = {}
    /\ schema' = {}
    /\ init' = [l \in Launcher |-> Fresh]
    /\ server' = Down

Step(l) == Connect(l) \/ ConnectFails(l) \/ Apply(l) \/ Refuse(l) \/ StatementLost(l) \/ NextPhase(l)

StartUpNext ==
    \/ \E l \in Launcher : Launch(l) \/ Step(l) \/ StartServer(l)
    \/ ConnectPostgres \/ ConnectScylla
    \/ \E db \in Database : Outage(db)
    \/ Kill \/ MakeDown

\* Attempts are a fixed pause apart and statements have a timeout, so a run
\* that is not killed takes its next step.
Fairness == \A l \in Launcher : WF_startUpVars(Step(l))

StartUpSpec == StartUpInit /\ [][StartUpNext]_startUpVars /\ Fairness

-----------------------------------------------------------------------------
\* The one statement that cannot be repeated comes last: a run that the
\* database refuses finds nothing left to do, whatever another run beside it
\* did and wherever earlier ones were cut off.
RefusedOnlyWhenComplete == \A l \in Launcher : init[l].at = "rejected" => Complete

\* Compose never puts the server on a schema that lacks anything; one started
\* by hand has at least its keyspace.
ServedSchemaIsComplete ==
    server.at \in {"postgres", "scylla", "serving"} =>
        IF server.by = "compose" THEN Complete
        ELSE server.at = "serving" => "keyspace" \in schema

\* The steps a run can still take: the attempts, the statements and the end of
\* each phase ahead (no phase has more statements than the first).
PhaseSteps == MaxAttempts + Len(Phases[1].statements) + 1
StepsLeft(j) ==
    CASE j.at = "connect" -> (Len(Phases) + 1 - j.phase) * PhaseSteps - (j.attempt - 1)
      [] j.at = "apply" -> (Len(Phases) - j.phase) * PhaseSteps + Len(j.left) + 1
      [] OTHER -> 0

\* Whatever the databases do, every step brings a run nearer to its end: there
\* are at most Len(Phases) * PhaseSteps of them in a run.
EveryStepCounts ==
    [][\A l \in Launcher : Step(l) =>
            StepsLeft(init'[l]) < StepsLeft(init[l])]_startUpVars

\* Attempts are bounded and no statement waits for ever: every run of
\* infra-init comes to its end, even if the databases come and go.
EveryRunEnds == \A l \in Launcher : init[l].at \in Running ~> init[l].at \notin Running
=============================================================================
