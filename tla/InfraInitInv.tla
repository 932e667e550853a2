----------------------------- MODULE InfraInitInv -----------------------------
(***************************************************************************)
(* The inductive invariant of InfraInit: how far a run has come tells what *)
(* the schema has, whatever other runs did meanwhile or left half done.    *)
(***************************************************************************)
EXTENDS InfraInit

Statements(phase) == Phases[phase].statements

\* The statement of its phase that a run comes to next.
Position(j) == IF j.at = "apply" THEN Len(Statements(j.phase)) + 1 - Len(j.left) ELSE 1

\* What a phase makes from its n-th statement on, and all that is made from there.
Made(phase, n) == UNION {Statements(phase)[i].makes : i \in n..Len(Statements(phase))}

Ahead(phase, n) == Made(phase, n) \cup UNION {Made(p, 1) : p \in (phase + 1)..Len(Phases)}

\* What a run has left are the last statements of its phase.
LeftFits(j) ==
    LET all == Statements(j.phase) IN
    j.at = "apply" =>
        /\ Position(j) \in 1..(Len(all) + 1)
        /\ j.left = SubSeq(all, Position(j), Len(all))

LeftFitsPhase == \A l \in Launcher : LeftFits(init[l])

\* It has everything behind it, its own work or another's.
BehindIsMade ==
    \A l \in Launcher : init[l].at \in Running =>
        Everything \ Ahead(init[l].phase, Position(init[l])) \subseteq schema

\* The column is the last thing made, by whichever run came first.
ColumnIsLast == "group_id" \in schema => Complete

DoneIsComplete == \A l \in Launcher : init[l].at = "done" => Complete

StartUpIInv ==
    /\ StartUpTypeOK
    /\ LeftFitsPhase
    /\ BehindIsMade
    /\ ColumnIsLast
    /\ DoneIsComplete
    /\ RefusedOnlyWhenComplete
    /\ ServedSchemaIsComplete
=============================================================================
