CONSTANT MaxAttempts = 2
SPECIFICATION StartUpSpec
INVARIANTS
    RefusedOnlyWhenComplete
    ServedSchemaIsComplete
PROPERTIES
    EveryStepCounts
    EveryRunEnds
