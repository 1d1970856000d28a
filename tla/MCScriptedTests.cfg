SPECIFICATION Spec
CONSTANT Tests <- MCTests
INVARIANT CommandsAnswered
PROPERTIES
    WaitsSeeKills
    ScriptEnds
CHECK_DEADLOCK FALSE
