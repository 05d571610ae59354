CONSTANTS
    Thread = {t1, t2, t3}
    Page = {1, 2}
    Writes = {{1}, {1, 2}}
    Setups <- SafetySetups
    Threshold = 3
    MaxCommits = 4
SPECIFICATION Spec
SYMMETRY Sym
INVARIANTS TypeOK AckedSurvive PowerConsistent SleepersHaveLeader
CHECK_DEADLOCK FALSE
