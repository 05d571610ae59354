CONSTANTS
    Thread = {t1, t2, t3}
    Page = {1, 2}
    Writes = {{1}, {1, 2}}
    Setups <- LiveSetups
    Threshold = 3
    MaxCommits = 3
SPECIFICATION FairSpec
PROPERTY EveryoneReturns
CHECK_DEADLOCK FALSE
