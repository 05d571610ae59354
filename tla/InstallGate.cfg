SPECIFICATION FairSpec
CONSTANTS
    Main = {t1, t2}
    Worker = {w1}
    NoThread = NoThread
    MaxDepth = 2
INVARIANTS TypeOK Exclusion NoLostWakeup NothingLeaks
PROPERTY WriterGetsIn
