SPECIFICATION Spec
CONSTANTS
    Thread = {t1, t2, t3}
    Nobody = Nobody
    WalEngine = TRUE
    MaxDepth = 2
SYMMETRY Symmetry
INVARIANTS OneSurgeon
