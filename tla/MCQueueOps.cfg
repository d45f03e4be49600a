\* Two calls at once on one job, in the default or another partition; calls may be cut off.
SPECIFICATION Spec
CONSTANTS
    j1 = j1 j2 = j2 w1 = w1 w2 = w2 t1 = t1 t2 = t2 t3 = t3 k1 = k1 k2 = k2
    None = None
    Jobs = {j1}
    Workers = {w1}
    Calls = {t1, t2}
    Checkers = {k1}
    PartitionNames = {"newer"}
    DefaultName = None
    Reported = {"success"}
    Scores <- OneScore
    HasCallback = TRUE
    Ops = {"claim", "cancel", "reclaim", "resolve", "wait", "orphan", "die"}
SYMMETRY Symmetry
INVARIANTS JobKeepsItsPlace NoJobLost NobodySleeps
PROPERTY ImplementsBoard
