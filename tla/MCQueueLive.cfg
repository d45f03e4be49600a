\* A lobby that stays up, and workers that lose what they can lose.
SPECIFICATION LiveSpec
CONSTANTS
    j1 = j1 j2 = j2 w1 = w1 w2 = w2 t1 = t1 t2 = t2 t3 = t3 k1 = k1 k2 = k2
    None = None
    Jobs = {j1}
    Workers = {w1}
    Calls = {t1, t2}
    Checkers = {k1}
    PartitionNames = {}
    DefaultName = None
    Scores <- OneScore
    HasCallback = FALSE
    Ops = {"claim", "cancel", "reclaim", "resolve", "wait", "orphan"}
    Reported = {"success"}
    LoopJobs = {j1, j2}
    LoopWorkers = {w1, w2}
    Misplaced = {j2}
    MaxLosses = 2
    MaxSlow = 1
    MaxCrashes = 1
    MaxDeaths = 1
PROPERTIES StaleClaimGoes CallsReturn WorkersServe
