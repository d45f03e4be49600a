\* p1 serves refreshes, q1 follows; restarts, failures and a rewritten branch.
CONSTANTS
  p1 = p1 q1 = q1 c1 = c1 c2 = c2 c3 = c3
  Processes = {p1, q1}
  Commits = {c1, c2, c3}
  History <- Rewritten
  FirstCommit = c1
  Refreshers = {p1}
  Failures = TRUE
  MaxRestarts = 1
  MaxRefreshes = 1
  None = None
SPECIFICATION FairSpec
INVARIANTS SeenIsLoaded IndexIsOfItsCommit
PROPERTY Converges
