\* A generation is cancelled and started again.
SPECIFICATION Spec
CONSTANTS
  Jobs = {j1, j2}
  Versions = {v1, v2}
  FirstVersion = v1
  Requests = {r1}
  Kinds = {"start", "cancel"}
  Failures = FALSE
  None = None
INVARIANT DoneHasOutput
CHECK_DEADLOCK FALSE
