\* One room is hosted and given an alternative name; apx stops and starts again.
SPECIFICATION Spec
CONSTANTS
  None = None
  Rooms = {r1}
  Slots = {s1}
  Switches = {}
  MinId = 1
  MaxId = 2
  Taken = {{}}
  Requests = {q1}
  MaxInst = 1
  MaxOps = 2
  MaxCrashes = 1
  MaxDeaths = 0
  Edits = {"alt"}
INVARIANT AltNamesReset
CHECK_DEADLOCK FALSE
