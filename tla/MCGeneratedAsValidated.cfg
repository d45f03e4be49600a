SPECIFICATION Spec
CONSTANTS
  None = None
  Unset = Unset
  Numerals <- SomeNumerals
  Jsons <- SomeJsons
  Randoms = {"random", "random-low"}
  MaxIterations = 5
INVARIANT GeneratedAsValidated
CHECK_DEADLOCK FALSE
