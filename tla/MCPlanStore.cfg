SPECIFICATION Spec
CONSTANTS
  pA = pA
  pB = pB
  NoCsv = NoCsv
  None = None
  Scenarios = {"base", "alt"}
  Pairs = {pA, pB}
  IsoWeeks <- Weeks3
  SafetyWeeks <- Safety
  Csvs <- Files
  Commands <- CommandLines
INVARIANTS
  CompletedRunIsCurrent
PROPERTIES
  SliceIsWhole
  RerunChangesNothing
