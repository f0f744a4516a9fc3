SPECIFICATION Spec
CONSTANTS
  short = short
  long = long
  broken = broken
  Contexts = {short, long, broken}
  WeeksOf <- Lengths
  Modes = {"profit", "inventory"}
  Nodes = {"none", "n1"}
  HalfSpeeds = {2, 4}
  BaseInterval = 2
  TimerIds = {1, 2, 3}
INVARIANTS
  PlayingHasATick
  ShownIsCurrent
PROPERTIES
  ImplementsReplayHead
  ReplayEnds
