SPECIFICATION FairSpec
CONSTANTS
  NPanels = 5
  SPINOFFSET = 2
  Half = 42
  SPINRATE = 4
  AlphaSteps = 6
INVARIANTS
  TypeOK
  TimerWhileMoving
PROPERTIES
  FramesKeepOutcome
  CallsHonoured
  CallsSettle
