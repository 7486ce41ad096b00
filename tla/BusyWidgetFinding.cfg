SPECIFICATION FairSpec
CONSTANTS
  NPanels = 4
  SPINOFFSET = 2
  Half = 17
  SPINRATE = 2
  AlphaSteps = 4
PROPERTY StopComesToRest
