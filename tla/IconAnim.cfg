SPECIFICATION FairSpec
CONSTANTS
  Handles = {h1, h2}
  Privates = {1, 2}
  Anims <- MCAnims
  None = None
  NumFrames = 2
  Looping <- MCLooping
  Garbage <- MCGarbage
  MaxShown = 2
  MaxCount = 3
INVARIANT TypeOK
PROPERTIES
  KeepsPlaying
  FiniteEnds
