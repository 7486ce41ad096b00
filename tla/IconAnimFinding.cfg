SPECIFICATION Spec
CONSTANTS
  Handles = {h1, h2, h3}
  Privates = {1, 2, 3}
  Anims <- MCAnims
  None = None
  NumFrames = 2
  Looping <- MCLooping
  Garbage <- MCGarbage
  MaxShown = 1
  MaxCount = 3
INVARIANT PairedCallsSuffice
