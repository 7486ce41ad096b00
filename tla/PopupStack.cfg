SPECIFICATION FairSpec
CONSTANTS
  MaxPopups = 3
  Heights <- MCHeights
  Radius = 1
  AnimSpeed = 2
  DesktopBottom = 0
INVARIANTS
  TypeOK
  StackConsistent
  StackAbuts
  SlidingOK
  SignalsOK
PROPERTIES
  FreedReadInBetween
  NoComeback
  PopupGoesAway
CHECK_DEADLOCK FALSE
