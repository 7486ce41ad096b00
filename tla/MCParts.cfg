SPECIFICATION MCPartsSpec
CONSTANTS
  s1 = s1  s2 = s2  i1 = i1  i2 = i2  i3 = i3
  IconSets = {s1, s2}
  IconOrder <- MCIconOrder
  Labels = {l}
  Buttons = {b}
  Texts = {t}
  Rows = {r1, r2}
  Display = display
  Menu = menu
  NoSet = NoSet
  displayNumIcons = 1
  MenuRoom = 2
  w1 = w1  w2 = w2
  Others = {w1, w2}
  OtherGeo <- MCOtherGeo
  Desktop = desktop
  Screen <- MCScreen
  Proposals <- MCProposals
  StickAts = {0, 2}
  Flashes = 5
  Names <- MCOptionNames
  Values = {"u", "v"}
  Invalid = "invalid"
  None = "none"
  Objects = {x, y, z}
  Storage = {1, 2, 3}
  Contents = {"blank", "form"}
  Blank = "blank"
  Nowhere = Nowhere
  Forms <- MCForms
  Typed = {"", "a", "b"}
  Wording = {"", "a", "b", "c", "v", "info", "1", "no", "true", "false"}
  NoField = NoField
  Strings <- MCStrings
  Resources <- MCResources
  Upper = 2
  HostUpper = 3
  Cards <- MCCards
  CardTexts = {"", "a", "b", "c", "bytes", "mangled"}
  CardEntries <- MCCardEntries
  NoElement = NoElement
  AgentDepth = 2
  MaxEntries = 2
INVARIANTS
  PartsTypeOK
  ActivationsPaired
  ShownAreAlive
  HiddenMenuRests
  StaleWhileTimed
  XDataAlive
  ReadsBack
PROPERTIES
  FlushOrAsAsked
  FlashEnds
  OptionsSurvive
  XDataApart
  UntouchedIsKept
  ChosenIsTaken
  RereadAnswersAlike
CHECK_DEADLOCK FALSE
