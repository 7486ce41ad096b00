SPECIFICATION Spec
CONSTANTS
  Sets = {a, b, c}
  Privates <- MCPrivates
  Names <- MCNames
  Images = {"red", "blue"}
  Dirs <- MCDirs
  Content <- MCContent
  Generated <- MCGenerated
  None = None
  MaxIcons = 2
  MaxCounter = 2
PROPERTY RemovedIsGone
