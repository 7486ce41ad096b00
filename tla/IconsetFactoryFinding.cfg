SPECIFICATION Spec
CONSTANTS
  Iconsets <- MCIconsets
  Names <- MCNames
  Content <- MCContent
  Null = Null
INVARIANT FoundOrNull
