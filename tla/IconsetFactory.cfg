SPECIFICATION Spec
CONSTANTS
  Iconsets <- MCIconsets
  Names <- MCNames
  Content <- MCContent
  Null = Null
INVARIANTS
  TypeOK
  NoDangling
  LookupComplete
PROPERTY IsRegistry
