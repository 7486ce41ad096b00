SPECIFICATION OptionsSpec
CONSTANTS
  Names <- MCPlainNames
  Values = {"u"}
  Invalid = "invalid"
  None = "none"
PROPERTY OptionsRestored
