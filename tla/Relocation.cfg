SPECIFICATION Spec
CONSTANTS
  WordRange = 128
  Lines <- ChangingLines
  MaxLines = 5
INVARIANT SilentTableHasAll
INVARIANT ThreePassesSuffice
