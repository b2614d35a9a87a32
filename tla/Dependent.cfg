SPECIFICATION Spec
CONSTANTS
  Labels = {"a", "b", "c"}
  Lines <- DependentLines
  MaxLines = 4
INVARIANT ReadsAreTrue
INVARIANT SettledRepeats
