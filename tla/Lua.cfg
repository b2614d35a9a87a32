SPECIFICATION MCSpec
CONSTANTS
  N = 6
  GCSWEEPMAX = 1
  Heaps <- MCHeaps
  KeySets <- MCKeySets
  Values = {1}
  LIMFORLAST = 2
  MAXABITS = 3
  LUA_MAXINTEGER = 3
  Seeds = {0, 3}
  Sizes <- MCSizes
  Pool <- MCPool
  Subjects <- MCSubjects
  Replacements <- MCRepl
  LUA_MAXCAPTURES = 3
  MAXCCALLS = 12
  W = 5
  NBM = 3
  Exponents = {0, 1, 2, 3, 4, 5}
  ForValues <- MCForValues
  NumericOperands <- MCNumericOperands
  Arrays <- MCArrays
  RANLIMIT = 4
  Imbalance = 1
  NB = 1
  SZINT = 4
  MAXINTSIZE = 8
  SizeOf <- MCSizeOf
  NativeAlign = 4
  MAX_SIZE = 12
  Formats <- MCFormats
  PackInts <- MCPackInts
  PackStrings <- MCPackStrings
  PackData <- MCPackData
INVARIANT NoDangling
INVARIANT FullCollectionIsExact
PROPERTY OnlyGarbageIsFinalized
INVARIANT TablesAreMaps
INVARIANT LibraryKeepsItsWord
INVARIANT NumbersAreExact
CHECK_DEADLOCK FALSE
