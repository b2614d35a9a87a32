SPECIFICATION MCSpec
CONSTANTS
  CommandLines <- MCAllCommandLines
  Sources <- MCEventTexts
  BufferSize = 5
  DESTBUFLEN = 2
  TapeMax = 5
  HEX_RECORD_MAX = 2
  Names = {"a", "b"}
  Tape = "t"
  FileSizes = {1, 5}
  Positions <- MCSeeks
  Addresses = {1, 2}
  CleanOnError = TRUE
  DiskFull = FALSE
  StackLimit = 3
  MaxBytes = 4
  Programs <- MCPrograms
  MaxIncludeLevel = 2
  SegmentWidth = 2
  DevicePrograms <- MCDevicePrograms
INVARIANT EveryErrorIsTold
INVARIANT SyntaxIsLexical
INVARIANT ListingIsTrue
INVARIANT OutputIsTrue
INVARIANT PlacesAreTrue
INVARIANT DevicesAreKept
CHECK_DEADLOCK FALSE
