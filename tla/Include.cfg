SPECIFICATION FairSpec
CONSTANTS
  SlotsCount = 3
  SlotSize = 2
  PagesCount = 4
  InitialPages <- InitialPages3
  AddressSpace = 6
  IsLongPtr = FALSE
  Lines <- IncludeLines
  Prelude <- DevicePrelude
  MaxLines = 4
PROPERTY ImplementsBankedMemory
PROPERTY Termination
