SPECIFICATION MemorySpec
CONSTANTS
  SlotsCount = 3
  SlotSize = 2
  PagesCount = 4
  InitialPages <- InitialPages3
  AddressSpace = 6
  IsLongPtr = FALSE
  Lines <- MemoryLines
  Prelude <- DevicePrelude
  MaxLines = 5
INVARIANT IInv
INVARIANT LabelsAreInPlace
INVARIANT PassesAgree
INVARIANT NoSilentLoss
