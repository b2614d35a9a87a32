SPECIFICATION ImagesSpec
CONSTANTS
  MAX_BANK = 10
  NonZero = {2, 0, 7, 8}
  BankArgs = {2, 8}
  Places <- MCPlaces
  Bitmaps <- MCBitmaps
  Appendices = {"none", "data"}
  MaxCommands = 4
  SECTOR_SZ = 2
  SECTORS_PER_TRACK = 3
  FreeTracks = 3
  NUM_OF_FILES_MAX = 4
  MaxSectors = 4
  AutostartSize = 1
  TrdNames <- MCNames
  TrdMemory = 7
  TrdStarts = {1, 3}
  SaveLengths = {0, 2, 5}
  MaxSaves = 4
  PageSize = 3
  SlotsCount = 3
  PagesCount = 4
  HEX_RECORD_MAX = 2
  ChunkLen = 2
  BlockSize = 3
  SectorSize = 2
  Starts <- MCStarts
  Lengths <- MCLengths
  Params <- MCParams
  Mappings <- MCMappings
  MaxBlocks = 2
  P = 4
  Base = 4
  Pixels = 1
  Screen = 2
  Data = 3
  Attribute = 2
  STACK <- MCStack
  RamTops <- MCRamTops
  Devices = {"ZX48", "ZX128", "CPC464", "CPC6128", "PLUS"}
  Pokes <- MCPokes
  Sizes = {3, 8}
  MaxPokes = 2
INVARIANT LoaderReadsBack
INVARIANT TrdReadsBack
INVARIANT SavedReadsBack
INVARIANT SnapshotRestores
CHECK_DEADLOCK FALSE
