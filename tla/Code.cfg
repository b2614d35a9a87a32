SPECIFICATION MCSpec
CONSTANTS
  Sources <- MCSources
  Modes <- MCModes
  Org <- MCOrg
  StructPrograms <- MCStructPrograms
  STRUCT_LASTPASS = 3
  TEXT_MAX_SIZE = 8
  SymbolPrograms <- MCSymbolPrograms
  LASTPASS = 3
  ExportSources <- MCExportSources
  Memories <- MCMemories
  MaxBreakpoints = 2
INVARIANT InstructionsAreMeant
INVARIANT InstancesAreMeant
INVARIANT LabelsMeetFields
INVARIANT NamesAreMeant
INVARIANT SizeofIsDistance
INVARIANT TempRefsAgree
INVARIANT ListsTellTheSource
CHECK_DEADLOCK FALSE
