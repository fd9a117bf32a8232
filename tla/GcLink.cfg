SPECIFICATION Spec
CONSTANTS
  Group <- LinkGroup
  Synthetic = "syn"
  Section <- LinkSection
  Symbol <- LinkSymbol
  OutputSection = {"set", "text"}
  Address = {0, 8}
  None = None
  SectionGroup <- LinkSectionGroup
  InitialSlot <- LinkSlot
  SectionOutput <- LinkSectionOutput
  SymbolGroup <- LinkSymbolGroup
  SymbolKind <- LinkSymbolKind
  SymbolSection <- LinkSymbolSection
  SymbolOutput <- LinkSymbolOutput
  SymbolAddress <- LinkSymbolAddress
  WeakSymbols = {"w"}
  Relocations <- LinkRelocations
  FrameRelocations <- LinkFrames
  RootSections <- LinkRootSections
  RootReferences <- LinkRootReferences
  Exports <- LinkExports
  ExportRequests <- LinkExportRequests
  Exportable = {"main", "f", "c", "v", "w"}
  FailingGroups = {}
  ErrorOnUnresolved = TRUE
INVARIANTS
  OneOwner
  NoStrandedWork
  ResolvedSymbolsHaveHome
  CopyRelocationsRecorded
PROPERTIES
  KeepsExactlyLive
  Terminates
