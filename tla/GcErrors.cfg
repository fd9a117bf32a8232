SPECIFICATION Spec
CONSTANTS
  Group <- BadGroup
  Synthetic = "syn"
  Section <- BadSection
  Symbol <- BadSymbol
  OutputSection = {"set", "text"}
  Address = {0, 8}
  None = None
  SectionGroup <- BadSectionGroup
  InitialSlot <- BadSlot
  SectionOutput <- BadSectionOutput
  SymbolGroup <- BadSymbolGroup
  SymbolKind <- BadSymbolKind
  SymbolSection <- BadSymbolSection
  SymbolOutput <- BadSymbolOutput
  SymbolAddress <- BadSymbolAddress
  WeakSymbols = {"w"}
  Relocations <- BadRelocations
  FrameRelocations <- BadFrames
  RootSections <- BadRootSections
  RootReferences <- BadRootReferences
  Exports <- BadExports
  ExportRequests <- BadExportRequests
  Exportable = {"main", "aux", "f", "gone"}
  FailingGroups = {"b"}
  ErrorOnUnresolved = TRUE
INVARIANTS
  FailuresReported
