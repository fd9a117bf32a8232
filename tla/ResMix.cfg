SPECIFICATION Spec
CONSTANTS
  File <- MixFile
  Prelude = "pre"
  Synthetic = "syn"
  Dynamic = {"lib"}
  Optional <- MixOptional
  NumSymbols = 28
  SymbolTable <- MixTable
  None = None
  ChunkSize = 3
  MaybeMalformed = {12}
INVARIANTS
  LoadedOnce
  BindsToSelected
  UndefinedReferencesMerged
  DuplicatesRejected
  HiddenReferencesStayLocal
  ReferencesKeepVersion
PROPERTIES
  LoadsExactlyNeeded
  Terminates
