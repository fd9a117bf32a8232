SPECIFICATION Spec
CONSTANTS
  N = 7
  Sizes = {0, 1, 2}
  Discarded = 0
  LowInput = 1
  LowGenerated = 1
  MinBranchRange = 8
  MaxThunkBytes = 4
  ThunkSize = 1
  Symbols = {1, 2, 3, 4}
  Home <- MCHome
  HasPlt <- MCHasPlt
  RefChoices <- MCAllRefChoices
INVARIANTS EveryBranchReaches BlockInReach
