SPECIFICATION Spec
CONSTANTS
  NumInputs = 2
  MaxChanges = 1
  Options <- SoundOptions
  Killable = {"InProcess"}
INVARIANTS
  SuccessMeansComplete
  SuccessMeansConsistent
  ChangedInputsReported
  ReplacementModeRespected
PROPERTIES
  Terminates
