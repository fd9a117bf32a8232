SPECIFICATION Spec
CONSTANTS
  NumInputs = 2
  MaxChanges = 0
  Options <- DefaultOptions
  Killable = {"Child"}
INVARIANTS
  SuccessMeansComplete
