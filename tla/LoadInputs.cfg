CONSTANTS
  file_a = file_a
  file_b = file_b
  file_c = file_c
  file_d = file_d
  file_e = file_e
  file_f = file_f
  Path = {file_a, file_b, file_c, file_d, file_e, file_f}
  InputSpec <- Specs
  NoPath = NoPath
  Worlds <- AllWorlds
  OpenedWith <- MCOpenedWith
  MaxChanges = 1
SPECIFICATION Spec
INVARIANTS EveryIndexRecorded LoadedInputsVerified
PROPERTIES LoadsAsInSequence Terminates
