SPECIFICATION Spec
CONSTANTS
  NumRegular = 2
  NumIr = 2
  Optional = {2, 4}
  Names = {"a", "b"}
  EntryName = "a"
  Forced = {}
  Libcalls = {"b"}
  Worlds <- MCWorlds
  PluginObeys = TRUE
INVARIANTS BoundToCode NonIrReferencesReported FailuresPropagate
