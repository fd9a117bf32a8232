CONSTANTS
    Worlds <- MCWorlds
    ChunkSizes = {2, 10}
SPECIFICATION Spec
INVARIANTS
    ExportsFound
    ImportsBound
    TablesFilled
    OrderDetermined
CHECK_DEADLOCK FALSE
