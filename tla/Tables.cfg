CONSTANTS
    Worlds <- MCWorlds
    WordBytes = 4
    BitmapSlots = 3
SPECIFICATION Spec
INVARIANTS
    TablesMatch
    LoaderValues
CHECK_DEADLOCK FALSE
