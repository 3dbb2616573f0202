CONSTANTS
    Paths <- MCPaths
    Above <- MCAbove
    Existing <- MCExisting
    Dirs = {"lib"}
    Instances = {i1, i2}
    Commands <- MCAll
    Lookups = {"a/b"}
    Missing = Missing
    Empty = Empty
    Garbled = Garbled
    MaxCommands = 7
    i1 = i1
    i2 = i2
SYMMETRY Symmetry
SPECIFICATION Spec
INVARIANT
    TypeOK
    SavedStays
PROPERTIES
    ImplementsRegistry
    NoTakeover
