CONSTANTS
    Buffers = {b1, b2}
    FirstBuffer = b1
    Filetypes <- MCFiletypesThree
    Keys <- MCKeys
    Order <- MCOrderThree
    Ignored = {}
    Preview = {}
    Handlers = {h1, h2, h3, h4}
    Absent = Absent
    NoGroups = NoGroups
    Faults = {"missing", "files", "ascii"}
    UserOps = {"enter", "reload", "save", "filetype", "toggle", "wipe"}
    Patient = TRUE
    MaxActs = 3
    MaxVersion = 1
    b1 = b1
    b2 = b2
    h1 = h1
    h2 = h2
    h3 = h3
    h4 = h4
SYMMETRY Symmetry
SPECIFICATION Spec
INVARIANTS
    ShownIsCached
    DisabledIsClear
    NeverWedged
PROPERTY
    ForceRefreshesLast
