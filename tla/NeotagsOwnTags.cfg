CONSTANTS
    Buffers = {b1, b2, b3}
    FirstBuffer = b1
    Filetypes <- MCFiletypesHelp
    Keys <- MCKeys
    Order <- MCOrderHelp
    Ignored = {"help"}
    Preview = {}
    Handlers = {h1, h2}
    Absent = Absent
    NoGroups = NoGroups
    Faults = {}
    UserOps = {"enter"}
    Patient = TRUE
    MaxActs = 5
    MaxVersion = 0
    b1 = b1
    b2 = b2
    b3 = b3
    h1 = h1
    h2 = h2
SYMMETRY Symmetry
SPECIFICATION Spec
INVARIANT
    OwnTags
