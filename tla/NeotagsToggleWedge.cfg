CONSTANTS
    Buffers = {b1, b2}
    FirstBuffer = b1
    Filetypes <- MCFiletypesC
    Keys <- MCKeys
    Order <- MCOrderC
    Ignored = {}
    Preview = {}
    Handlers = {h1, h2}
    Absent = Absent
    NoGroups = NoGroups
    Faults = {}
    UserOps = {"toggle"}
    Patient = FALSE
    MaxActs = 2
    MaxVersion = 0
    b1 = b1
    b2 = b2
    h1 = h1
    h2 = h2
SYMMETRY Symmetry
SPECIFICATION Spec
INVARIANT
    NeverWedged
