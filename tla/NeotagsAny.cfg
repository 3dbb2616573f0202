CONSTANTS
    Buffers = {b1, b2}
    FirstBuffer = b1
    Filetypes <- MCFiletypesHelp
    Keys <- MCKeys
    Order <- MCOrderHelp
    Ignored = {"help"}
    Preview = {}
    Handlers = {h1, h2, h3}
    Absent = Absent
    NoGroups = NoGroups
    Faults = {"missing"}
    UserOps = {"enter", "reload", "save", "filetype", "toggle", "wipe"}
    Patient = FALSE
    MaxActs = 2
    MaxVersion = 1
    b1 = b1
    b2 = b2
    h1 = h1
    h2 = h2
    h3 = h3
SPECIFICATION Spec
INVARIANTS
    TypeOK
    AtMostOneOwner
    CacheCoherent
PROPERTY
    HandlersFinish
