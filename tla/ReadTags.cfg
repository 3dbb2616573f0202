SPECIFICATION FairSpec

CONSTANTS
    a = a
    b = b
    Names = {a, b}
    Contents <- MCContents
    ArgLists <- MCArgLists
    Missing = Missing
    Closed = Closed
    Linked = Linked
    NoSize = NoSize
    MaxText = 6
    MaxActs = 2
    MaxWords = 9
    Threads = 2
    InitTags = 1
    TagsInc = 1
    InitBackups = 1
    InitStrings = 2

INVARIANTS TypeOK WithinRoom LinesOfFiles QuietFilesDoNotKill NothingMadeUp
PROPERTY Ends
