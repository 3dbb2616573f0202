CONSTANTS
    Names <- MCNames
    Kinds <- MCKinds
    Langs = {"this", "that", "sub"}
    Files = {"own", "other"}
    Comment = Comment
    NoField = NoField
    Order = {"c", "f", "v"}
    Equivalent <- MCEquivalent
    Wanted = {"this", "sub"}
    PyWanted = {"this"}
    Ignored = {}
    OwnFile = "own"
    Special = {"a.b"}
    KindRank <- MCKindRank
    NameRank <- MCNameRank
    Bare <- MCBare
    N = 3
    Inputs <- MCInputs
    Texts <- MCTexts
    VimTexts <- MCVimTexts
    Led <- MCLed
    Fragment <- MCFragment
    Pieces <- MCPieces
    NoAnswer = NoAnswer
    MaxLines = 4
    VimLines = 3
SPECIFICATION Spec
INVARIANTS
    TypeOK
    ScannedOnce
    NamesShown
    BinaryFindsToo
PROPERTY
    ImplementsQuery
