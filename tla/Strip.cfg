SPECIFICATION FairSpec

CONSTANTS
    Languages = {"C", "Python"}
    Texts <- MCTexts
    MaxChars = 4
    MaxTokens = 3

INVARIANTS TypeOK NothingLost NothingLeft WordsApart
PROPERTY Ends
