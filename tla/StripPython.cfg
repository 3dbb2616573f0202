SPECIFICATION Spec

CONSTANTS
    Texts <- MCTexts
    MaxChars = 5
    MaxTokens = 3

INVARIANTS TypeOK InStep NothingLost NothingLeft
