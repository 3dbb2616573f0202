SPECIFICATION FairSpec

CONSTANTS
    Languages = {"Python"}
    Texts <- MCOpenTexts
    MaxChars = 1
    MaxTokens = 3

PROPERTY Ends
