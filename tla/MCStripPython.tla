---------------------------- MODULE MCStripPython ----------------------------
(***************************************************************************)
(* Texts for StripPython: of up to MaxChars characters, and of up to       *)
(* MaxTokens tokens.                                                       *)
(***************************************************************************)
EXTENDS StripPython, SequencesExt

CONSTANTS MaxChars, MaxTokens

Spelling ==
    [word    |-> <<"letter">>,
     blank   |-> <<"blank">>,
     newline |-> <<"newline">>,
     goes_on |-> <<"backslash", "newline">>,
     empty   |-> <<"double", "double">>,
     string  |-> <<"double", "letter", "double">>,
     letter  |-> <<"single", "letter", "single">>,
     mixed   |-> <<"double", "letter", "single", "letter", "double">>,
     hash    |-> <<"single", "hash", "letter", "single">>,
     escaped |-> <<"double", "backslash", "double", "letter", "double">>,
     closing |-> <<"double", "letter", "backslash", "double", "double">>,
     foreign |-> <<"double", "single", "single", "single", "double">>,
     doc     |-> <<"double", "double", "double", "letter", "double", "double", "double">>,
     lines   |-> <<"single", "single", "single", "hash", "letter", "newline",
                   "single", "letter", "double", "single", "single", "single">>,
     remark  |-> <<"hash", "letter", "newline">>,
     quoting |-> <<"hash", "single", "letter", "backslash", "newline">>,
     open_string |-> <<"single", "letter">>,
     open_doc    |-> <<"double", "double", "double", "letter">>,
     open_remark |-> <<"hash", "letter">>]

Tokens == DOMAIN Spelling

(* The modes of the reader along the characters of a text. *)
Read(s) ==
    FoldLeft(LAMBDA t, c : Append(t, [ch |-> c, mode |-> ModeAt(t, Len(t) + 1)]), <<>>, s)

Spelled(t) == FlattenSeq([n \in DOMAIN t |-> Spelling[t[n]]])

UpTo(n, S) == UNION {[1..m -> S] : m \in 0..n}

(* Every short text, and longer ones of the tokens. *)
MCTexts ==
    {t \in {Read(s) : s \in UpTo(MaxChars, Chars) \cup {Spelled(u) : u \in UpTo(MaxTokens, Tokens)}} :
        Python(t) /\ ~ Misread(t)}
=============================================================================
