------------------------------ MODULE MCStrip ------------------------------
(***************************************************************************)
(* Texts for Strip: of up to MaxChars characters, and of up to MaxTokens   *)
(* tokens.                                                                 *)
(***************************************************************************)
EXTENDS Strip, SequencesExt

CONSTANTS MaxChars, MaxTokens

Spelling ==
    [word    |-> <<"letter">>,
     blank   |-> <<"blank">>,
     newline |-> <<"newline">>,
     divide  |-> <<"slash">>,
     star    |-> <<"star">>,
     hash    |-> <<"hash">>,
     goes_on |-> <<"backslash", "newline">>,
     string  |-> <<"double", "letter", "double">>,
     escaped |-> <<"double", "backslash", "double", "letter", "double">>,
     mixed   |-> <<"double", "single", "slash", "slash", "letter", "double">>,
     letter  |-> <<"single", "letter", "single">>,
     line    |-> <<"slash", "slash", "letter", "newline">>,
     lines   |-> <<"slash", "slash", "letter", "backslash", "newline", "letter", "newline">>,
     block   |-> <<"slash", "star", "letter", "star", "slash">>,
     include |-> <<"hash", "include", "letter", "newline">>,
     open_line    |-> <<"slash", "slash", "letter">>,
     open_block   |-> <<"slash", "star", "letter">>,
     open_include |-> <<"hash", "include", "letter">>]

Tokens == DOMAIN Spelling

Spelled(u) == FlattenSeq([n \in DOMAIN u |-> Spelling[u[n]]])

(* The characters s, as if the text behind t were one piece. *)
Escapes(s, p) ==
    LET f[q \in p..Len(s)] == q > p /\ s[q - 1] = "backslash" /\ ~ f[q - 1] IN f

OnePiece(t, s) ==
    LET p == Len(t) + 1
        escapes == Escapes(s, p)
        at(q) == [ch |-> s[q], kind |-> "code", first |-> p, last |-> Len(s),
                  escaped |-> escapes[q], start |-> FALSE]
        u == t \o [n \in 1..(Len(s) - Len(t)) |-> at(n + Len(t))]
    IN  [u EXCEPT ![p].start = Start(u, p)]

(* The text t, and the next piece of the characters s. *)
Piece(t, s) ==
    LET u == OnePiece(t, s)
        p == Len(t) + 1
        kind == Kind(u, p)
        v == [q \in DOMAIN u |-> IF q < p THEN u[q] ELSE [u[q] EXCEPT !.kind = kind]]
        ends == {e \in p..Len(s) : Whole(v, p, e)}
        end == IF ends = {} THEN Len(s) ELSE Min(ends)
    IN  [q \in 1..end |-> IF q < p THEN v[q] ELSE [v[q] EXCEPT !.last = end]]

RECURSIVE ReadFrom(_, _)
ReadFrom(t, s) == IF Len(t) = Len(s) THEN t ELSE ReadFrom(Piece(t, s), s)

(* The characters s as their reader sees them. *)
Read(s) == ReadFrom(<<>>, s)

UpTo(n, S) == UNION {[1..m -> S] : m \in 1..n}

Claimed(l, t) == CLike(t) /\ ~ Misread(l, t)

(* A slash, outside of a string, in a last line that ends nowhere. *)
OpenLine(t) ==
    \E p \in DOMAIN t :
        /\ p > OpenAt(t) /\ t[p].kind # "string" /\ t[p].ch = "slash"
        /\ \A q \in p..Len(t) : t[q].ch # "newline"

(* Directives behind lines of blanks and comments. *)
Headed == {Append(u, "include") : u \in UpTo(MaxTokens + 1, {"blank", "newline", "line", "block"})}

(***************************************************************************)
(* Every short text, and longer ones of the tokens.  Python does not end   *)
(* in the others.                                                          *)
(***************************************************************************)
MCTexts ==
    LET all == {Read(s) : s \in UpTo(MaxChars, Chars)
                                \cup {Spelled(u) : u \in UpTo(MaxTokens, Tokens) \cup Headed}}
    IN  [l \in Languages |->
            {t \in all : Claimed(l, t) /\ ~ (l = "Python" /\ OpenLine(t))}]

(* Buffers that end in a line comment, as vim hands them over: without a   *)
(* newline at the end.                                                     *)
MCOpenTexts ==
    LET few == {"word", "blank", "newline", "hash"} IN
    [l \in Languages |->
        {t \in {Read(Spelled(Append(u, "open_line"))) : u \in UpTo(MaxTokens, few)} :
            Claimed(l, t)}]
=============================================================================
