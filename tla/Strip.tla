------------------------------- MODULE Strip -------------------------------
(***************************************************************************)
(* The removal of comments and strings from the text of the buffer, for    *)
(* C-like languages: handle_cstyle in neotags_bin/src/strip.c, and strip_c *)
(* in utils.py, which is meant to be the same program.  One automaton with *)
(* the places marked in which the two differ.                              *)
(*                                                                         *)
(* The texts are those of C-like languages, with the pieces their reader   *)
(* sees in them (CText); the automaton looks at the characters alone.  The *)
(* output is the sequence of the positions of the characters that are      *)
(* kept; the blank it starts with is left out.                             *)
(***************************************************************************)
EXTENDS CText

CONSTANTS
    Languages, \* the implementations of this instance: C, Python or both
    Texts      \* the texts for each of them

(* C-like, but for what the two are known to misread. *)
ASSUME StripAssumption ==
    /\ Languages \subseteq {"C", "Python"}
    /\ \A l \in Languages : \A t \in Texts[l] : CLike(t) /\ ~ Misread(l, t)

VARIABLES
    language, \* what the implementation is written in
    text,     \* the text of the buffer
    pos,      \* the position of the next character, pos or i
    out,      \* the positions that are kept
    quote,    \* the quote of the string the text is in, or "none": single_q, double_q
    slash,    \* the last character was a slash
    escape,   \* the last character was a backslash that is not escaped
    header,   \* in an include directive
    space,    \* blanks in a row, 2 for any greater number
    pc        \* "run", "done" or "failed"

input == <<language, text>>
vars  == <<input, pos, out, quote, slash, escape, header, space, pc>>

(* The characters of the text, and the null character behind them. *)
Char(p) == IF p \in DOMAIN text THEN text[p].ch ELSE "end"

LastChar(o) == IF o = <<>> THEN "blank" ELSE Char(o[Len(o)])

Shorter(o) == IF o = <<>> THEN o ELSE SubSeq(o, 1, Len(o) - 1)

Newlines(p) == {e \in DOMAIN text : e >= p /\ Char(e) = "newline"}

(* The least of a set of positions, or none of none. *)
First(S) == {e \in S : \A f \in S : e <= f}

Init ==
    /\ language \in Languages /\ text \in Texts[language]
    /\ pos = 1 /\ out = <<>>
    /\ quote = "none" /\ slash = FALSE /\ escape = FALSE /\ header = FALSE
    /\ space = 0
    /\ pc = "run"

-----------------------------------------------------------------------------
(* isblank in C, isspace in python *)
IsBlank(c) == c = "blank" \/ (language = "Python" /\ c = "newline")

(***************************************************************************)
(* The end of the loop's body: what becomes of the character at "at" when  *)
(* the output is o and the text goes on at p.  In C the null character at  *)
(* the end is copied like any other and then counted off, so in a string   *)
(* that is not closed the last character that was kept is cut off instead. *)
(***************************************************************************)
Emit(o, at, p, skip) ==
    LET c      == Char(at)
        omit   == skip \/ (IsBlank(c) /\ LastChar(o) = "newline")
        row    == IF IsBlank(c) /\ ~ omit THEN IF space = 0 THEN 1 ELSE 2 ELSE 0
        hidden == quote' # "none" \/ header'
    IN  /\ escape' = (c = "backslash" /\ ~ escape)
        /\ space' = row
        /\ out' = IF c = "end" THEN IF hidden /\ language = "C" THEN Shorter(o) ELSE o
                  ELSE IF omit \/ hidden \/ row = 2 THEN o ELSE Append(o, at)
        /\ pos' = p
        /\ pc' = IF at \in DOMAIN text THEN "run" ELSE "done"

Keep == Emit(out, pos, pos + 1, FALSE)

Running(c) == pc = "run" /\ Char(pos) = c

Opens == quote = "none" /\ slash

(* Slip: a backslash does not continue the comment. *)
CommentEndFirst == First(Newlines(pos + 2))

(***************************************************************************)
(* The newline that ends a line comment, a set of at most one position.    *)
(* In C the character behind the second slash is not looked at, and a      *)
(* backslash continues the comment; in python an integer is compared with  *)
(* a string, so it does not.                                               *)
(***************************************************************************)
CommentEnd ==
    First(IF language = "C" THEN {e \in Newlines(pos + 2) : Char(e - 1) # "backslash"}
          ELSE Newlines(pos))

(* Slip: the newline goes with the comment. *)
LineCommentWithNewline ==
    /\ Running("slash") /\ Opens
    /\ UNCHANGED <<input, quote, slash, header>>
    /\ \E e \in CommentEnd : Emit(Shorter(out), e, e + 1, TRUE)

(* The second slash.  In python the character to keep is still the slash.  *)
LineComment ==
    /\ Running("slash") /\ Opens
    /\ UNCHANGED <<input, quote, slash, header>>
    /\ \E e \in CommentEnd :
          LET o == Shorter(out) IN
          Emit(o, IF language = "C" THEN e ELSE pos, e + 1, LastChar(o) = "newline")

(* Slip: the position does not move. *)
OpenCommentStays ==
    /\ Running("slash") /\ Opens
    /\ CommentEnd = {}
    /\ UNCHANGED <<input, quote, slash, header>>
    /\ Emit(Shorter(out), pos, pos, FALSE)

(***************************************************************************)
(* A line comment without an end.  C goes on in the comment; in python the *)
(* -1 that find returns is added to the position, so it is never negative, *)
(* and the loop comes back to the slash.                                   *)
(***************************************************************************)
OpenComment ==
    /\ Running("slash") /\ Opens
    /\ CommentEnd = {}
    /\ UNCHANGED <<input, quote, slash, header>>
    /\ LET o == Shorter(out) IN
       IF language = "C" THEN Emit(o, pos, pos + 1, FALSE)
                         ELSE Emit(o, pos, pos, LastChar(o) = "newline")

Slash ==
    /\ Running("slash") /\ ~ Opens
    /\ slash' = (slash \/ quote = "none")
    /\ UNCHANGED <<input, quote, header>>
    /\ Keep

(* The star and the slash that end a block comment, at most one position. *)
BlockEnd ==
    First({e \in DOMAIN text : e >= pos /\ Char(e) = "star" /\ Char(e + 1) = "slash"})

(* Slip: the character behind the comment is read again. *)
BlockCommentAgain ==
    /\ Running("star") /\ Opens
    /\ slash' = FALSE
    /\ UNCHANGED <<input, quote, header>>
    /\ \E e \in BlockEnd : Emit(Shorter(out), e + 2, e + 2, FALSE)

(* The character behind the comment is kept, but has no effect. *)
BlockComment ==
    /\ Running("star") /\ Opens
    /\ slash' = FALSE
    /\ UNCHANGED <<input, quote, header>>
    /\ \E e \in BlockEnd :
          LET o == Shorter(out) IN
          Emit(o, e + 2, e + 3, Char(e + 2) = "newline" /\ LastChar(o) = "newline")

(* A block comment without an end: errx in C; python goes on behind the *. *)
OpenBlock ==
    /\ Running("star") /\ Opens
    /\ BlockEnd = {}
    /\ UNCHANGED <<input, quote, header>>
    /\ IF language = "C"
       THEN pc' = "failed" /\ UNCHANGED <<pos, out, slash, escape, space>>
       ELSE slash' = FALSE /\ Emit(Shorter(out), pos + 1, pos + 2, FALSE)

Star ==
    /\ Running("star") /\ ~ Opens
    /\ UNCHANGED <<input, quote, slash, header>>
    /\ Keep

(* A newline ends a string in double quotes, but not one in single quotes. *)
Newline ==
    /\ Running("newline")
    /\ IF escape
       THEN UNCHANGED <<quote, slash, header>> /\ Keep
       ELSE /\ slash' = FALSE /\ header' = FALSE
            /\ quote' = (IF quote = "double" THEN "none" ELSE quote)
            /\ Emit(out, pos, pos + 1, LastChar(out) = "newline")
    /\ UNCHANGED input

(* The word behind the # and blanks. *)
IsInclude ==
    \E w \in DOMAIN text :
        w > pos /\ Char(w) = "include" /\ \A b \in (pos + 1)..(w - 1) : Char(b) = "blank"

AtLineStart == Running("hash") /\ LastChar(out) = "newline"

Directive == AtLineStart /\ IsInclude /\ Newlines(pos) # {}

(* C goes on with the newline, python behind it. *)
Include ==
    /\ Directive
    /\ \E e \in First(Newlines(pos)) : pos' = IF language = "C" THEN e ELSE e + 1
    /\ header' = (language = "C")
    /\ slash' = (slash /\ language = "C")
    /\ UNCHANGED <<input, out, quote, escape, space, pc>>

(* An include in the last line: C keeps it, python leaves out the #.       *)
LastInclude == language = "Python" /\ AtLineStart /\ Newlines(pos) = {} /\ pos > 2

OpenInclude ==
    /\ LastInclude /\ Char(pos + 1) = "include"
    /\ pos' = pos + 1 /\ slash' = FALSE
    /\ UNCHANGED <<input, out, quote, escape, header, space, pc>>

(* Python looks at the character behind the last one: an IndexError. *)
LastHash ==
    /\ LastInclude /\ pos = Len(text)
    /\ pc' = "failed" /\ slash' = FALSE
    /\ UNCHANGED <<input, pos, out, quote, escape, header, space>>

Hash ==
    /\ Running("hash") /\ ~ Directive
    /\ LastInclude => Char(pos + 1) \notin {"include", "end"}
    /\ slash' = FALSE
    /\ UNCHANGED <<input, quote, header>>
    /\ Keep

Backslash ==
    /\ Running("backslash")
    /\ UNCHANGED <<input, quote, slash, header>>
    /\ Keep

(* Slip: a quote that is escaped ends the string. *)
QuoteUnescaped(q) ==
    /\ Running(q)
    /\ slash' = FALSE
    /\ UNCHANGED <<input, header>>
    /\ IF quote = q
       THEN quote' = "none" /\ Emit(out, pos, pos + 1, TRUE)
       ELSE quote' = (IF quote = "none" THEN q ELSE quote) /\ Keep

(* check_quote *)
Quote(q) ==
    /\ Running(q)
    /\ slash' = FALSE
    /\ UNCHANGED <<input, header>>
    /\ IF quote = q /\ ~ escape
       THEN quote' = "none" /\ Emit(out, pos, pos + 1, TRUE)
       ELSE quote' = (IF quote = "none" THEN q ELSE quote) /\ Keep

(* Any other character, and the end of the text. *)
Other ==
    /\ \E c \in {"letter", "include", "blank", "end"} : Running(c)
    /\ slash' = FALSE
    /\ UNCHANGED <<input, quote, header>>
    /\ Keep

Stopped == pc # "run" /\ UNCHANGED vars

Step ==
    \/ LineComment \/ OpenComment \/ Slash
    \/ BlockComment \/ OpenBlock \/ Star
    \/ Newline \/ Include \/ OpenInclude \/ LastHash \/ Hash \/ Backslash \/ Other
    \/ \E q \in Quotes : Quote(q)

Next == Step \/ Stopped

Spec == Init /\ [][Next]_vars

(* The loop runs on. *)
FairSpec == Spec /\ WF_vars(Step)

-----------------------------------------------------------------------------
(* Properties.                                                              *)

Kept == {out[n] : n \in DOMAIN out}

Letters == {"letter", "include"}

(* The words of what is of the kinds S. *)
Words(S) == {p \in DOMAIN text : text[p].kind \in S /\ Char(p) \in Letters}

(* Not yet in a comment, string or directive that the text does not end. *)
Closed == OpenAt(text) \in DOMAIN text => pos <= OpenAt(text)

(* Positions of the text, in their order and none of them twice. *)
Ordered(o) ==
    /\ o \in Seq(DOMAIN text)
    /\ \A m, n \in DOMAIN o : m < n => o[m] < o[n]

(***************************************************************************)
(* The type invariant.  The output is a part of the text in its order:     *)
(* nothing is kept twice, although each comment takes back the slash it    *)
(* begins with (strip.c:98-242, utils.py:145-252).                         *)
(***************************************************************************)
TypeOK ==
    /\ language \in Languages /\ text \in Seq(Character)
    /\ pos \in 1..(Len(text) + 2)
    /\ pc = "run" => pos <= Len(text) + 1
    /\ Ordered(out)
    /\ quote \in Quotes \cup {"none"}
    /\ slash \in BOOLEAN /\ escape \in BOOLEAN /\ header \in BOOLEAN
    /\ space \in 0..2
    /\ pc \in {"run", "done", "failed"}

(***************************************************************************)
(* No word of the code that was read is lost: what is lost is not          *)
(* highlighted (strip.c:36-39).  This is said until the automaton reads    *)
(* what the text does not end: behind a string that is open at the end, C  *)
(* cuts off the last character that was kept (strip.c:238-240).            *)
(***************************************************************************)
NothingLost == Closed => {p \in Words({"code"}) : p < pos} \subseteq Kept

(***************************************************************************)
(* No word of a comment, a string or an include directive is left, which   *)
(* "avoids any false positives" (strip.c:38), until the end and whatever   *)
(* the text ends in: but for the words of a last piece that the text does  *)
(* not end.  C leaves those of a line comment, which it reads like code    *)
(* when no newline is behind it (strip.c:133-136).                         *)
(***************************************************************************)
NothingLeft == \A p \in Kept \cap Words(Kinds \ {"code"}) : p >= OpenAt(text)

(***************************************************************************)
(* Words that are apart in the text stay apart: two that ran together      *)
(* would be found as neither of them (strip.c:36-39, tok.c:58-74).  Only a *)
(* string or a block comment directly behind a word leaves no trace.  Said *)
(* until the automaton reads what the text does not end.                   *)
(***************************************************************************)
WordsApart ==
    Closed =>
        \A n \in 1..(Len(out) - 1) :
            {Char(out[n]), Char(out[n + 1])} \subseteq Letters =>
                out[n + 1] = out[n] + 1 \/ text[out[n] + 1].kind \in {"string", "block"}

(* Every text is stripped, or refused with a message (utils.py:180-182). *)
Ends == <>(pc # "run")

=============================================================================
