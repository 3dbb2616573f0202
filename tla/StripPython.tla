----------------------------- MODULE StripPython -----------------------------
(***************************************************************************)
(* The removal of comments, strings and docstrings from the text of a      *)
(* buffer with python: handle_python in neotags_bin/src/strip.c.  One step *)
(* is one round of its loop.                                               *)
(*                                                                         *)
(* The texts are those of python, with the modes of their reader in them   *)
(* (PythonText); the automaton looks at the characters alone.  The output  *)
(* is the sequence of the positions that are kept, without the blank it    *)
(* starts with.                                                            *)
(***************************************************************************)
EXTENDS PythonText

CONSTANT Texts  \* the texts of this instance

(* Python, but for what the counting of quotes and the end are known to miss. *)
ASSUME TextAssumption == \A t \in Texts : Python(t) /\ ~ Misread(t)

VARIABLES
    text,    \* the text of the buffer
    pos,     \* the position of the next character
    out,     \* the positions that are kept
    doc,     \* the quote of the docstring the text is in, or "none": in_docstring
    quote,   \* the quote of the string the text is in, or "none": Single.Q, Double.Q
    cnt,     \* quotes in a row: Single.cnt, Double.cnt
    comment, \* in a comment
    escape,  \* the last character was a backslash that is not escaped
    space,   \* blanks in a row, 2 for any greater number
    pc       \* "run", "done" or "failed"

vars == <<text, pos, out, doc, quote, cnt, comment, escape, space, pc>>

(* The characters of the text, and the null character behind them. *)
Char(p) == IF p \in DOMAIN text THEN text[p].ch ELSE "end"

LastChar == IF out = <<>> THEN "blank" ELSE Char(out[Len(out)])

Shorter(o) == IF o = <<>> THEN o ELSE SubSeq(o, 1, Len(o) - 1)

(* QUOTE() *)
Quoted == quote # "none" \/ doc # "none"

Init ==
    /\ text \in Texts
    /\ pos = 1 /\ out = <<>>
    /\ doc = "none" /\ quote = "none" /\ cnt = [q \in Quotes |-> 0]
    /\ comment = FALSE /\ escape = FALSE
    /\ space = 0
    /\ pc = "run"

-----------------------------------------------------------------------------
(* Slip: outside of docstrings quotes are counted that are not in a row. *)
SettledInside(n, d, c) ==
    [q \in Quotes |->
        IF d \notin {"none", q} THEN 0
        ELSE IF c = q \/ d = "none" THEN n[q]
        ELSE 3]

(***************************************************************************)
(* The second switch: the counters n behind a character c, when the text   *)
(* is in the docstring d or in none.                                       *)
(***************************************************************************)
Settled(n, d, c) ==
    [q \in Quotes |->
        IF d \notin {"none", q} THEN 0
        ELSE IF c = q THEN n[q]
        ELSE IF d = "none" THEN 0 ELSE 3]

(***************************************************************************)
(* The end of the loop's body.  The null character is copied like any      *)
(* other and then counted off: where it is not copied, the last character  *)
(* that was kept is cut off instead.                                       *)
(***************************************************************************)
Emit(skip) ==
    LET c == Char(pos)
    IN  /\ out' = IF c = "end" THEN IF Quoted' THEN Shorter(out) ELSE out
                  ELSE IF skip \/ Quoted' \/ space' = 2 THEN out
                  ELSE Append(out, pos)
        /\ escape' = (c = "backslash" /\ ~ escape)
        /\ pos' = pos + 1
        /\ pc' = IF c = "end" THEN "done" ELSE "run"

(* The characters that the loop looks at: not those of a comment. *)
Running(c) == pc = "run" /\ text # <<>> /\ Char(pos) = c

Refuse ==
    /\ pc = "run" /\ text = <<>>
    /\ pc' = "failed"
    /\ UNCHANGED <<text, pos, out, doc, quote, cnt, comment, escape, space>>

(* Slip: a # in a string begins a comment. *)
BeginCommentAnywhere ==
    /\ Running("hash")
    /\ ~ comment /\ doc = "none" /\ ~ escape
    /\ comment' = TRUE
    /\ space' = 0
    /\ pos' = pos + 1
    /\ UNCHANGED <<text, out, doc, quote, cnt, escape, pc>>

BeginComment ==
    /\ Running("hash")
    /\ ~ comment /\ ~ Quoted /\ ~ escape
    /\ comment' = TRUE
    /\ space' = 0
    /\ pos' = pos + 1
    /\ UNCHANGED <<text, out, doc, quote, cnt, escape, pc>>

(* Inside a comment; the null character ends the loop without being copied. *)
SkipComment ==
    /\ pc = "run" /\ comment
    /\ Char(pos) # "newline"
    /\ pos' = pos + 1
    /\ IF Char(pos) = "end"
       THEN out' = Shorter(out) /\ pc' = "done"
       ELSE UNCHANGED <<out, pc>>
    /\ UNCHANGED <<text, doc, quote, cnt, comment, escape, space>>

Newline ==
    /\ Running("newline")
    /\ comment' = FALSE
    /\ space' = 0
    /\ cnt' = Settled(cnt, doc, "newline")
    /\ UNCHANGED <<text, doc, quote>>
    /\ Emit(LastChar = "newline")

(* check_docstring in a docstring of the same quote *)
CloseDocstring(q) ==
    /\ Running(q) /\ ~ comment
    /\ doc = q
    /\ LET n == IF cnt[q] = 3 \/ Char(pos - 1) = q THEN cnt[q] - 1 ELSE 3
       IN  /\ doc' = IF n = 0 THEN "none" ELSE q
           /\ cnt' = Settled([cnt EXCEPT ![q] = n], doc', q)
           /\ space' = 0
           /\ UNCHANGED <<text, quote, comment>>
           /\ Emit(n = 0)

(* A quote of the other kind in a docstring. *)
QuoteInDocstring(q) ==
    /\ Running(q) /\ ~ comment
    /\ doc \notin {"none", q}
    /\ cnt' = Settled(cnt, doc, q)
    /\ space' = 0
    /\ UNCHANGED <<text, doc, quote, comment>>
    /\ Emit(FALSE)

(* The counter of q behind one more q, in no docstring. *)
Counted(q) ==
    IF cnt[q] = 0 /\ quote = "none" THEN 1
    ELSE IF Char(pos - 1) = q THEN cnt[q] + 1
    ELSE cnt[q]

(* Slip: the string that the first two quotes opened stays open. *)
OpenDocstringKeeps(q) ==
    /\ Running(q) /\ ~ comment
    /\ doc = "none" /\ Counted(q) = 3
    /\ doc' = q
    /\ cnt' = Settled([cnt EXCEPT ![q] = 3], q, q)
    /\ quote' = q
    /\ space' = 0
    /\ UNCHANGED <<text, comment>>
    /\ Emit(TRUE)

(* check_docstring: the third quote in a row *)
OpenDocstring(q) ==
    /\ Running(q) /\ ~ comment
    /\ doc = "none" /\ Counted(q) = 3
    /\ doc' = q
    /\ cnt' = Settled([cnt EXCEPT ![q] = 3], q, q)
    /\ quote' = "none"
    /\ space' = 0
    /\ UNCHANGED <<text, comment>>
    /\ Emit(TRUE)

(* Slip: a quote that is escaped ends the string. *)
QuoteUnescaped(q) ==
    /\ Running(q) /\ ~ comment
    /\ doc = "none" /\ Counted(q) < 3
    /\ cnt' = Settled([cnt EXCEPT ![q] = Counted(q)], "none", q)
    /\ quote' = IF quote = q THEN "none" ELSE IF quote = "none" THEN q ELSE quote
    /\ space' = 0
    /\ UNCHANGED <<text, doc, comment>>
    /\ Emit(quote = q)

(* check_docstring: any other quote, which may begin or end a string *)
Quote(q) ==
    /\ Running(q) /\ ~ comment
    /\ doc = "none" /\ Counted(q) < 3
    /\ cnt' = Settled([cnt EXCEPT ![q] = Counted(q)], "none", q)
    /\ quote' = IF quote = q /\ ~ escape THEN "none"
                ELSE IF quote = "none" THEN q ELSE quote
    /\ space' = 0
    /\ UNCHANGED <<text, doc, comment>>
    /\ Emit(quote = q /\ ~ escape)

(* Blanks at the beginning of a line and all but one elsewhere are dropped. *)
Blank ==
    /\ Running("blank") /\ ~ comment
    /\ space' = IF LastChar = "newline" \/ space = 2 THEN space ELSE space + 1
    /\ cnt' = Settled(cnt, doc, "blank")
    /\ UNCHANGED <<text, doc, quote, comment>>
    /\ Emit(LastChar = "newline")

(* Any other character, and the end of the text. *)
Other ==
    /\ \E c \in {"letter", "backslash", "hash", "end"} : Running(c)
    /\ ~ comment
    /\ Char(pos) = "hash" => Quoted \/ escape
    /\ space' = 0
    /\ cnt' = Settled(cnt, doc, Char(pos))
    /\ UNCHANGED <<text, doc, quote, comment>>
    /\ Emit(FALSE)

Stopped == pc # "run" /\ UNCHANGED vars

Next ==
    \/ Refuse \/ BeginComment \/ SkipComment \/ Newline \/ Blank \/ Other
    \/ \E q \in Quotes :
          CloseDocstring(q) \/ QuoteInDocstring(q) \/ OpenDocstring(q) \/ Quote(q)
    \/ Stopped

Spec == Init /\ [][Next]_vars

-----------------------------------------------------------------------------
(* Properties.                                                              *)

Kept == {out[n] : n \in DOMAIN out}

Words(places) ==
    {p \in DOMAIN text : text[p].ch = "letter" /\ text[p].mode.place \in places}

(* Up to three in a docstring, fewer elsewhere, and never both kinds at once. *)
CountsOK ==
    /\ cnt \in [Quotes -> 0..3]
    /\ comment => doc = "none" /\ quote = "none"
    /\ \A q \in Quotes :
          /\ doc = q => quote = "none" /\ cnt[q] > 0
          /\ doc # q => cnt[q] < 3
          /\ doc \notin {"none", q} => cnt[q] = 0

(* Positions of the text below p, in their order and none of them twice. *)
Ordered(o, p) ==
    /\ o \in Seq(DOMAIN text)
    /\ \A n \in DOMAIN o : o[n] < p
    /\ \A m, n \in DOMAIN o : m < n => o[m] < o[n]

(***************************************************************************)
(* The type invariant.  The output is a part of what was read, in its      *)
(* order (strip.c:311-429), a string and a docstring exclude each other,   *)
(* and the counters stay below the third quote outside (strip.c:255-292).  *)
(***************************************************************************)
TypeOK ==
    /\ text \in Seq(Character)
    /\ pos \in 1..(Len(text) + 2)
    /\ pc = "run" => pos <= Len(text) + 1
    /\ Ordered(out, pos)
    /\ doc \in Quotes \cup {"none"} /\ quote \in Quotes \cup {"none"}
    /\ CountsOK
    /\ comment \in BOOLEAN /\ escape \in BOOLEAN
    /\ space \in 0..2
    /\ pc \in {"run", "done", "failed"}

(***************************************************************************)
(* In front of every character the automaton is in the comment, the        *)
(* string or the docstring that python is in, and in none where python is  *)
(* in code: a quote counted wrongly would turn the rest of the buffer      *)
(* inside out (strip.c:255-292, 311-418).                                  *)
(***************************************************************************)
InStep ==
    pos \in DOMAIN text =>
       LET m == text[pos].mode
       IN  /\ comment = (m.place = "comment")
           /\ quote = IF m.place = "string" THEN m.quote ELSE "none"
           /\ doc = IF m.place = "doc" THEN m.quote ELSE "none"

(* No word of the code is lost (strip.c:36-39, 311-429). *)
NothingLost == pc = "done" => Words({"code"}) \subseteq Kept

(***************************************************************************)
(* No word of a comment, a string or a docstring is left, which "avoids    *)
(* any false positives" (strip.c:38).                                      *)
(***************************************************************************)
NothingLeft == pc = "done" => Kept \cap Words({"comment", "string", "doc"}) = {}

=============================================================================
