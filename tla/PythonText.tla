------------------------------ MODULE PythonText ------------------------------
(***************************************************************************)
(* Texts of python as their reader sees them: which characters are code,   *)
(* and which are in a comment, a string or a docstring.  This is the       *)
(* reference that StripPython is held against, and no part of the program. *)
(*                                                                         *)
(* A character is a class of characters: any letter, a blank or tabulator, *)
(* a newline, and # \ ' " by their names.  With it goes the mode of the    *)
(* reader in front of it:                                                  *)
(*  - place and quote: in code, in a comment, or in the string or the      *)
(*    docstring of a quote;                                                *)
(*  - run: of a string, 1 directly behind the quote that opens it; of      *)
(*    code, 2 directly behind an empty string of that quote; of a          *)
(*    docstring, the quotes in a row that are not escaped;                 *)
(*  - escaped: directly behind a backslash that is not escaped.            *)
(***************************************************************************)
EXTENDS Naturals, Sequences

Quotes == {"single", "double"}

Chars == Quotes \cup {"letter", "blank", "newline", "hash", "backslash"}

Mode ==
    {m \in [place : {"code", "comment", "string", "doc"}, quote : Quotes \cup {"none"},
            run : 0..2, escaped : BOOLEAN] :
       /\ m.place \in {"string", "doc"} \/ m.run = 2 => m.quote \in Quotes
       /\ m.place = "code" => m.run # 1
       /\ m.place = "string" => m.run # 2
       /\ m.place = "comment" => m.run = 0
       /\ m.escaped => m.run = 0 /\ m.place # "comment"}

Character == [ch : Chars, mode : Mode]

At(place, q, run, escaped) ==
    [place |-> place, quote |-> q, run |-> run, escaped |-> escaped]

Code == At("code", "none", 0, FALSE)

(* The mode behind the character c of a text. *)
BehindCode(m, c) ==
    IF c = "hash" THEN At("comment", "none", 0, FALSE)
    ELSE IF c = "backslash" THEN At("code", "none", 0, TRUE)
    ELSE IF c \notin Quotes THEN Code
    ELSE IF m.run = 2 /\ m.quote = c THEN At("doc", c, 0, FALSE)
    ELSE At("string", c, 1, FALSE)

BehindString(m, c) ==
    IF m.escaped \/ c \notin {m.quote, "backslash"} THEN At("string", m.quote, 0, FALSE)
    ELSE IF c = "backslash" THEN At("string", m.quote, 0, TRUE)
    ELSE IF m.run = 1 THEN At("code", c, 2, FALSE) ELSE Code

BehindDoc(m, c) ==
    IF m.escaped \/ c \notin {m.quote, "backslash"} THEN At("doc", m.quote, 0, FALSE)
    ELSE IF c = "backslash" THEN At("doc", m.quote, 0, TRUE)
    ELSE IF m.run = 2 THEN Code ELSE At("doc", c, m.run + 1, FALSE)

Behind(m, c) ==
    CASE m.place = "code"    -> BehindCode(m, c)
      [] m.place = "comment" -> IF c = "newline" THEN Code ELSE m
      [] m.place = "string"  -> BehindString(m, c)
      [] m.place = "doc"     -> BehindDoc(m, c)

(* The mode in front of the character p, or behind the text. *)
ModeAt(t, p) == IF p = 1 THEN Code ELSE Behind(t[p - 1].mode, t[p - 1].ch)

(* A line ends in no string, unless by a \, and \ is in code only there. *)
Allowed(m, c) ==
    /\ m.place = "code" /\ m.escaped => c = "newline"
    /\ m.place = "string" /\ c = "newline" => m.escaped

Python(t) ==
    /\ t \in Seq(Character)
    /\ \A p \in DOMAIN t : t[p].mode = ModeAt(t, p) /\ Allowed(t[p].mode, t[p].ch)

Hidden(t, p) == ModeAt(t, p).place # "code"

-----------------------------------------------------------------------------
(***************************************************************************)
(* The python that handle_python is known to misread.                      *)
(***************************************************************************)

(* From p on there are n of the quote q. *)
Row(t, p, n, q) == \A k \in p..(p + n - 1) : k \in DOMAIN t /\ t[k].ch = q

(* A string with an escaped quote at its end, and two more behind it. *)
EndsEscaped(t, p, q) ==
    /\ p \in DOMAIN t /\ t[p].mode.place = "string" /\ t[p].mode.run = 0
    /\ Row(t, p - 1, 4, q)

(* Four quotes of the other kind in a string. *)
FourInString(t, p, q) ==
    /\ p \in DOMAIN t /\ t[p].mode.place = "string" /\ t[p].mode.quote # q
    /\ Row(t, p, 4, q)

(* An escaped quote in a docstring, and two more behind it. *)
EscapedInDoc(t, p, q) ==
    /\ p \in DOMAIN t /\ t[p].mode.place = "doc" /\ t[p].mode.quote = q
    /\ t[p].mode.escaped
    /\ Row(t, p, 3, q)

(* A blank or a newline of the code. *)
Gap(t, p) == t[p].mode.place = "code" /\ t[p].ch \in {"blank", "newline"}

(***************************************************************************)
(* The text ends in a comment, a string or a docstring, and nothing but    *)
(* the like is between that and the letter p of the code.                  *)
(***************************************************************************)
EndsHidden(t, p) ==
    /\ Hidden(t, Len(t) + 1)
    /\ p \in DOMAIN t /\ t[p].mode.place = "code" /\ t[p].ch = "letter"
    /\ \A k \in DOMAIN t : k > p => ~ Gap(t, k)

Misread(t) ==
    \E p \in DOMAIN t :
       \/ EndsHidden(t, p)
       \/ \E q \in Quotes :
             EndsEscaped(t, p, q) \/ FourInString(t, p, q) \/ EscapedInDoc(t, p, q)

=============================================================================
