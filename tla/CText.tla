-------------------------------- MODULE CText --------------------------------
(***************************************************************************)
(* Texts of C-like languages as their reader sees them: a text falls into  *)
(* pieces, each of code, a comment, a string or an include directive.      *)
(* This is the reference that Strip is held against, and no part of the    *)
(* program.                                                                *)
(*                                                                         *)
(* A character is a class of characters: any letter, the word include, a   *)
(* blank or tabulator, a newline, and / * # \ ' " by their names.  With it *)
(* go the piece it is in, by its kind and its ends, and                    *)
(*  - escaped: behind a backslash of the piece that is not escaped;        *)
(*  - start: nothing but blanks is in front of it in its line.             *)
(***************************************************************************)
EXTENDS Naturals, Sequences

Quotes == {"single", "double"}

Chars == Quotes \cup {"letter", "include", "blank", "newline", "slash", "star", "hash", "backslash"}

Kinds == {"code", "line", "block", "string", "header"}

Character == [ch : Chars, kind : Kinds, first : Nat, last : Nat,
              escaped : BOOLEAN, start : BOOLEAN]

Is(t, p, c) == p \in DOMAIN t /\ t[p].ch = c

(* The word behind the # at p and blanks. *)
Includes(t, p) ==
    \E w \in DOMAIN t :
        w > p /\ t[w].ch = "include" /\ \A b \in (p + 1)..(w - 1) : t[b].ch = "blank"

(* The kind of the piece that begins at p. *)
Kind(t, p) ==
    IF t[p].ch \in Quotes THEN "string"
    ELSE IF t[p].ch = "slash" /\ Is(t, p + 1, "slash") THEN "line"
    ELSE IF t[p].ch = "slash" /\ Is(t, p + 1, "star") THEN "block"
    ELSE IF t[p].ch = "hash" /\ t[p].start /\ Includes(t, p) THEN "header"
    ELSE "code"

(***************************************************************************)
(* The piece that begins at p is whole at e.  Code is in pieces of one     *)
(* character, but for a backslash and what is behind it.                   *)
(***************************************************************************)
Whole(t, p, e) ==
    CASE t[p].kind = "code"   -> t[p].ch = "backslash" => e = p + 1
      [] t[p].kind = "line"   -> e > p + 1 /\ t[e].ch = "newline" /\ t[e - 1].ch # "backslash"
      [] t[p].kind = "block"  -> e > p + 2 /\ t[e].ch = "slash" /\ t[e - 1].ch = "star"
      [] t[p].kind = "string" -> e > p /\ t[e].ch = t[p].ch /\ ~ t[e].escaped
      [] t[p].kind = "header" -> t[e].ch = "newline"

Escaped(t, p) == t[p].first < p /\ t[p - 1].ch = "backslash" /\ ~ t[p - 1].escaped

Start(t, p) ==
    p = 1 \/ /\ t[p - 1].last = p - 1
             /\ \/ t[p - 1].ch = "newline" /\ ~ t[p - 1].escaped
                \/ t[p - 1].ch = "blank" /\ t[p - 1].start

(***************************************************************************)
(* A line ends in no string, unless by a \, which is in code only there.   *)
(* An include directive is in a line of its own.                           *)
(***************************************************************************)
Allowed(t, p) ==
    t[p].first < p =>
        /\ t[p].kind = "string" /\ t[p].ch = "newline" => t[p].escaped
        /\ t[p].kind = "code" => t[p].ch = "newline"
        /\ t[p].kind = "header" /\ t[p].ch = "star" => t[p - 1].ch # "slash"
        /\ t[p].kind = "header" => t[p].ch # "backslash"

(* The pieces follow each other, and each is as long as it must be. *)
Pieces(t) ==
    \A p \in DOMAIN t :
       LET f == t[p].first
           l == t[p].last
       IN  /\ f \in 1..p /\ l \in p..Len(t)
           /\ \A q \in f..l : t[q].kind = t[p].kind /\ t[q].first = f /\ t[q].last = l
           /\ t[p].kind = Kind(t, f)
           /\ \A e \in f..(l - 1) : ~ Whole(t, f, e)
           /\ Whole(t, f, l) \/ l = Len(t)

CLike(t) ==
    /\ t \in Seq(Character)
    /\ Pieces(t)
    /\ \A p \in DOMAIN t :
          t[p].escaped = Escaped(t, p) /\ t[p].start = Start(t, p) /\ Allowed(t, p)

(* Where the last piece begins if it is not whole, and Len(t) + 1 otherwise. *)
OpenAt(t) ==
    IF t # <<>> /\ ~ Whole(t, t[Len(t)].first, Len(t)) THEN t[Len(t)].first ELSE Len(t) + 1

-----------------------------------------------------------------------------
(***************************************************************************)
(* What handle_cstyle and strip_c misread.  FirstHeader, LineGoesOn and    *)
(* LateHeader are where python, and FirstHeader where C, goes wrong.  The  *)
(* others do harm only among certain characters: FarInclude where nothing  *)
(* in front of it in its line is kept, the others when more of a comment   *)
(* or of a string follows.  Of nothing with one of them is anything said.  *)
(***************************************************************************)

(* An include directive in the first line. *)
FirstHeader(t, p) ==
    t[p].kind = "header" /\ \A q \in 1..(t[p].first - 1) : t[q].ch = "blank"

(* The # and the word include elsewhere. *)
FarInclude(t, p) ==
    t[p].ch = "hash" /\ t[p].kind \in {"code", "string"} /\ Includes(t, p)

(* A slash in front of the end of a continued line. *)
SlashGoesOn(t, p) ==
    t[p].ch = "slash" /\ t[p].kind = "code" /\ Is(t, p + 1, "backslash")

(* Behind a line comment, what is no other one, but begins like a comment. *)
BehindLine(t, p) ==
    /\ t[p].kind = "line" /\ t[p].last = p /\ p + 1 \in DOMAIN t
    /\ \/ t[p + 1].ch \in {"star", "backslash"}
       \/ t[p + 1].ch = "slash" /\ t[p + 1].kind # "line"

(* Directly behind a block comment, what has an effect. *)
BehindBlock(t, p) ==
    /\ t[p].kind = "block" /\ t[p].last = p /\ p + 1 \in DOMAIN t
    /\ t[p + 1].ch \in Quotes \cup {"slash"}

(* A block comment that seems to end where it begins. *)
EarlyEnd(t, p) ==
    t[p].kind = "block" /\ Is(t, t[p].first + 2, "slash")

(* An empty line comment. *)
EmptyLine(t, p) ==
    t[p].kind = "line" /\ t[p].last = t[p].first + 2 /\ t[t[p].last].ch = "newline"

(* A slash at the end, behind which strip.c:126-131 looks for a newline. *)
EndsInSlash(t) ==
    OpenAt(t) \in DOMAIN t /\ t[Len(t)].ch = "slash" /\ t[Len(t)].kind # "string"

(* A line comment of several lines. *)
LineGoesOn(t, p) ==
    t[p].kind = "line" /\ t[p].ch = "newline" /\ p < t[p].last

White(t, p) == p \in DOMAIN t /\ t[p].kind = "code" /\ t[p].ch \in {"blank", "newline"}

(* A newline that is not the second blank in a row, which strip_c drops. *)
FirstWhite(t, p) == White(t, p) /\ t[p].ch = "newline" /\ ~ White(t, p - 1)

(* The slash of a line comment behind another, which takes the last newline back. *)
NextLine(t, p) == t[p].kind = "line" /\ t[p].first = p /\ t[p - 1].kind = "line"

(* A newline is what strip_c keeps last in front of p: behind it there is  *)
(* nothing but blanks and what leaves no trace.                            *)
BehindNewline(t, p) ==
    \E q \in 1..(p - 1) :
        /\ FirstWhite(t, q)
        /\ \A r \in (q + 1)..(p - 1) :
              (t[r].kind = "code" => White(t, r)) /\ ~ NextLine(t, r)

(* An include directive, the newline in front of which strip_c has dropped. *)
LateHeader(t, p) == t[p].kind = "header" /\ ~ BehindNewline(t, t[p].first)

Misread(language, t) ==
    \/ language = "C" /\ EndsInSlash(t)
    \/ \E p \in DOMAIN t :
          \/ FirstHeader(t, p) \/ FarInclude(t, p) \/ SlashGoesOn(t, p)
          \/ BehindLine(t, p) \/ BehindBlock(t, p) \/ EarlyEnd(t, p)
          \/ language = "C" /\ EmptyLine(t, p)
          \/ language = "Python" /\ (LineGoesOn(t, p) \/ LateHeader(t, p))

=============================================================================
