--------------------------- MODULE StripPythonProofs ---------------------------
(***************************************************************************)
(* Proofs about StripPython, for any python texts that are not Misread.    *)
(***************************************************************************)
EXTENDS StripPython, TLAPS

(* A character that is not the null character is one of the text. *)
LEMMA CharInText ==
    ASSUME text \in Seq(Character), NEW p \in Nat \ {0}
    PROVE  /\ Char(p) # "end" => p \in DOMAIN text
           /\ Char(p) = "end" => p \notin DOMAIN text
           /\ p <= Len(text) => Char(p) \in Chars
<1>1. \A n \in DOMAIN text : text[n].ch \in Chars
  <2>1. \A n \in DOMAIN text : text[n] \in Character
    OBVIOUS
  <2>2. \A c \in Character : c.ch \in Chars
    BY DEF Character
  <2> QED
    BY <2>1, <2>2
<1>2. "end" \notin Chars
  BY DEF Chars, Quotes
<1>3. DOMAIN text = 1..Len(text) /\ Len(text) \in Nat
  OBVIOUS
<1>4. CASE p \in DOMAIN text
  BY <1>1, <1>2, <1>4 DEF Char
<1>5. CASE p \notin DOMAIN text
  <2>1. Char(p) = "end"
    BY <1>5 DEF Char
  <2>2. ~ (p <= Len(text))
    BY <1>3, <1>5
  <2> QED
    BY <1>5, <2>1, <2>2
<1> QED
  BY <1>4, <1>5

(* Cutting off the last position leaves the others in their order. *)
LEMMA ShorterOrdered ==
    ASSUME NEW o, NEW p \in Nat, Ordered(o, p)
    PROVE  Ordered(Shorter(o), p + 1)
<1>1. CASE o = <<>>
  BY <1>1 DEF Ordered, Shorter
<1>2. CASE o # <<>>
  <2>1. o \in Seq(DOMAIN text) /\ Len(o) \in Nat \ {0}
    BY <1>2 DEF Ordered
  <2>2. Shorter(o) = SubSeq(o, 1, Len(o) - 1)
    BY <1>2 DEF Shorter
  <2>3. /\ Shorter(o) \in Seq(DOMAIN text)
        /\ DOMAIN Shorter(o) = 1..(Len(o) - 1)
        /\ \A n \in 1..(Len(o) - 1) : Shorter(o)[n] = o[n]
    BY <2>1, <2>2
  <2>4. \A n \in DOMAIN o : o[n] \in Nat
    BY <2>1
  <2>5. 1..(Len(o) - 1) \subseteq DOMAIN o
    BY <2>1
  <2>6. \A n \in DOMAIN Shorter(o) : Shorter(o)[n] < p + 1
    BY <2>3, <2>4, <2>5 DEF Ordered
  <2>7. \A m, n \in DOMAIN Shorter(o) : m < n => Shorter(o)[m] < Shorter(o)[n]
    BY <2>3, <2>5 DEF Ordered
  <2> QED
    BY <2>3, <2>6, <2>7 DEF Ordered
<1> QED
  BY <1>1, <1>2

(* A position that is not below p may be added to those below p. *)
LEMMA AppendOrdered ==
    ASSUME NEW o, NEW p \in DOMAIN text, text \in Seq(Character), Ordered(o, p)
    PROVE  Ordered(Append(o, p), p + 1)
<1>1. o \in Seq(DOMAIN text) /\ Len(o) \in Nat /\ p \in Nat
  BY DEF Ordered
<1>2. /\ Append(o, p) \in Seq(DOMAIN text)
      /\ DOMAIN Append(o, p) = 1..(Len(o) + 1)
      /\ \A n \in 1..Len(o) : Append(o, p)[n] = o[n]
      /\ Append(o, p)[Len(o) + 1] = p
  BY <1>1
<1>3. \A n \in 1..Len(o) : o[n] \in Nat /\ o[n] < p
  BY <1>1 DEF Ordered
<1>4. \A m, n \in 1..Len(o) : m < n => o[m] < o[n]
  BY <1>1 DEF Ordered
<1>5. \A n \in 1..(Len(o) + 1) : n \in 1..Len(o) \/ n = Len(o) + 1
  BY <1>1
<1>6. \A n \in DOMAIN Append(o, p) : Append(o, p)[n] < p + 1
  BY <1>1, <1>2, <1>3, <1>5
<1>7. \A m, n \in DOMAIN Append(o, p) : m < n => Append(o, p)[m] < Append(o, p)[n]
  BY <1>1, <1>2, <1>3, <1>4, <1>5
<1> QED
  BY <1>2, <1>6, <1>7 DEF Ordered

(* What the loop's body ends with keeps the output in order. *)
LEMMA EmitOrdered ==
    ASSUME TypeOK, pc = "run", NEW skip, Emit(skip), text' = text
    PROVE  /\ Ordered(out, pos)'
           /\ pos' \in 1..(Len(text) + 2)
           /\ pc' = "run" => pos' <= Len(text) + 1
           /\ escape' \in BOOLEAN
           /\ pc' \in {"run", "done"}
<1>1. /\ text \in Seq(Character) /\ pos \in Nat \ {0} /\ Len(text) \in Nat
      /\ pos <= Len(text) + 1
      /\ Ordered(out, pos)
  <2>1. text \in Seq(Character) /\ pos \in 1..(Len(text) + 2)
    BY DEF TypeOK
  <2>2. Len(text) \in Nat
    BY <2>1
  <2> QED
    BY <2>1, <2>2 DEF TypeOK
<1>2. pos' = pos + 1
  BY DEF Emit
<1>3. /\ Char(pos) # "end" => pos \in DOMAIN text
      /\ Char(pos) = "end" => pos \notin DOMAIN text
  BY <1>1, CharInText
<1>4. out' \in {out, Shorter(out)} \/ (out' = Append(out, pos) /\ pos \in DOMAIN text)
  BY <1>3 DEF Emit
<1>5. Ordered(out, pos + 1)
  <2>1. \A n \in DOMAIN out : out[n] \in Nat
    BY <1>1 DEF Ordered
  <2> QED
    BY <1>1, <2>1 DEF Ordered
<1>6. Ordered(out', pos + 1)
  BY <1>1, <1>4, <1>5, ShorterOrdered, AppendOrdered
<1>7. Ordered(out, pos)'
  BY <1>2, <1>6 DEF Ordered
<1>8. pc' = "run" => pos <= Len(text)
  <2>1. pc' = "run" => Char(pos) # "end"
    BY DEF Emit
  <2> QED
    BY <1>1, <1>3, <2>1
<1>9. escape' \in BOOLEAN /\ pc' \in {"run", "done"}
  BY DEF Emit
<1>10. pos' \in 1..(Len(text) + 2) /\ (pc' = "run" => pos' <= Len(text) + 1)
  BY <1>1, <1>2, <1>8
<1> QED
  BY <1>7, <1>9, <1>10

(* What the second switch makes of each counter. *)
LEMMA SettledValue ==
    ASSUME NEW n \in [Quotes -> 0..3], NEW d, NEW c
    PROVE  /\ Settled(n, d, c) \in [Quotes -> 0..3]
           /\ \A q \in Quotes :
                 Settled(n, d, c)[q] = IF d \notin {"none", q} THEN 0
                                       ELSE IF c = q THEN n[q]
                                       ELSE IF d = "none" THEN 0 ELSE 3
BY DEF Settled

(* The second switch keeps the counters in their bounds. *)
LEMMA SettledCounts ==
    ASSUME NEW n \in [Quotes -> 0..3], NEW d \in Quotes \cup {"none"}, NEW c,
           d = "none" => \A q \in Quotes : n[q] < 3,
           d # "none" => n[d] > 0
    PROVE  /\ Settled(n, d, c) \in [Quotes -> 0..3]
           /\ \A q \in Quotes :
                 /\ d = q => Settled(n, d, c)[q] > 0
                 /\ d # q => Settled(n, d, c)[q] < 3
                 /\ d \notin {"none", q} => Settled(n, d, c)[q] = 0
<1>1. ASSUME NEW q \in Quotes
      PROVE  /\ d = q => Settled(n, d, c)[q] > 0
             /\ d # q => Settled(n, d, c)[q] < 3
             /\ d \notin {"none", q} => Settled(n, d, c)[q] = 0
  <2>1. CASE d = q
    BY <2>1, SettledValue DEF Quotes
  <2>2. CASE d # q /\ d # "none"
    BY <2>2, SettledValue
  <2>3. CASE d # q /\ d = "none"
    BY <2>3, SettledValue
  <2> QED
    BY <2>1, <2>2, <2>3
<1> QED
  BY <1>1, SettledValue

(* The type invariant once the variables other than the output are known. *)
LEMMA RoundOK ==
    ASSUME TypeOK, pc = "run", NEW skip, Emit(skip), text' = text,
           doc' \in Quotes \cup {"none"}, quote' \in Quotes \cup {"none"},
           comment' \in BOOLEAN, space' \in 0..2, CountsOK'
    PROVE  TypeOK'
BY EmitOrdered DEF TypeOK

LEMMA StepType == TypeOK /\ [Next]_vars => TypeOK'
<1> SUFFICES ASSUME TypeOK, [Next]_vars
             PROVE  TypeOK'
  OBVIOUS
<1>1. /\ text \in Seq(Character) /\ Len(text) \in Nat
      /\ pos \in 1..(Len(text) + 2)
      /\ pc = "run" => pos <= Len(text) + 1
      /\ Ordered(out, pos)
      /\ doc \in Quotes \cup {"none"} /\ quote \in Quotes \cup {"none"}
      /\ CountsOK
      /\ comment \in BOOLEAN /\ escape \in BOOLEAN
      /\ space \in 0..2
  <2>1. text \in Seq(Character)
    BY DEF TypeOK
  <2> QED
    BY <2>1 DEF TypeOK
<1>2. /\ cnt \in [Quotes -> 0..3]
      /\ comment => doc = "none" /\ quote = "none"
      /\ doc = "none" => \A q \in Quotes : cnt[q] < 3
      /\ doc # "none" => cnt[doc] > 0 /\ quote = "none"
  BY <1>1 DEF CountsOK, Quotes
<1>3. CASE Refuse
  <2>1. UNCHANGED <<text, pos, out, doc, quote, cnt, comment, escape, space>>
    BY <1>3 DEF Refuse
  <2>2. pc' = "failed"
    BY <1>3 DEF Refuse
  <2> QED
    BY <2>1, <2>2 DEF TypeOK, CountsOK, Ordered
<1>4. CASE BeginComment
  <2>1. pos <= Len(text)
    BY <1>1, <1>4, CharInText DEF BeginComment, Running
  <2>2. /\ doc = "none" /\ quote = "none" /\ pc = "run"
        /\ comment' = TRUE /\ space' = 0 /\ pos' = pos + 1
        /\ UNCHANGED <<text, out, doc, quote, cnt, escape, pc>>
    BY <1>4 DEF BeginComment, Running, Quoted
  <2>3. Ordered(out, pos + 1)
    <3>1. \A n \in DOMAIN out : out[n] \in Nat
      BY <1>1 DEF Ordered
    <3> QED
      BY <1>1, <3>1 DEF Ordered
  <2>4. Ordered(out, pos)'
    BY <2>2, <2>3 DEF Ordered
  <2>5. CountsOK'
    BY <1>1, <2>2 DEF CountsOK
  <2>6. pos' \in 1..(Len(text') + 2) /\ pos' <= Len(text') + 1
    BY <1>1, <2>1, <2>2
  <2> QED
    BY <1>1, <2>2, <2>4, <2>5, <2>6 DEF TypeOK
<1>5. CASE SkipComment
  <2>1. /\ pc = "run" /\ pos' = pos + 1
        /\ UNCHANGED <<text, doc, quote, cnt, comment, escape, space>>
    BY <1>5 DEF SkipComment
  <2>2. \/ Char(pos) = "end" /\ out' = Shorter(out) /\ pc' = "done"
        \/ Char(pos) # "end" /\ out' = out /\ pc' = "run"
    BY <1>5 DEF SkipComment
  <2>3. Ordered(out, pos + 1)
    <3>1. \A n \in DOMAIN out : out[n] \in Nat
      BY <1>1 DEF Ordered
    <3> QED
      BY <1>1, <3>1 DEF Ordered
  <2>4. Ordered(out', pos + 1)
    BY <1>1, <2>2, <2>3, ShorterOrdered
  <2>5. Ordered(out, pos)'
    BY <2>1, <2>4 DEF Ordered
  <2>6. CountsOK'
    BY <1>1, <2>1 DEF CountsOK
  <2>7. pc' = "run" => pos <= Len(text)
    BY <1>1, <2>1, <2>2, CharInText
  <2>8. pos' \in 1..(Len(text') + 2) /\ (pc' = "run" => pos' <= Len(text') + 1)
    BY <1>1, <2>1, <2>7
  <2> QED
    BY <1>1, <2>1, <2>2, <2>5, <2>6, <2>8 DEF TypeOK
<1>6. CASE Newline
  <2>1. /\ pc = "run" /\ comment' = FALSE /\ space' = 0
        /\ cnt' = Settled(cnt, doc, "newline")
        /\ UNCHANGED <<text, doc, quote>>
        /\ Emit(LastChar = "newline")
    BY <1>6 DEF Newline, Running
  <2>2. CountsOK'
    BY <1>1, <1>2, <2>1, SettledCounts DEF CountsOK
  <2>3. /\ text' = text /\ doc' \in Quotes \cup {"none"} /\ quote' \in Quotes \cup {"none"}
        /\ space' \in 0..2
    BY <1>1, <2>1
  <2>4. comment' \in BOOLEAN
    BY <2>1
  <2> QED
    BY <2>1, <2>2, <2>3, <2>4, RoundOK
<1>7. CASE Blank
  <2>1. /\ pc = "run" /\ space' \in 0..2
        /\ cnt' = Settled(cnt, doc, "blank")
        /\ UNCHANGED <<text, doc, quote, comment>>
        /\ Emit(LastChar = "newline")
    BY <1>1, <1>7 DEF Blank, Running
  <2>2. CountsOK'
    BY <1>1, <1>2, <2>1, SettledCounts DEF CountsOK
  <2>3. /\ text' = text /\ doc' \in Quotes \cup {"none"} /\ quote' \in Quotes \cup {"none"}
        /\ comment' \in BOOLEAN /\ space' \in 0..2
    BY <1>1, <2>1
  <2> QED
    BY <2>1, <2>2, <2>3, RoundOK
<1>8. CASE Other
  <2>1. /\ pc = "run" /\ space' = 0
        /\ cnt' = Settled(cnt, doc, Char(pos))
        /\ UNCHANGED <<text, doc, quote, comment>>
        /\ Emit(FALSE)
    BY <1>8 DEF Other, Running
  <2>2. CountsOK'
    BY <1>1, <1>2, <2>1, SettledCounts DEF CountsOK
  <2>3. /\ text' = text /\ doc' \in Quotes \cup {"none"} /\ quote' \in Quotes \cup {"none"}
        /\ comment' \in BOOLEAN /\ space' \in 0..2
    BY <1>1, <2>1
  <2> QED
    BY <2>1, <2>2, <2>3, RoundOK
<1>9. ASSUME NEW q \in Quotes, CloseDocstring(q)
      PROVE  TypeOK'
  <2> DEFINE n == IF cnt[q] = 3 \/ Char(pos - 1) = q THEN cnt[q] - 1 ELSE 3
  <2>1. /\ pc = "run" /\ space' = 0 /\ ~ comment
        /\ doc = q
        /\ doc' = (IF n = 0 THEN "none" ELSE q)
        /\ cnt' = Settled([cnt EXCEPT ![q] = n], doc', q)
        /\ UNCHANGED <<text, quote, comment>>
        /\ Emit(n = 0)
    BY <1>9 DEF CloseDocstring, Running
  <2>2. n \in 0..3 /\ quote = "none" /\ q # "none"
    BY <1>1, <1>2, <2>1 DEF CountsOK, Quotes
  <2>3. \A r \in Quotes : r # q => cnt[r] = 0
    BY <1>1, <2>1 DEF CountsOK, Quotes
  <2> HIDE DEF n
  <2>4. /\ [cnt EXCEPT ![q] = n] \in [Quotes -> 0..3]
        /\ doc' \in Quotes \cup {"none"}
        /\ doc' = "none" => \A r \in Quotes : [cnt EXCEPT ![q] = n][r] < 3
        /\ doc' # "none" => [cnt EXCEPT ![q] = n][doc'] > 0
    BY <1>2, <2>1, <2>2, <2>3
  <2>5. CountsOK'
    <3> DEFINE m == [cnt EXCEPT ![q] = n]
    <3>1. /\ Settled(m, doc', q) \in [Quotes -> 0..3]
          /\ \A r \in Quotes :
                /\ doc' = r => Settled(m, doc', q)[r] > 0
                /\ doc' # r => Settled(m, doc', q)[r] < 3
                /\ doc' \notin {"none", r} => Settled(m, doc', q)[r] = 0
      BY <2>4, SettledCounts
    <3>2. cnt' = Settled(m, doc', q) /\ quote' = "none" /\ comment' = FALSE
      BY <1>1, <2>1, <2>2
    <3> HIDE DEF m
    <3> QED
      BY <3>1, <3>2 DEF CountsOK
  <2>6. /\ text' = text /\ quote' \in Quotes \cup {"none"}
        /\ comment' \in BOOLEAN /\ space' \in 0..2
    BY <1>1, <2>1
  <2> QED
    BY <2>1, <2>4, <2>5, <2>6, RoundOK
<1>10. ASSUME NEW q \in Quotes, QuoteInDocstring(q)
       PROVE  TypeOK'
  <2>1. /\ pc = "run" /\ space' = 0
        /\ cnt' = Settled(cnt, doc, q)
        /\ UNCHANGED <<text, doc, quote, comment>>
        /\ Emit(FALSE)
    BY <1>10 DEF QuoteInDocstring, Running
  <2>2. CountsOK'
    BY <1>1, <1>2, <2>1, SettledCounts DEF CountsOK
  <2>3. /\ text' = text /\ doc' \in Quotes \cup {"none"} /\ quote' \in Quotes \cup {"none"}
        /\ comment' \in BOOLEAN /\ space' \in 0..2
    BY <1>1, <2>1
  <2> QED
    BY <2>1, <2>2, <2>3, RoundOK
<1>11. ASSUME NEW q \in Quotes, OpenDocstring(q)
       PROVE  TypeOK'
  <2>1. /\ pc = "run" /\ space' = 0 /\ ~ comment
        /\ doc' = q /\ quote' = "none"
        /\ cnt' = Settled([cnt EXCEPT ![q] = 3], q, q)
        /\ UNCHANGED <<text, comment>>
        /\ Emit(TRUE)
    BY <1>11 DEF OpenDocstring, Running
  <2>2. /\ [cnt EXCEPT ![q] = 3] \in [Quotes -> 0..3]
        /\ q # "none" /\ [cnt EXCEPT ![q] = 3][q] > 0
    BY <1>2 DEF Quotes
  <2>3. CountsOK'
    BY <2>1, <2>2, SettledCounts DEF CountsOK
  <2>4. /\ text' = text /\ doc' \in Quotes \cup {"none"} /\ quote' \in Quotes \cup {"none"}
        /\ comment' \in BOOLEAN /\ space' \in 0..2
    BY <1>1, <2>1
  <2> QED
    BY <2>1, <2>3, <2>4, RoundOK
<1>12. ASSUME NEW q \in Quotes, Quote(q)
       PROVE  TypeOK'
  <2>1. /\ pc = "run" /\ space' = 0 /\ ~ comment
        /\ doc = "none" /\ Counted(q) < 3
        /\ quote' \in {"none", q, quote}
        /\ cnt' = Settled([cnt EXCEPT ![q] = Counted(q)], "none", q)
        /\ UNCHANGED <<text, doc, comment>>
        /\ Emit(quote = q /\ ~ escape)
    BY <1>12 DEF Quote, Running
  <2>2. Counted(q) \in 0..3
    BY <1>2, <2>1 DEF Counted
  <2>3. /\ [cnt EXCEPT ![q] = Counted(q)] \in [Quotes -> 0..3]
        /\ \A r \in Quotes : [cnt EXCEPT ![q] = Counted(q)][r] < 3
    BY <1>2, <2>1, <2>2
  <2>4. CountsOK'
    BY <2>1, <2>3, SettledCounts DEF CountsOK, Quotes
  <2>5. /\ text' = text /\ doc' \in Quotes \cup {"none"} /\ quote' \in Quotes \cup {"none"}
        /\ comment' \in BOOLEAN /\ space' \in 0..2
    BY <1>1, <2>1
  <2> QED
    BY <2>1, <2>4, <2>5, RoundOK
<1>13. CASE UNCHANGED vars
  BY <1>13 DEF TypeOK, CountsOK, Ordered, vars
<1> QED
  BY <1>3, <1>4, <1>5, <1>6, <1>7, <1>8, <1>9, <1>10, <1>11, <1>12, <1>13
  DEF Next, Stopped

LEMMA InitType == Init => TypeOK
<1> SUFFICES ASSUME Init
             PROVE  TypeOK
  OBVIOUS
<1>1. text \in Seq(Character) /\ Len(text) \in Nat
  <2>1. text \in Seq(Character)
    BY TextAssumption DEF Init, Python
  <2> QED
    BY <2>1
<1>2. Ordered(out, pos)
  BY DEF Init, Ordered
<1>3. CountsOK
  BY DEF Init, CountsOK, Quotes
<1>4. pos \in 1..(Len(text) + 2) /\ pos <= Len(text) + 1
  BY <1>1 DEF Init
<1>5. comment \in BOOLEAN /\ escape \in BOOLEAN
  BY DEF Init
<1>6. /\ doc \in Quotes \cup {"none"} /\ quote \in Quotes \cup {"none"}
      /\ space \in 0..2 /\ pc = "run"
  BY DEF Init
<1> QED
  BY <1>1, <1>2, <1>3, <1>4, <1>5, <1>6 DEF TypeOK

(***************************************************************************)
(* For any texts: the output is a part of the text in its order, strings   *)
(* and docstrings exclude each other, and the counters keep their bounds   *)
(* (strip.c:255-292, 311-429).                                             *)
(***************************************************************************)
THEOREM TypeCorrect == Spec => []TypeOK
BY InitType, StepType, PTL DEF Spec

-----------------------------------------------------------------------------
(***************************************************************************)
(* The inductive invariant: what the variables of the automaton are in     *)
(* every mode of python's reader.                                          *)
(***************************************************************************)

Here == ModeAt(text, pos)

(* The flags say in which comment, string or docstring the reader is. *)
Agreeing ==
    /\ comment = (Here.place = "comment")
    /\ quote = IF Here.place = "string" THEN Here.quote ELSE "none"
    /\ doc = IF Here.place = "doc" THEN Here.quote ELSE "none"
    /\ escape = Here.escaped

(* In front of p a string of q ends, with an escaped quote at its end. *)
EndedEscaped(p, q) ==
    /\ p > 2 /\ Row(text, p - 2, 2, q)
    /\ text[p - 1].mode.place = "string" /\ text[p - 1].mode.run = 0

(* In front of the n quotes in front of p there is an escaped one. *)
BeganEscaped(p, n, q) ==
    /\ p > n + 1 /\ Row(text, p - 1 - n, n + 1, q)
    /\ text[p - 1 - n].mode.place = "doc" /\ text[p - 1 - n].mode.quote = q
    /\ text[p - 1 - n].mode.escaped

(* In code, the quotes of q that an empty string or the end of one leaves. *)
CountInCode(q) ==
    cnt[q] = IF Here.run = 2 /\ Here.quote = q THEN 2
             ELSE IF EndedEscaped(pos, q) THEN 1 ELSE 0

(* In a string, the quote that began it. *)
CountOfString ==
    cnt[Here.quote] = IF Here.run = 0 THEN 0
                      ELSE IF EndedEscaped(pos - 1, Here.quote) THEN 2 ELSE 1

(* In a string, the other quotes in a row, without the first one. *)
CountInString(q) ==
    q # Here.quote /\ cnt[q] > 0 =>
       \A k \in 0..cnt[q] :
          /\ pos - 1 - k \in DOMAIN text
          /\ text[pos - 1 - k].ch = q
          /\ text[pos - 1 - k].mode.place = "string"
          /\ text[pos - 1 - k].mode.quote = Here.quote

(* In a docstring, what is missing to three quotes in a row. *)
CountInDoc ==
    cnt[Here.quote] =
       (IF BeganEscaped(pos, Here.run, Here.quote) THEN 2 ELSE 3) - Here.run

Counting ==
    /\ Here.place = "code" => \A q \in Quotes : CountInCode(q)
    /\ Here.place = "string" => CountOfString /\ \A q \in Quotes : CountInString(q)
    /\ Here.place = "doc" => CountInDoc

(* A letter of the code. *)
Word(p) == p \in DOMAIN text /\ text[p].ch = "letter" /\ text[p].mode.place = "code"

(* Of the letters in front of p, those of the code are kept, and no others. *)
Keeping(p, o) ==
    /\ \A k \in DOMAIN text : k < p /\ Word(k) => \E n \in DOMAIN o : o[n] = k
    /\ \A n \in DOMAIN o : text[o[n]].ch = "letter" => Word(o[n])

(* Behind the last position of o the code has no gap, if it is a letter. *)
Ending(p, o) ==
    o # <<>> /\ text[o[Len(o)]].ch = "letter" =>
       \A k \in DOMAIN text : o[Len(o)] < k /\ k < p => ~ Gap(text, k)

Spacing == Here.place = "code" /\ space > 0 => LastChar = "blank"

Reading == Agreeing /\ Counting /\ Spacing

IInv ==
    /\ TypeOK
    /\ Python(text) /\ ~ Misread(text)
    /\ pc = "run" => Reading /\ Keeping(pos, out) /\ Ending(pos, out)
    /\ pc = "done" => pos \notin DOMAIN text /\ Keeping(pos, out)
    /\ pc = "failed" => text = <<>>
-----------------------------------------------------------------------------
(* A mode is followed by one of its own kind of record. *)
LEMMA BehindMode ==
    ASSUME NEW m \in Mode, NEW c \in Chars
    PROVE  Behind(m, c) \in Mode
<1>1. CASE m.place = "code"
  BY <1>1 DEF Behind, BehindCode, Code, At, Mode, Chars, Quotes
<1>2. CASE m.place = "comment"
  BY <1>2 DEF Behind, Code, At, Mode
<1>3. CASE m.place = "string"
  BY <1>3 DEF Behind, BehindString, Code, At, Mode, Chars, Quotes
<1>4. CASE m.place = "doc"
  <2>1. m.quote \in Quotes /\ m.run \in 0..2
    BY <1>4 DEF Mode
  <2>2. m.run # 2 => m.run + 1 \in 0..2
    BY <2>1
  <2> QED
    BY <1>4, <2>1, <2>2 DEF Behind, BehindDoc, Code, At, Mode
<1> QED
  BY <1>1, <1>2, <1>3, <1>4 DEF Mode

(* What a mode says of the character in front of it. *)
LEMMA BehindFacts ==
    ASSUME NEW m \in Mode, NEW c \in Chars, NEW n, n = Behind(m, c)
    PROVE  /\ n.escaped => c = "backslash"
           /\ n.place = "string" /\ n.run = 1 => c = n.quote
           /\ n.place = "string" /\ c \in Quotes /\ c # n.quote
                 => m.place = "string" /\ m.quote = n.quote
           /\ n.place = "code" /\ n.run = 2 => c = n.quote /\ m.place = "string" /\ m.run = 1
           /\ n.place = "doc" /\ n.run > 0
                 => c = n.quote /\ m.place = "doc" /\ m.quote = c /\ m.run = n.run - 1
           /\ n.place = "doc" /\ m.place = "doc" => n.quote = m.quote
           /\ c \notin Quotes => n.run = 0
<1>1. CASE m.place = "code"
  BY <1>1 DEF Behind, BehindCode, Code, At, Mode, Chars, Quotes
<1>2. CASE m.place = "comment"
  BY <1>2 DEF Behind, Code, At, Mode
<1>3. CASE m.place = "string"
  <2>1. n = BehindString(m, c)
    BY <1>3 DEF Behind
  <2>2. CASE m.escaped \/ c \notin {m.quote, "backslash"}
    BY <1>3, <2>1, <2>2 DEF BehindString, At
  <2>3. CASE ~ m.escaped /\ c = "backslash"
    BY <1>3, <2>1, <2>3 DEF BehindString, At, Mode, Quotes
  <2>4. CASE ~ m.escaped /\ c = m.quote
    <3>1. c # "backslash" /\ c \in Quotes /\ m.run \in 0..2
      BY <1>3, <2>4 DEF Mode, Quotes
    <3> QED
      BY <1>3, <2>1, <2>4, <3>1 DEF BehindString, At, Code
  <2> QED
    BY <2>2, <2>3, <2>4
<1>4. CASE m.place = "doc"
  <2>1. n = BehindDoc(m, c)
    BY <1>4 DEF Behind
  <2>2. CASE m.escaped \/ c \notin {m.quote, "backslash"}
    BY <1>4, <2>1, <2>2 DEF BehindDoc, At
  <2>3. CASE ~ m.escaped /\ c = "backslash"
    BY <1>4, <2>1, <2>3 DEF BehindDoc, At, Mode, Quotes
  <2>4. CASE ~ m.escaped /\ c = m.quote
    <3>1. c # "backslash" /\ c \in Quotes /\ m.run \in 0..2
      BY <1>4, <2>4 DEF Mode, Quotes
    <3> QED
      BY <1>4, <2>1, <2>4, <3>1 DEF BehindDoc, At, Code
  <2> QED
    BY <2>2, <2>3, <2>4
<1> QED
  BY <1>1, <1>2, <1>3, <1>4 DEF Mode

(* What the invariant says while the loop runs. *)
LEMMA Facts ==
    ASSUME IInv, pc = "run"
    PROVE  /\ text \in Seq(Character) /\ Len(text) \in Nat /\ DOMAIN text = 1..Len(text)
           /\ pos \in Nat \ {0} /\ pos <= Len(text) + 1
           /\ out \in Seq(DOMAIN text) /\ Ordered(out, pos)
           /\ cnt \in [Quotes -> 0..3] /\ CountsOK /\ space \in 0..2
           /\ \A p \in DOMAIN text :
                 /\ text[p].ch \in Chars /\ text[p].mode \in Mode
                 /\ text[p].mode = ModeAt(text, p)
                 /\ Allowed(text[p].mode, text[p].ch)
           /\ Here \in Mode
<1>1. text \in Seq(Character) /\ pos \in 1..(Len(text) + 2) /\ Python(text)
  BY DEF IInv, TypeOK
<1>2. Len(text) \in Nat /\ DOMAIN text = 1..Len(text)
  BY <1>1
<1>3. \A p \in DOMAIN text : text[p] \in Character
  BY <1>1
<1>4. \A p \in DOMAIN text :
         /\ text[p].ch \in Chars /\ text[p].mode \in Mode
         /\ text[p].mode = ModeAt(text, p)
         /\ Allowed(text[p].mode, text[p].ch)
  BY <1>1, <1>3 DEF Python, Character
<1>5. pos \in Nat \ {0} /\ pos <= Len(text) + 1
  BY <1>1, <1>2 DEF IInv, TypeOK
<1>6. Here \in Mode
  <2>1. CASE pos = 1
    BY <2>1 DEF Here, ModeAt, Code, At, Mode
  <2>2. CASE pos # 1
    <3>1. pos - 1 \in DOMAIN text
      BY <1>2, <1>5, <2>2
    <3> QED
      BY <1>4, <2>2, <3>1, BehindMode DEF Here, ModeAt
  <2> QED
    BY <2>1, <2>2
<1> QED
  BY <1>1, <1>2, <1>4, <1>5, <1>6 DEF IInv, TypeOK, CountsOK, Ordered

(* The mode behind a character. *)
LEMMA NextMode ==
    ASSUME NEW t, NEW p \in Nat \ {0}
    PROVE  ModeAt(t, p + 1) = Behind(t[p].mode, t[p].ch)
BY DEF ModeAt

(* The mode that a round of the loop leads to. *)
LEMMA Forward ==
    ASSUME IInv, pc = "run", pos \in DOMAIN text, text' = text, pos' = pos + 1
    PROVE  /\ text[pos].mode = Here
           /\ Char(pos) = text[pos].ch
           /\ Here' = Behind(Here, Char(pos))
           /\ Allowed(Here, Char(pos))
<1>1. text[pos].mode = Here /\ Allowed(text[pos].mode, text[pos].ch) /\ pos \in Nat \ {0}
  BY Facts DEF Here
<1>2. Char(pos) = text[pos].ch
  BY DEF Char
<1>3. ModeAt(text, pos + 1) = Behind(text[pos].mode, text[pos].ch)
  BY <1>1, NextMode
<1>4. Here' = ModeAt(text, pos + 1)
  BY DEF Here, ModeAt
<1> QED
  BY <1>1, <1>2, <1>3, <1>4

(* What the mode says of the character in front of it. *)
LEMMA Backward ==
    ASSUME IInv, pc = "run", pos > 1
    PROVE  /\ pos - 1 \in DOMAIN text
           /\ Char(pos - 1) = text[pos - 1].ch
           /\ text[pos - 1].ch \in Chars /\ text[pos - 1].mode \in Mode
           /\ Here = Behind(text[pos - 1].mode, text[pos - 1].ch)
<1>1. pos - 1 \in DOMAIN text
  BY Facts
<1> QED
  BY <1>1, Facts DEF Here, ModeAt, Char

(* Only code begins a text. *)
LEMMA First == ASSUME pos = 1 PROVE Here = Code
BY DEF Here, ModeAt

(* The last character that is kept is one of the text. *)
LEMMA LastKept ==
    ASSUME IInv, pc = "run", out # <<>>
    PROVE  /\ Len(out) \in Nat \ {0} /\ out[Len(out)] \in DOMAIN text
           /\ out[Len(out)] < pos
           /\ LastChar = text[out[Len(out)]].ch
<1>1. out \in Seq(DOMAIN text) /\ \A n \in DOMAIN out : out[n] < pos
  BY Facts DEF Ordered
<1>2. Len(out) \in Nat \ {0} /\ Len(out) \in DOMAIN out
  BY <1>1
<1>3. out[Len(out)] \in DOMAIN text
  BY <1>1, <1>2
<1> QED
  BY <1>1, <1>2, <1>3 DEF LastChar, Char

(* A round that keeps nothing reads no word, nor a gap behind one. *)
LEMMA KeepNothing ==
    ASSUME IInv, pc = "run", pos \in DOMAIN text, text' = text, pos' = pos + 1,
           out' = out, ~ Word(pos), Gap(text, pos) => LastChar # "letter"
    PROVE  Keeping(pos, out)' /\ Ending(pos, out)'
<1>1. Keeping(pos, out) /\ Ending(pos, out)
  BY DEF IInv
<1>2. \A k \in DOMAIN text : k \in Nat /\ (k < pos + 1 => k < pos \/ k = pos)
  BY Facts
<1>3. Keeping(pos, out)'
  BY <1>1, <1>2 DEF Keeping, Word
<1>4. Ending(pos, out)'
  <2>1. CASE out = <<>>
    BY <2>1 DEF Ending
  <2>2. CASE out # <<>>
    BY <1>1, <1>2, <2>2, LastKept DEF Ending, Gap
  <2> QED
    BY <2>1, <2>2
<1> QED
  BY <1>3, <1>4

(* A round that keeps its character reads no letter, or one of the code. *)
LEMMA KeepPosition ==
    ASSUME IInv, pc = "run", pos \in DOMAIN text, text' = text, pos' = pos + 1,
           out' = Append(out, pos), text[pos].ch = "letter" => Word(pos)
    PROVE  Keeping(pos, out)' /\ Ending(pos, out)'
<1>1. Keeping(pos, out) /\ out \in Seq(DOMAIN text) /\ Len(out) \in Nat
  BY Facts DEF IInv
<1>2. \A k \in DOMAIN text : k \in Nat /\ (k < pos + 1 => k < pos \/ k = pos)
  BY Facts
<1>3. /\ DOMAIN out = 1..Len(out) /\ DOMAIN out' = 1..(Len(out) + 1)
      /\ Len(out') = Len(out) + 1
      /\ \A n \in 1..Len(out) : out'[n] = out[n]
      /\ out'[Len(out) + 1] = pos
  BY <1>1
<1>4. ASSUME NEW k \in DOMAIN text, k < pos + 1, Word(k)
      PROVE  \E n \in DOMAIN out' : out'[n] = k
  <2>1. CASE k < pos
    <3>1. PICK n \in DOMAIN out : out[n] = k
      BY <1>1, <1>4, <2>1 DEF Keeping
    <3> QED
      BY <1>1, <1>3, <3>1
  <2>2. CASE k = pos
    BY <1>1, <1>3, <2>2
  <2> QED
    BY <1>2, <1>4, <2>1, <2>2
<1>5. ASSUME NEW n \in DOMAIN out', text[out'[n]].ch = "letter"
      PROVE  Word(out'[n])
  <2>1. CASE n \in 1..Len(out)
    BY <1>1, <1>3, <1>5, <2>1 DEF Keeping
  <2>2. CASE n = Len(out) + 1
    BY <1>3, <1>5, <2>2
  <2> QED
    BY <1>1, <1>3, <2>1, <2>2
<1>6. Keeping(pos, out)'
  BY <1>4, <1>5 DEF Keeping, Word
<1>7. Ending(pos, out)'
  <2>1. \A k \in DOMAIN text : ~ (pos < k /\ k < pos + 1)
    BY <1>2, Facts
  <2> QED
    BY <1>3, <2>1 DEF Ending
<1> QED
  BY <1>6, <1>7

(* At the end of a text in a comment or a string no word is cut off. *)
LEMMA CutOff ==
    ASSUME IInv, pc = "run", pos \notin DOMAIN text, text' = text, pos' = pos + 1,
           out' = out \/ (out' = Shorter(out) /\ Here.place # "code")
    PROVE  Keeping(pos, out)'
<1>1. /\ Keeping(pos, out) /\ Ending(pos, out)
      /\ out \in Seq(DOMAIN text) /\ Len(out) \in Nat /\ DOMAIN out = 1..Len(out)
  BY Facts DEF IInv
<1>2. \A k \in DOMAIN text : k \in Nat /\ k < pos
  BY Facts
<1>3. pos = Len(text) + 1 /\ Len(text) \in Nat /\ DOMAIN text = 1..Len(text)
  BY Facts
<1>4. CASE out' = out
  BY <1>1, <1>2, <1>4 DEF Keeping, Word
<1>5. CASE out' = Shorter(out) /\ Here.place # "code" /\ out # <<>>
  <2>1. out \in Seq(DOMAIN text) /\ Len(out) \in Nat \ {0}
    BY <1>1, <1>5, LastKept
  <2>2. out' = SubSeq(out, 1, Len(out) - 1)
    BY <1>5 DEF Shorter
  <2> DEFINE o == SubSeq(out, 1, Len(out) - 1)
  <2>3. DOMAIN o = 1..(Len(out) - 1) /\ \A n \in 1..(Len(out) - 1) : o[n] = out[n]
    BY <2>1
  <2>4. /\ DOMAIN out' = 1..(Len(out) - 1)
        /\ \A n \in 1..(Len(out) - 1) : out'[n] = out[n]
    BY <2>2, <2>3
  <2>5. ~ Word(out[Len(out)])
    <3> SUFFICES ASSUME Word(out[Len(out)])
                 PROVE  FALSE
      OBVIOUS
    <3>1. \A k \in DOMAIN text : k > out[Len(out)] => ~ Gap(text, k)
      BY <1>1, <1>2, <1>5, LastKept, Facts DEF Ending, Word
    <3>2. EndsHidden(text, out[Len(out)])
      BY <1>3, <1>5, <3>1 DEF EndsHidden, Hidden, Here, Word
    <3> QED
      BY <3>2, LastKept, <1>5 DEF IInv, Misread
  <2>6. ASSUME NEW k \in DOMAIN text, Word(k)
        PROVE  \E n \in DOMAIN out' : out'[n] = k
    <3>1. PICK n \in DOMAIN out : out[n] = k
      BY <1>1, <1>2, <2>6 DEF Keeping
    <3>2. n # Len(out)
      BY <2>5, <2>6, <3>1
    <3>3. n \in 1..(Len(out) - 1)
      BY <1>1, <2>1, <3>1, <3>2
    <3> QED
      BY <2>4, <3>1, <3>3
  <2>7. ASSUME NEW n \in DOMAIN out', text[out'[n]].ch = "letter"
        PROVE  Word(out'[n])
    <3>1. n \in DOMAIN out /\ out'[n] = out[n]
      BY <1>1, <2>1, <2>4
    <3> QED
      BY <1>1, <2>7, <3>1 DEF Keeping
  <2> QED
    BY <2>6, <2>7 DEF Keeping, Word
<1>6. CASE out' = Shorter(out) /\ out = <<>>
  BY <1>1, <1>2, <1>6 DEF Keeping, Word, Shorter
<1> QED
  BY <1>4, <1>5, <1>6

(* A character that is no quote leaves no counter in the middle of a row. *)
LEMMA ResetCounting ==
    ASSUME IInv, pc = "run", pos \in DOMAIN text, text' = text, pos' = pos + 1,
           Char(pos) \notin Quotes, cnt' = Settled(cnt, doc, Char(pos)),
           doc = IF Here'.place = "doc" THEN Here'.quote ELSE "none"
    PROVE  Counting'
<1>1. /\ pos \in Nat \ {0} /\ cnt \in [Quotes -> 0..3]
      /\ Here \in Mode /\ Char(pos) \in Chars /\ Char(pos) = text[pos].ch
  BY Facts, Forward
<1>2. Here' \in Mode /\ Here'.run = 0
  BY <1>1, Forward, BehindMode, BehindFacts
<1>3. \A q \in Quotes :
         cnt'[q] = IF doc \notin {"none", q} THEN 0
                   ELSE IF Char(pos) = q THEN cnt[q]
                   ELSE IF doc = "none" THEN 0 ELSE 3
  BY <1>1, SettledValue
<1>4. \A q \in Quotes : Char(pos) # q
  OBVIOUS
<1>5. CASE Here'.place = "code"
  <2>1. \A q \in Quotes : cnt'[q] = 0
    BY <1>3, <1>4, <1>5
  <2>2. \A q \in Quotes : ~ EndedEscaped(pos, q)'
    BY <1>1, <1>4 DEF EndedEscaped, Row
  <2> QED
    BY <1>2, <1>5, <2>1, <2>2 DEF Counting, CountInCode
<1>6. CASE Here'.place = "string"
  <2>1. \A q \in Quotes : cnt'[q] = 0
    BY <1>3, <1>4, <1>6
  <2>2. Here'.quote \in Quotes
    BY <1>2, <1>6 DEF Mode
  <2> QED
    BY <1>2, <1>6, <2>1, <2>2 DEF Counting, CountOfString, CountInString
<1>7. CASE Here'.place = "doc"
  <2>1. Here'.quote \in Quotes /\ Here'.quote # "none"
    BY <1>2, <1>7 DEF Mode, Quotes
  <2>2. cnt'[Here'.quote] = 3
    BY <1>3, <1>4, <1>7, <2>1
  <2>3. ~ BeganEscaped(pos, Here.run, Here.quote)'
    BY <1>1, <1>2, <1>4, <2>1 DEF BeganEscaped, Row
  <2> QED
    BY <1>2, <1>7, <2>2, <2>3 DEF Counting, CountInDoc
<1>8. CASE Here'.place = "comment"
  BY <1>8 DEF Counting
<1> QED
  BY <1>2, <1>5, <1>6, <1>7, <1>8 DEF Mode

(* What is known in every round that reads a character. *)
LEMMA Round ==
    ASSUME IInv, pc = "run", NEW skip, Emit(skip), text' = text, Char(pos) # "end"
    PROVE  /\ pos \in DOMAIN text /\ pos' = pos + 1 /\ pc' = "run"
           /\ out' = IF skip \/ Quoted' \/ space' = 2 THEN out ELSE Append(out, pos)
           /\ escape' = (Char(pos) = "backslash" /\ ~ escape)
           /\ Agreeing /\ Counting /\ Spacing
           /\ Here \in Mode /\ Char(pos) \in Chars /\ Char(pos) = text[pos].ch
           /\ text[pos].mode = Here
           /\ Here' = Behind(Here, Char(pos)) /\ Allowed(Here, Char(pos))
<1>1. text \in Seq(Character) /\ pos \in Nat \ {0}
  BY Facts
<1>2. pos \in DOMAIN text
  BY <1>1, CharInText
<1>3. /\ pos' = pos + 1 /\ pc' = "run"
      /\ out' = IF skip \/ Quoted' \/ space' = 2 THEN out ELSE Append(out, pos)
      /\ escape' = (Char(pos) = "backslash" /\ ~ escape)
  BY DEF Emit
<1>4. Agreeing /\ Counting /\ Spacing
  BY DEF IInv, Reading
<1> QED
  BY <1>2, <1>3, <1>4, Facts, Forward

(* A round that does what the reader does. *)
LEMMA RoundDone ==
    ASSUME IInv, TypeOK', pc = "run", text' = text, pc' = "run",
           Reading', Keeping(pos, out)', Ending(pos, out)'
    PROVE  IInv'
BY DEF IInv

LEMMA NewlineStep ==
    ASSUME IInv, TypeOK', Newline
    PROVE  IInv'
<1>1. /\ pc = "run" /\ Char(pos) = "newline"
      /\ comment' = FALSE /\ space' = 0
      /\ cnt' = Settled(cnt, doc, "newline")
      /\ UNCHANGED <<text, doc, quote>>
      /\ Emit(LastChar = "newline")
  BY DEF Newline, Running
<1>2. /\ pos \in DOMAIN text /\ pos' = pos + 1 /\ pc' = "run"
      /\ out' = IF LastChar = "newline" \/ Quoted' \/ space' = 2 THEN out
                ELSE Append(out, pos)
      /\ escape' = FALSE
      /\ Agreeing /\ Here \in Mode /\ text[pos].ch = "newline" /\ text[pos].mode = Here
      /\ Here' = Behind(Here, "newline") /\ Allowed(Here, "newline")
  BY <1>1, Round
<1>3. /\ Here.place \in {"code", "comment"} => Here' = Code /\ doc = "none" /\ quote = "none"
      /\ Here.place = "string" => Here' = At("string", Here.quote, 0, FALSE)
      /\ Here.place = "doc" => Here' = At("doc", Here.quote, 0, FALSE)
  BY <1>2 DEF Behind, BehindCode, BehindString, BehindDoc, Mode, Quotes, Allowed, Agreeing
<1>4. Agreeing'
  <2>1. CASE Here.place \in {"code", "comment"}
    <3>1. Here'.place = "code" /\ Here'.escaped = FALSE
      BY <1>3, <2>1 DEF Code, At
    <3> QED
      BY <1>1, <1>2, <1>3, <2>1, <3>1 DEF Agreeing
  <2>2. CASE Here.place \in {"string", "doc"}
    <3>1. Here'.place = Here.place /\ Here'.quote = Here.quote /\ Here'.escaped = FALSE
      BY <1>3, <2>2 DEF At
    <3> QED
      BY <1>1, <1>2, <2>2, <3>1 DEF Agreeing
  <2> QED
    BY <1>2, <2>1, <2>2 DEF Mode
<1>5. Counting'
  BY <1>1, <1>2, <1>4, ResetCounting DEF Agreeing, Quotes
<1>6. Spacing'
  BY <1>1 DEF Spacing
<1>7. Keeping(pos, out)' /\ Ending(pos, out)'
  <2>1. CASE out' = out
    <3>1. ~ Word(pos)
      BY <1>2 DEF Word
    <3>2. Gap(text, pos) => LastChar # "letter"
      <4>1. CASE Here.place = "code"
        <5>1. ~ Quoted' /\ space' # 2
          BY <1>1, <1>3, <4>1 DEF Quoted
        <5>2. Append(out, pos) # out
          BY <1>1, Facts
        <5> QED
          BY <1>2, <2>1, <5>1, <5>2
      <4>2. CASE Here.place # "code"
        BY <1>2, <4>2 DEF Gap
      <4> QED
        BY <4>1, <4>2
    <3> QED
      BY <1>1, <1>2, <2>1, <3>1, <3>2, KeepNothing
  <2>2. CASE out' = Append(out, pos)
    BY <1>1, <1>2, <2>2, KeepPosition
  <2> QED
    BY <1>2, <2>1, <2>2
<1> QED
  BY <1>1, <1>2, <1>4, <1>5, <1>6, <1>7, RoundDone DEF Reading

LEMMA BeginCommentStep ==
    ASSUME IInv, TypeOK', BeginComment
    PROVE  IInv'
<1>1. /\ pc = "run" /\ Char(pos) = "hash"
      /\ ~ comment /\ quote = "none" /\ doc = "none" /\ ~ escape
      /\ comment' = TRUE /\ pos' = pos + 1
      /\ UNCHANGED <<text, out, doc, quote, cnt, escape, pc>>
  BY DEF BeginComment, Running, Quoted
<1>2. pos \in DOMAIN text
  BY <1>1, Facts, CharInText
<1>3. Agreeing /\ Here \in Mode
  BY <1>1, Facts DEF IInv, Reading
<1>4. Here.place = "code"
  BY <1>1, <1>3 DEF Agreeing, Mode, Quotes
<1>5. Here' = At("comment", "none", 0, FALSE) /\ text[pos].ch = "hash" /\ text[pos].mode = Here
  BY <1>1, <1>2, <1>4, Forward DEF Behind, BehindCode
<1>6. Here'.place = "comment" /\ Here'.escaped = FALSE
  BY <1>5 DEF At
<1>7. escape \in BOOLEAN
  BY DEF IInv, TypeOK
<1>8. Reading'
  BY <1>1, <1>6, <1>7 DEF Reading, Agreeing, Counting, Spacing
<1>9. Keeping(pos, out)' /\ Ending(pos, out)'
  BY <1>1, <1>2, <1>5, KeepNothing DEF Word, Gap
<1> QED
  BY <1>1, <1>8, <1>9, RoundDone

LEMMA SkipCommentStep ==
    ASSUME IInv, TypeOK', SkipComment
    PROVE  IInv'
<1>1. /\ pc = "run" /\ comment /\ Char(pos) # "newline" /\ pos' = pos + 1
      /\ UNCHANGED <<text, doc, quote, cnt, comment, escape, space>>
      /\ IF Char(pos) = "end" THEN out' = Shorter(out) /\ pc' = "done"
         ELSE UNCHANGED <<out, pc>>
  BY DEF SkipComment
<1>2. Agreeing /\ Here \in Mode
  BY <1>1, Facts DEF IInv, Reading
<1>3. Here.place = "comment"
  BY <1>1, <1>2 DEF Agreeing
<1>4. CASE Char(pos) = "end"
  <2>1. pos \notin DOMAIN text
    BY <1>1, <1>4, Facts, CharInText
  <2>2. Keeping(pos, out)'
    BY <1>1, <1>3, <1>4, <2>1, CutOff
  <2>3. pos' \notin DOMAIN text'
    BY <1>1, <2>1, Facts
  <2> QED
    BY <1>1, <1>4, <2>2, <2>3 DEF IInv
<1>5. CASE Char(pos) # "end"
  <2>1. pos \in DOMAIN text
    BY <1>1, <1>5, Facts, CharInText
  <2>2. Here' = Here /\ text[pos].mode = Here
    BY <1>1, <1>2, <1>3, <2>1, Forward DEF Behind
  <2>3. Reading'
    BY <1>1, <1>2, <1>3, <2>2 DEF Reading, Agreeing, Counting, Spacing
  <2>4. Keeping(pos, out)' /\ Ending(pos, out)'
    BY <1>1, <1>3, <1>5, <2>1, <2>2, KeepNothing DEF Word, Gap
  <2> QED
    BY <1>1, <1>5, <2>3, <2>4, RoundDone
<1> QED
  BY <1>4, <1>5

LEMMA BlankStep ==
    ASSUME IInv, TypeOK', Blank
    PROVE  IInv'
<1>1. /\ pc = "run" /\ Char(pos) = "blank" /\ ~ comment
      /\ space' = IF LastChar = "newline" \/ space = 2 THEN space ELSE space + 1
      /\ cnt' = Settled(cnt, doc, "blank")
      /\ UNCHANGED <<text, doc, quote, comment>>
      /\ Emit(LastChar = "newline")
  BY DEF Blank, Running
<1>2. /\ pos \in DOMAIN text /\ pos' = pos + 1 /\ pc' = "run"
      /\ out' = IF LastChar = "newline" \/ Quoted' \/ space' = 2 THEN out
                ELSE Append(out, pos)
      /\ escape' = FALSE
      /\ Agreeing /\ Spacing /\ Here \in Mode
      /\ text[pos].ch = "blank" /\ text[pos].mode = Here
      /\ Here' = Behind(Here, "blank") /\ Allowed(Here, "blank")
  BY <1>1, Round
<1>3. Here.place # "comment"
  BY <1>1, <1>2 DEF Agreeing
<1>4. /\ Here.place = "code" => Here' = Code
      /\ Here.place = "string" => Here' = At("string", Here.quote, 0, FALSE)
      /\ Here.place = "doc" => Here' = At("doc", Here.quote, 0, FALSE)
  BY <1>2 DEF Behind, BehindCode, BehindString, BehindDoc, Mode, Quotes, Allowed
<1>5. /\ Here'.place = Here.place /\ Here'.escaped = FALSE
      /\ Here.place # "code" => Here'.quote = Here.quote
  BY <1>2, <1>3, <1>4 DEF Code, At, Mode
<1>6. Agreeing'
  BY <1>1, <1>2, <1>3, <1>5 DEF Agreeing
<1>7. Counting'
  BY <1>1, <1>2, <1>6, ResetCounting DEF Agreeing, Quotes
<1>8. space \in 0..2
  BY <1>1, Facts
<1>9. Here.place = "code" => ~ Quoted'
  BY <1>1, <1>2 DEF Agreeing, Quoted
<1>10. LastChar' = IF out' = out THEN LastChar ELSE "blank"
  <2>1. CASE out' = out
    BY <1>1, <2>1 DEF LastChar, Char
  <2>2. CASE out' = Append(out, pos)
    <3>1. out' # <<>> /\ out' # out /\ out'[Len(out')] = pos
      BY <1>1, <2>2, Facts
    <3> QED
      BY <1>1, <1>2, <3>1 DEF LastChar, Char
  <2> QED
    BY <1>2, <2>1, <2>2
<1>11. Spacing'
  <2> SUFFICES ASSUME Here.place = "code", space' > 0
               PROVE  LastChar' = "blank"
    BY <1>5 DEF Spacing
  <2>1. CASE space > 0
    BY <1>2, <1>10, <2>1 DEF Spacing
  <2>2. CASE space = 0
    <3>1. LastChar # "newline" /\ space' = 1
      BY <1>1, <2>2
    <3>2. out' = Append(out, pos)
      BY <1>2, <1>9, <3>1
    <3>3. out' # out
      BY <1>1, <3>2, Facts
    <3> QED
      BY <1>10, <3>3
  <2> QED
    BY <1>8, <2>1, <2>2
<1>12. Keeping(pos, out)' /\ Ending(pos, out)'
  <2>1. CASE out' = out
    <3>1. ~ Word(pos)
      BY <1>2 DEF Word
    <3>2. Gap(text, pos) => LastChar # "letter"
      <4> SUFFICES ASSUME Here.place = "code"
                   PROVE  LastChar # "letter"
        BY <1>2 DEF Gap
      <4>1. Append(out, pos) # out
        BY <1>1, Facts
      <4>2. LastChar = "newline" \/ space' = 2
        BY <1>2, <1>9, <2>1, <4>1
      <4>3. space' = 2 => LastChar = "blank" \/ LastChar = "newline"
        BY <1>1, <1>2, <1>8 DEF Spacing
      <4> QED
        BY <4>2, <4>3
    <3> QED
      BY <1>1, <1>2, <2>1, <3>1, <3>2, KeepNothing
  <2>2. CASE out' = Append(out, pos)
    BY <1>1, <1>2, <2>2, KeepPosition
  <2> QED
    BY <1>2, <2>1, <2>2
<1> QED
  BY <1>1, <1>2, <1>6, <1>7, <1>11, <1>12, RoundDone DEF Reading

LEMMA OtherStep ==
    ASSUME IInv, TypeOK', Other
    PROVE  IInv'
<1>1. /\ pc = "run" /\ Char(pos) \in {"letter", "backslash", "hash", "end"} /\ ~ comment
      /\ Char(pos) = "hash" => Quoted \/ escape
      /\ space' = 0
      /\ cnt' = Settled(cnt, doc, Char(pos))
      /\ UNCHANGED <<text, doc, quote, comment>>
      /\ Emit(FALSE)
  BY DEF Other, Running
<1>2. Agreeing /\ Here \in Mode
  BY <1>1, Facts DEF IInv, Reading
<1>3. Quoted' <=> Here.place \in {"string", "doc"}
  BY <1>1, <1>2 DEF Agreeing, Quoted, Mode, Quotes
<1>4. CASE Char(pos) = "end"
  <2>1. pos \notin DOMAIN text
    BY <1>1, <1>4, Facts, CharInText
  <2>2. /\ pos' = pos + 1 /\ pc' = "done"
        /\ out' = IF Quoted' THEN Shorter(out) ELSE out
    BY <1>1, <1>4 DEF Emit
  <2>3. Keeping(pos, out)'
    BY <1>1, <1>3, <2>1, <2>2, CutOff
  <2>4. pos' \notin DOMAIN text'
    BY <1>1, <2>1, <2>2, Facts
  <2> QED
    BY <1>1, <2>2, <2>3, <2>4 DEF IInv
<1>5. CASE Char(pos) # "end"
  <2>1. /\ pos \in DOMAIN text /\ pos' = pos + 1 /\ pc' = "run"
        /\ out' = IF Quoted' \/ space' = 2 THEN out ELSE Append(out, pos)
        /\ escape' = (Char(pos) = "backslash" /\ ~ escape)
        /\ text[pos].mode = Here /\ text[pos].ch = Char(pos)
        /\ Here' = Behind(Here, Char(pos)) /\ Allowed(Here, Char(pos))
    BY <1>1, <1>5, Round
  <2>2. Here.place # "comment"
    BY <1>1, <1>2 DEF Agreeing
  <2>3. Here.place = "code" => ~ Here.escaped /\ Char(pos) # "hash"
    BY <1>1, <1>2, <1>5, <2>1 DEF Allowed, Agreeing, Quoted
  <2>4. /\ Here'.place = Here.place
        /\ Here.place # "code" => Here'.quote = Here.quote
        /\ Here'.escaped = (Char(pos) = "backslash" /\ ~ Here.escaped)
    <3>1. CASE Here.place = "code"
      BY <1>1, <1>5, <2>1, <2>3, <3>1 DEF Behind, BehindCode, Code, At, Quotes
    <3>2. CASE Here.place = "string"
      BY <1>1, <1>2, <1>5, <2>1, <3>2 DEF Behind, BehindString, At, Mode, Quotes
    <3>3. CASE Here.place = "doc"
      BY <1>1, <1>2, <1>5, <2>1, <3>3 DEF Behind, BehindDoc, At, Mode, Quotes
    <3> QED
      BY <1>2, <2>2, <3>1, <3>2, <3>3 DEF Mode
  <2>5. Agreeing'
    BY <1>1, <1>2, <2>1, <2>2, <2>4 DEF Agreeing
  <2>6. Counting'
    BY <1>1, <2>1, <2>5, ResetCounting DEF Agreeing, Quotes
  <2>7. Spacing'
    BY <1>1 DEF Spacing
  <2>8. Keeping(pos, out)' /\ Ending(pos, out)'
    <3>1. CASE Here.place = "code"
      <4>1. out' = Append(out, pos) /\ (text[pos].ch = "letter" => Word(pos))
        BY <1>1, <1>3, <2>1, <3>1 DEF Word
      <4> QED
        BY <1>1, <2>1, <4>1, KeepPosition
    <3>2. CASE Here.place # "code"
      <4>1. out' = out /\ ~ Word(pos) /\ ~ Gap(text, pos)
        BY <1>2, <1>3, <2>1, <2>2, <3>2 DEF Word, Gap, Mode
      <4> QED
        BY <1>1, <2>1, <4>1, KeepNothing
    <3> QED
      BY <3>1, <3>2
  <2> QED
    BY <1>1, <2>1, <2>5, <2>6, <2>7, <2>8, RoundDone DEF Reading
<1> QED
  BY <1>4, <1>5

LEMMA QuoteInDocstringStep ==
    ASSUME IInv, TypeOK', NEW q \in Quotes, QuoteInDocstring(q)
    PROVE  IInv'
<1>1. /\ pc = "run" /\ Char(pos) = q /\ ~ comment /\ doc \notin {"none", q}
      /\ cnt' = Settled(cnt, doc, q)
      /\ space' = 0
      /\ UNCHANGED <<text, doc, quote, comment>>
      /\ Emit(FALSE)
  BY DEF QuoteInDocstring, Running
<1>2. /\ pos \in DOMAIN text /\ pos' = pos + 1 /\ pc' = "run"
      /\ out' = IF Quoted' \/ space' = 2 THEN out ELSE Append(out, pos)
      /\ escape' = FALSE
      /\ Agreeing /\ Here \in Mode
      /\ text[pos].ch = q /\ text[pos].mode = Here
      /\ Here' = Behind(Here, q)
  BY <1>1, Round DEF Quotes
<1>3. Here.place = "doc" /\ doc = Here.quote /\ q # Here.quote /\ q # "backslash"
  BY <1>1, <1>2 DEF Agreeing, Quotes
<1>4. Here' = At("doc", Here.quote, 0, FALSE)
  BY <1>2, <1>3 DEF Behind, BehindDoc
<1>5. /\ Here'.place = "doc" /\ Here'.quote = Here.quote
      /\ Here'.run = 0 /\ Here'.escaped = FALSE
  BY <1>4 DEF At
<1>6. Agreeing'
  BY <1>1, <1>2, <1>3, <1>5 DEF Agreeing
<1>7. Counting'
  <2>1. Here.quote \in Quotes /\ Here.quote # "none"
    BY <1>2, <1>3 DEF Mode, Quotes
  <2>2. cnt'[Here.quote] = 3
    BY <1>1, <1>3, <2>1, SettledValue, Facts
  <2>3. ~ BeganEscaped(pos, Here.run, Here.quote)'
    <3>1. pos \in Nat \ {0}
      BY <1>1, Facts
    <3>2. Here'.quote # q /\ text'[pos].ch = q /\ Here'.run = 0
      BY <1>1, <1>2, <1>3, <1>5
    <3> QED
      BY <1>2, <3>1, <3>2 DEF BeganEscaped, Row
  <2> QED
    BY <1>5, <2>2, <2>3 DEF Counting, CountInDoc
<1>8. Spacing'
  BY <1>1 DEF Spacing
<1>9. Keeping(pos, out)' /\ Ending(pos, out)'
  <2>1. out' = out
    BY <1>1, <1>2 DEF Quoted
  <2>2. ~ Word(pos) /\ ~ Gap(text, pos)
    BY <1>2, <1>3 DEF Word, Gap
  <2> QED
    BY <1>1, <1>2, <2>1, <2>2, KeepNothing
<1> QED
  BY <1>1, <1>2, <1>6, <1>7, <1>8, <1>9, RoundDone DEF Reading

(* An escaped quote in a docstring has no second quote in a row behind it. *)
LEMMA RowInDoc ==
    ASSUME IInv, pc = "run", pos \in DOMAIN text, Here.place = "doc",
           Char(pos) = Here.quote, ~ Here.escaped
    PROVE  /\ Here.run > 0 => ~ BeganEscaped(pos, Here.run, Here.quote)
           /\ ~ BeganEscaped(pos + 1, 2, Here.quote)
           /\ BeganEscaped(pos + 1, 1, Here.quote) <=> BeganEscaped(pos, 0, Here.quote)
<1> DEFINE q == Here.quote
<1>1. /\ pos \in Nat \ {0} /\ Here \in Mode /\ q \in Quotes /\ Here.run \in 0..2
      /\ text[pos].ch = q
  BY Facts, Forward DEF Mode, Char
<1>2. \A p \in Quotes : \A k \in DOMAIN text : ~ EscapedInDoc(text, k, p)
  BY DEF IInv, Misread
<1> HIDE DEF q
<1>3. ASSUME NEW n \in 1..2, BeganEscaped(pos, n, q)
      PROVE  FALSE
  <2>1. /\ pos - 1 - n \in DOMAIN text /\ Row(text, pos - 1 - n, n + 1, q)
        /\ text[pos - 1 - n].mode.place = "doc" /\ text[pos - 1 - n].mode.quote = q
        /\ text[pos - 1 - n].mode.escaped
    BY <1>1, <1>3 DEF BeganEscaped, Row
  <2>2. Row(text, pos - 1 - n, 3, q)
    <3>1. CASE n = 1
      BY <1>1, <2>1, <3>1 DEF Row
    <3>2. CASE n = 2
      BY <2>1, <3>2
    <3> QED
      BY <3>1, <3>2
  <2> QED
    BY <1>1, <1>2, <2>1, <2>2 DEF EscapedInDoc
<1>4. ~ BeganEscaped(pos + 1, 2, q)
  <2> SUFFICES ASSUME BeganEscaped(pos + 1, 2, q)
               PROVE  FALSE
    OBVIOUS
  <2>1. /\ pos - 2 \in DOMAIN text /\ Row(text, pos - 2, 3, q)
        /\ text[pos - 2].mode.place = "doc" /\ text[pos - 2].mode.quote = q
        /\ text[pos - 2].mode.escaped
    BY <1>1 DEF BeganEscaped, Row
  <2> QED
    BY <1>1, <1>2, <2>1 DEF EscapedInDoc
<1>5. BeganEscaped(pos + 1, 1, q) <=> BeganEscaped(pos, 0, q)
  BY <1>1 DEF BeganEscaped, Row
<1> QED
  BY <1>1, <1>3, <1>4, <1>5 DEF q

LEMMA CloseDocstringStep ==
    ASSUME IInv, TypeOK', NEW q \in Quotes, CloseDocstring(q)
    PROVE  IInv'
<1> DEFINE n == IF cnt[q] = 3 \/ Char(pos - 1) = q THEN cnt[q] - 1 ELSE 3
<1>1. /\ pc = "run" /\ Char(pos) = q /\ ~ comment /\ doc = q
      /\ doc' = (IF n = 0 THEN "none" ELSE q)
      /\ cnt' = Settled([cnt EXCEPT ![q] = n], doc', q)
      /\ space' = 0
      /\ UNCHANGED <<text, quote, comment>>
      /\ Emit(n = 0)
  BY DEF CloseDocstring, Running
<1>2. /\ pos \in DOMAIN text /\ pos' = pos + 1 /\ pc' = "run"
      /\ out' = IF n = 0 \/ Quoted' \/ space' = 2 THEN out ELSE Append(out, pos)
      /\ escape' = FALSE
      /\ Agreeing /\ Counting /\ Here \in Mode
      /\ text[pos].ch = q /\ text[pos].mode = Here
      /\ Here' = Behind(Here, q)
  <2> HIDE DEF n
  <2> QED
    BY <1>1, Round DEF Quotes
<1>3. Here.place = "doc" /\ Here.quote = q /\ q \notin {"none", "backslash"}
  BY <1>1, <1>2 DEF Agreeing, Quotes
<1>4. /\ cnt \in [Quotes -> 0..3] /\ pos \in Nat \ {0} /\ Here.run \in 0..2
      /\ Here.escaped => Here.run = 0
  BY <1>1, <1>2, Facts DEF Mode
<1>5. cnt[q] = (IF BeganEscaped(pos, Here.run, q) THEN 2 ELSE 3) - Here.run
  BY <1>2, <1>3 DEF Counting, CountInDoc
<1>6. Here.run > 0 => Char(pos - 1) = q
  <2> SUFFICES ASSUME Here.run > 0
               PROVE  Char(pos - 1) = q
    OBVIOUS
  <2>1. pos > 1
    BY <1>3, <1>4, First DEF Code, At
  <2> QED
    BY <1>1, <1>2, <1>3, <2>1, Backward, BehindFacts
<1>7. BeganEscaped(pos, 0, q) => Char(pos - 1) = q /\ ~ Here.escaped
  <2> SUFFICES ASSUME BeganEscaped(pos, 0, q)
               PROVE  Char(pos - 1) = q /\ ~ Here.escaped
    OBVIOUS
  <2>1. pos > 1 /\ text[pos - 1].ch = q
    BY <1>4 DEF BeganEscaped, Row
  <2> QED
    BY <1>1, <1>2, <1>3, <2>1, Backward, BehindFacts
<1>8. n \in 0..3
  <2>1. cnt[q] > 0 /\ cnt[q] \in 0..3
    BY <1>1, <1>4, Facts DEF CountsOK
  <2> QED
    BY <2>1
<1>9. cnt'[q] = n /\ (n = 0 => \A r \in Quotes : r # q => cnt'[r] = 0)
  <2> HIDE DEF n
  <2> DEFINE m == [cnt EXCEPT ![q] = n]
  <2>1. m \in [Quotes -> 0..3] /\ m[q] = n
    BY <1>4, <1>8
  <2>2. cnt' = Settled(m, doc', q)
    BY <1>1
  <2> HIDE DEF m
  <2>3. \A r \in Quotes :
           cnt'[r] = IF doc' \notin {"none", r} THEN 0
                     ELSE IF q = r THEN m[r]
                     ELSE IF doc' = "none" THEN 0 ELSE 3
    BY <2>1, <2>2, SettledValue
  <2>4. doc' = (IF n = 0 THEN "none" ELSE q)
    BY <1>1
  <2> QED
    BY <2>1, <2>3, <2>4
<1>10. Agreeing' /\ Counting' /\ (n = 0 \/ Quoted')
  <2>1. CASE Here.escaped
    <3>1. n = 2
      BY <1>4, <1>5, <1>7, <2>1
    <3>2. Here' = At("doc", q, 0, FALSE)
      BY <1>2, <1>3, <2>1 DEF Behind, BehindDoc
    <3>3. /\ Here'.place = "doc" /\ Here'.quote = q
          /\ Here'.run = 0 /\ Here'.escaped = FALSE
      BY <3>2 DEF At
    <3>4. doc' = q /\ cnt'[q] = 2
      BY <1>1, <1>9, <3>1
    <3>5. Agreeing' /\ Quoted'
      BY <1>1, <1>2, <1>3, <3>3, <3>4 DEF Agreeing, Quoted
    <3>6. BeganEscaped(pos + 1, 0, q)
      BY <1>2, <1>3, <1>4, <2>1 DEF BeganEscaped, Row
    <3>7. BeganEscaped(pos, Here.run, Here.quote)'
      BY <1>1, <1>2, <3>3, <3>6 DEF BeganEscaped, Row
    <3> QED
      BY <3>3, <3>4, <3>5, <3>7 DEF Counting, CountInDoc
  <2>2. CASE ~ Here.escaped /\ Here.run < 2
    <3>1. Here' = At("doc", q, Here.run + 1, FALSE)
      <4>1. Here' = BehindDoc(Here, q) /\ Here.run # 2
        BY <1>2, <1>3, <1>4, <2>2 DEF Behind
      <4> QED
        BY <1>3, <2>2, <4>1 DEF BehindDoc
    <3>2. /\ Here'.place = "doc" /\ Here'.quote = q
          /\ Here'.run = Here.run + 1 /\ Here'.escaped = FALSE
      BY <3>1 DEF At
    <3>3. /\ Here.run > 0 => ~ BeganEscaped(pos, Here.run, q)
          /\ ~ BeganEscaped(pos + 1, 2, q)
          /\ BeganEscaped(pos + 1, 1, q) <=> BeganEscaped(pos, 0, q)
      BY <1>1, <1>2, <1>3, <2>2, RowInDoc
    <3>4. /\ n = (IF BeganEscaped(pos + 1, Here.run + 1, q) THEN 2 ELSE 3) - (Here.run + 1)
          /\ n # 0
      <4>1. CASE Here.run = 0
        BY <1>5, <1>7, <3>3, <4>1
      <4>2. CASE Here.run = 1
        BY <1>5, <1>6, <3>3, <4>2
      <4> QED
        BY <1>4, <2>2, <4>1, <4>2
    <3>5. doc' = q /\ cnt'[q] = n
      BY <1>1, <1>9, <3>4
    <3>6. Agreeing' /\ Quoted'
      BY <1>1, <1>2, <1>3, <3>2, <3>5 DEF Agreeing, Quoted
    <3>7. BeganEscaped(pos, Here.run, Here.quote)' <=> BeganEscaped(pos + 1, Here.run + 1, q)
      BY <1>1, <1>2, <3>2 DEF BeganEscaped, Row
    <3> QED
      BY <3>2, <3>4, <3>5, <3>6, <3>7 DEF Counting, CountInDoc
  <2>3. CASE ~ Here.escaped /\ Here.run = 2
    <3>1. n = 0
      <4>1. ~ BeganEscaped(pos, 2, q)
        BY <1>1, <1>2, <1>3, <2>3, RowInDoc
      <4> QED
        BY <1>5, <1>6, <2>3, <4>1
    <3>2. Here' = Code
      BY <1>2, <1>3, <2>3 DEF Behind, BehindDoc
    <3>3. /\ Here'.place = "code" /\ Here'.quote = "none"
          /\ Here'.run = 0 /\ Here'.escaped = FALSE
      BY <3>2 DEF Code, At
    <3>4. doc' = "none" /\ \A r \in Quotes : cnt'[r] = 0
      BY <1>1, <1>9, <3>1
    <3>5. Agreeing'
      BY <1>1, <1>2, <1>3, <3>3, <3>4 DEF Agreeing
    <3>6. \A r \in Quotes : ~ EndedEscaped(pos, r)'
      BY <1>1, <1>2, <1>3, <1>4 DEF EndedEscaped
    <3> QED
      BY <3>1, <3>3, <3>4, <3>5, <3>6 DEF Counting, CountInCode
  <2> QED
    BY <1>4, <2>1, <2>2, <2>3
<1>11. Spacing'
  BY <1>1 DEF Spacing
<1>12. Keeping(pos, out)' /\ Ending(pos, out)'
  <2>1. out' = out
    BY <1>1, <1>2, <1>10
  <2>2. ~ Word(pos) /\ ~ Gap(text, pos)
    BY <1>2, <1>3 DEF Word, Gap
  <2> QED
    BY <1>1, <1>2, <2>1, <2>2, KeepNothing
<1> QED
  BY <1>1, <1>2, <1>10, <1>11, <1>12, RoundDone DEF Reading

(* The counter behind a quote of code, and of a string that it ends or not. *)
LEMMA CountedHere ==
    ASSUME IInv, pc = "run", pos \in DOMAIN text, NEW q \in Quotes, Char(pos) = q,
           ~ comment, doc = "none"
    PROVE  /\ Here.place \in {"code", "string"}
           /\ Here.place = "code" =>
                 /\ quote = "none" /\ ~ Here.escaped
                 /\ Counted(q) = IF Here.run = 2 /\ Here.quote = q THEN 3
                                 ELSE IF EndedEscaped(pos, q) THEN 2 ELSE 1
           /\ Here.place = "string" =>
                 /\ quote = Here.quote /\ pos > 1
                 /\ Here.quote = q =>
                       Counted(q) = IF Here.run = 1 THEN 2
                                    ELSE IF Char(pos - 1) = q THEN 1 ELSE 0
                 /\ Here.quote # q =>
                       /\ Counted(q) = IF Char(pos - 1) = q THEN cnt[q] + 1 ELSE 0
                       /\ Counted(q) < 3
<1>1. Agreeing /\ Counting /\ Here \in Mode
  BY Facts DEF IInv, Reading
<1>2. /\ text[pos].ch = q /\ text[pos].mode = Here /\ Allowed(Here, q) /\ pos \in Nat \ {0}
      /\ q # "newline" /\ q # "none" /\ q # "backslash"
  <2>1. pos \in Nat \ {0} /\ text[pos].mode = Here /\ Char(pos) = text[pos].ch
    BY Facts DEF Here, Char
  <2>2. Allowed(Here, q)
    BY <2>1, Facts
  <2> QED
    BY <2>1, <2>2 DEF Quotes
<1>3. cnt \in [Quotes -> 0..3] /\ cnt[q] \in 0..3
  BY Facts
<1>4. Here.place \in {"code", "string"}
  BY <1>1 DEF Agreeing, Mode, Quotes
<1>5. CASE Here.place = "code"
  <2>1. quote = "none" /\ ~ Here.escaped
    BY <1>1, <1>2, <1>5 DEF Agreeing, Allowed
  <2>2. cnt[q] = IF Here.run = 2 /\ Here.quote = q THEN 2
                 ELSE IF EndedEscaped(pos, q) THEN 1 ELSE 0
    BY <1>1, <1>5 DEF Counting, CountInCode
  <2>3. EndedEscaped(pos, q) => Char(pos - 1) = q
    BY <1>2 DEF EndedEscaped, Row, Char
  <2>4. Here.run = 2 /\ Here.quote = q => Char(pos - 1) = q
    <3> SUFFICES ASSUME Here.run = 2, Here.quote = q
                 PROVE  Char(pos - 1) = q
      OBVIOUS
    <3>1. pos > 1
      BY <1>2, First DEF Code, At
    <3> QED
      BY <1>5, <3>1, Backward, BehindFacts
  <2> QED
    BY <1>3, <1>5, <2>1, <2>2, <2>3, <2>4 DEF Counted
<1>6. CASE Here.place = "string"
  <2>1. quote = Here.quote /\ quote \in Quotes /\ quote # "none"
    BY <1>1, <1>6 DEF Agreeing, Mode, Quotes
  <2>2. pos > 1
    BY <1>2, <1>6, First DEF Code, At
  <2>3. /\ pos - 1 \in DOMAIN text /\ Char(pos - 1) = text[pos - 1].ch
        /\ Here.run = 1 => text[pos - 1].ch = Here.quote
        /\ Here.run \in {0, 1}
    BY <1>1, <1>6, <2>2, Backward, BehindFacts DEF Mode
  <2>4. Counted(q) = IF Char(pos - 1) = q THEN cnt[q] + 1 ELSE cnt[q]
    BY <2>1 DEF Counted
  <2>5. CASE Here.quote = q
    <3>1. Here.run = 1 => ~ EndedEscaped(pos - 1, q)
      <4> SUFFICES ASSUME Here.run = 1, EndedEscaped(pos - 1, q)
                   PROVE  FALSE
        OBVIOUS
      <4>1. /\ pos - 2 \in DOMAIN text
            /\ text[pos - 2].mode.place = "string" /\ text[pos - 2].mode.run = 0
            /\ Row(text, pos - 3, 4, q)
        BY <1>2, <2>3, <2>5 DEF EndedEscaped, Row
      <4>2. EndsEscaped(text, pos - 2, q)
        BY <1>2, <4>1 DEF EndsEscaped, Row
      <4> QED
        BY <4>1, <4>2 DEF IInv, Misread
    <3>2. cnt[q] = IF Here.run = 0 THEN 0 ELSE 1
      BY <1>1, <1>6, <2>3, <2>5, <3>1 DEF Counting, CountOfString
    <3> QED
      BY <1>6, <2>1, <2>2, <2>3, <2>4, <2>5, <3>2
  <2>6. CASE Here.quote # q
    <3>1. cnt[q] > 0 =>
             \A k \in 0..cnt[q] :
                /\ pos - 1 - k \in DOMAIN text
                /\ text[pos - 1 - k].ch = q
                /\ text[pos - 1 - k].mode.place = "string"
                /\ text[pos - 1 - k].mode.quote = Here.quote
      BY <1>1, <1>6, <2>6 DEF Counting, CountInString
    <3>2. cnt[q] > 0 => Char(pos - 1) = q
      BY <1>2, <1>3, <2>3, <3>1
    <3>3. cnt[q] < 2
      <4> SUFFICES ASSUME cnt[q] >= 2
                   PROVE  FALSE
        BY <1>3
      <4>1. \A k \in {0, 1, 2} :
                /\ pos - 1 - k \in DOMAIN text
                /\ text[pos - 1 - k].ch = q
                /\ text[pos - 1 - k].mode.place = "string"
                /\ text[pos - 1 - k].mode.quote = Here.quote
        BY <1>3, <3>1
      <4>2. /\ pos - 1 \in DOMAIN text /\ text[pos - 1].ch = q
            /\ pos - 2 \in DOMAIN text /\ text[pos - 2].ch = q
            /\ pos - 3 \in DOMAIN text /\ text[pos - 3].ch = q
            /\ text[pos - 3].mode.place = "string" /\ text[pos - 3].mode.quote # q
        BY <1>2, <2>6, <4>1
      <4>3. Row(text, pos - 3, 4, q)
        BY <1>2, <4>2 DEF Row
      <4>4. FourInString(text, pos - 3, q)
        BY <4>2, <4>3 DEF FourInString
      <4> QED
        BY <4>2, <4>4 DEF IInv, Misread
    <3> QED
      BY <1>3, <1>6, <2>1, <2>2, <2>4, <2>6, <3>2, <3>3
  <2> QED
    BY <2>5, <2>6
<1> QED
  BY <1>4, <1>5, <1>6

LEMMA OpenDocstringStep ==
    ASSUME IInv, TypeOK', NEW q \in Quotes, OpenDocstring(q)
    PROVE  IInv'
<1>1. /\ pc = "run" /\ Char(pos) = q /\ ~ comment /\ doc = "none" /\ Counted(q) = 3
      /\ doc' = q /\ quote' = "none"
      /\ cnt' = Settled([cnt EXCEPT ![q] = 3], q, q)
      /\ space' = 0
      /\ UNCHANGED <<text, comment>>
      /\ Emit(TRUE)
  BY DEF OpenDocstring, Running
<1>2. /\ pos \in DOMAIN text /\ pos' = pos + 1 /\ pc' = "run"
      /\ out' = out /\ escape' = FALSE
      /\ Agreeing /\ Here \in Mode
      /\ text[pos].ch = q /\ text[pos].mode = Here
      /\ Here' = Behind(Here, q)
  BY <1>1, Round DEF Quotes
<1>3. Here.place = "code" /\ Here.run = 2 /\ Here.quote = q
  BY <1>1, <1>2, CountedHere
<1>4. Here' = At("doc", q, 0, FALSE)
  BY <1>2, <1>3 DEF Behind, BehindCode, Quotes
<1>5. /\ Here'.place = "doc" /\ Here'.quote = q
      /\ Here'.run = 0 /\ Here'.escaped = FALSE
  BY <1>4 DEF At
<1>6. Agreeing'
  BY <1>1, <1>2, <1>3, <1>5 DEF Agreeing
<1>7. cnt'[q] = 3
  <2> DEFINE m == [cnt EXCEPT ![q] = 3]
  <2>1. m \in [Quotes -> 0..3] /\ m[q] = 3
    BY <1>1, Facts
  <2>2. cnt' = Settled(m, q, q)
    BY <1>1
  <2> HIDE DEF m
  <2> QED
    BY <2>1, <2>2, SettledValue
<1>8. ~ BeganEscaped(pos, Here.run, Here.quote)'
  BY <1>1, <1>2, <1>3, <1>5, Facts DEF BeganEscaped
<1>9. Counting'
  BY <1>5, <1>7, <1>8 DEF Counting, CountInDoc
<1>10. Spacing'
  BY <1>1 DEF Spacing
<1>11. Keeping(pos, out)' /\ Ending(pos, out)'
  BY <1>1, <1>2, KeepNothing DEF Word, Gap, Quotes
<1> QED
  BY <1>1, <1>2, <1>6, <1>9, <1>10, <1>11, RoundDone DEF Reading

LEMMA QuoteStep ==
    ASSUME IInv, TypeOK', NEW q \in Quotes, Quote(q)
    PROVE  IInv'
<1>1. /\ pc = "run" /\ Char(pos) = q /\ ~ comment /\ doc = "none" /\ Counted(q) < 3
      /\ cnt' = Settled([cnt EXCEPT ![q] = Counted(q)], "none", q)
      /\ quote' = IF quote = q /\ ~ escape THEN "none"
                  ELSE IF quote = "none" THEN q ELSE quote
      /\ space' = 0
      /\ UNCHANGED <<text, doc, comment>>
      /\ Emit(quote = q /\ ~ escape)
  BY DEF Quote, Running
<1>2. /\ pos \in DOMAIN text /\ pos' = pos + 1 /\ pc' = "run"
      /\ out' = IF (quote = q /\ ~ escape) \/ Quoted' \/ space' = 2 THEN out
                ELSE Append(out, pos)
      /\ escape' = FALSE
      /\ Agreeing /\ Counting /\ Here \in Mode
      /\ text[pos].ch = q /\ text[pos].mode = Here
      /\ Here' = Behind(Here, q)
      /\ q \notin {"none", "backslash", "hash"}
  BY <1>1, Round DEF Quotes
<1>3. pos \in Nat \ {0} /\ cnt \in [Quotes -> 0..3]
  BY <1>1, Facts
<1>4. escape = Here.escaped
  BY <1>2 DEF Agreeing
<1>5. /\ Here.place \in {"code", "string"}
      /\ Here.place = "code" => quote = "none" /\ ~ Here.escaped
      /\ Here.place = "string" => quote = Here.quote /\ quote \in Quotes /\ pos > 1
  BY <1>1, <1>2, CountedHere DEF Mode
<1>6. /\ Counted(q) \in 0..2 /\ cnt'[q] = Counted(q)
      /\ \A r \in Quotes : r # q => cnt'[r] = 0
  <2>1. cnt[q] \in 0..3
    BY <1>3
  <2>2. Counted(q) \in 0..2
    BY <1>1, <2>1 DEF Counted
  <2> DEFINE m == [cnt EXCEPT ![q] = Counted(q)]
  <2>3. m \in [Quotes -> 0..3] /\ m[q] = Counted(q)
    BY <1>3, <2>2
  <2>4. cnt' = Settled(m, "none", q)
    BY <1>1
  <2> HIDE DEF m
  <2> QED
    BY <2>2, <2>3, <2>4, SettledValue
<1>7. quote = "none" \/ quote \in Quotes
  BY <1>5
<1>8. Agreeing' /\ Counting' /\ out' = out
  <2>1. CASE Here.place = "code"
    <3>1. ~ (Here.run = 2 /\ Here.quote = q) /\ Counted(q) = IF EndedEscaped(pos, q) THEN 2 ELSE 1
      BY <1>1, <1>2, <2>1, CountedHere
    <3>2. Here' = At("string", q, 1, FALSE)
      BY <1>2, <2>1, <3>1 DEF Behind, BehindCode
    <3>3. /\ Here'.place = "string" /\ Here'.quote = q
          /\ Here'.run = 1 /\ Here'.escaped = FALSE
      BY <3>2 DEF At
    <3>4. quote' = q
      BY <1>1, <1>2, <1>5, <2>1
    <3>5. Agreeing'
      BY <1>1, <1>2, <2>1, <3>3, <3>4 DEF Agreeing
    <3>6. EndedEscaped(pos - 1, Here.quote)' <=> EndedEscaped(pos, q)
      <4>1. pos' - 1 = pos
        BY <1>2, <1>3
      <4> QED
        BY <1>1, <3>3, <4>1 DEF EndedEscaped, Row
    <3>7. CountOfString'
      BY <1>6, <3>1, <3>3, <3>6 DEF CountOfString
    <3>8. \A r \in Quotes : CountInString(r)'
      BY <1>6, <3>3 DEF CountInString
    <3>9. out' = out
      BY <1>2, <3>4 DEF Quoted
    <3> QED
      BY <3>3, <3>5, <3>7, <3>8, <3>9 DEF Counting
  <2>2. CASE Here.place = "string" /\ Here.quote = q /\ Here.escaped
    <3>1. Here' = At("string", q, 0, FALSE)
      BY <1>2, <2>2 DEF Behind, BehindString
    <3>2. /\ Here'.place = "string" /\ Here'.quote = q
          /\ Here'.run = 0 /\ Here'.escaped = FALSE
      BY <3>1 DEF At
    <3>3. quote' = q
      BY <1>1, <1>2, <1>4, <1>5, <2>2
    <3>4. Agreeing'
      BY <1>1, <1>2, <2>2, <3>2, <3>3 DEF Agreeing
    <3>5. Counted(q) = 0
      <4>1. Char(pos - 1) = "backslash"
        BY <1>1, <1>2, <1>5, <2>2, Backward, BehindFacts
      <4>2. Here.run # 1
        BY <1>2, <2>2 DEF Mode
      <4> QED
        BY <1>1, <1>2, <2>2, <4>1, <4>2, CountedHere
    <3>6. CountOfString'
      BY <1>6, <3>2, <3>5 DEF CountOfString
    <3>7. \A r \in Quotes : CountInString(r)'
      BY <1>6, <3>2 DEF CountInString
    <3>8. out' = out
      BY <1>2, <3>3 DEF Quoted
    <3> QED
      BY <3>2, <3>4, <3>6, <3>7, <3>8 DEF Counting
  <2>3. CASE Here.place = "string" /\ Here.quote = q /\ ~ Here.escaped
    <3>1. quote' = "none" /\ out' = out
      BY <1>1, <1>2, <1>4, <1>5, <2>3
    <3>2. Here' = IF Here.run = 1 THEN At("code", q, 2, FALSE) ELSE Code
      BY <1>2, <2>3 DEF Behind, BehindString
    <3>3. /\ Here'.place = "code" /\ Here'.escaped = FALSE
          /\ Here'.run = (IF Here.run = 1 THEN 2 ELSE 0)
          /\ Here.run = 1 => Here'.quote = q
      BY <3>2 DEF At, Code
    <3>4. Agreeing'
      BY <1>1, <1>2, <2>3, <3>1, <3>3 DEF Agreeing
    <3>5. Counted(q) = IF Here.run = 1 THEN 2 ELSE IF Char(pos - 1) = q THEN 1 ELSE 0
      BY <1>1, <1>2, <2>3, CountedHere
    <3>6. \A r \in Quotes : r # q => ~ EndedEscaped(pos, r)'
      BY <1>1, <1>2, <1>3 DEF EndedEscaped, Row
    <3>7. Here.run # 1 => (EndedEscaped(pos, q)' <=> Char(pos - 1) = q)
      <4>1. pos - 1 \in DOMAIN text /\ Char(pos - 1) = text[pos - 1].ch
        BY <1>1, <1>5, <2>3, Backward
      <4>2. Here.run # 1 => Here.run = 0
        BY <1>2, <2>3 DEF Mode
      <4>3. pos' - 1 = pos /\ pos' - 2 = pos - 1 /\ pos' > 2
        BY <1>2, <1>3, <1>5, <2>3
      <4>4. Row(text, pos - 1, 2, q) <=> Char(pos - 1) = q
        BY <1>2, <1>3, <4>1 DEF Row
      <4>5. Row(text, pos - 2, 2, q)' <=> Row(text, pos - 1, 2, q)
        BY <1>1, <4>3 DEF Row
      <4> QED
        BY <1>1, <1>2, <2>3, <4>2, <4>3, <4>4, <4>5 DEF EndedEscaped
    <3>8. \A r \in Quotes : CountInCode(r)'
      BY <1>6, <3>3, <3>5, <3>6, <3>7 DEF CountInCode
    <3> QED
      BY <3>1, <3>3, <3>4, <3>8 DEF Counting
  <2>4. CASE Here.place = "string" /\ Here.quote # q
    <3>1. Here' = At("string", Here.quote, 0, FALSE)
      BY <1>2, <2>4 DEF Behind, BehindString
    <3>2. /\ Here'.place = "string" /\ Here'.quote = Here.quote
          /\ Here'.run = 0 /\ Here'.escaped = FALSE
      BY <3>1 DEF At
    <3>3. quote' = Here.quote /\ Here.quote \in Quotes /\ Here.quote # "none"
      BY <1>1, <1>2, <1>5, <2>4 DEF Quotes
    <3>4. Agreeing'
      BY <1>1, <1>2, <2>4, <3>2, <3>3 DEF Agreeing
    <3>5. CountOfString'
      BY <1>6, <2>4, <3>2, <3>3 DEF CountOfString
    <3>6. Counted(q) = IF Char(pos - 1) = q THEN cnt[q] + 1 ELSE 0
      BY <1>1, <1>2, <2>4, CountedHere
    <3>7. Char(pos - 1) = q =>
             /\ pos - 1 \in DOMAIN text /\ text[pos - 1].ch = q
             /\ text[pos - 1].mode.place = "string"
             /\ text[pos - 1].mode.quote = Here.quote
      BY <1>1, <1>5, <2>4, Backward, BehindFacts
    <3>8. ASSUME cnt'[q] > 0, NEW k \in 0..cnt'[q]
          PROVE  /\ pos' - 1 - k \in DOMAIN text
                 /\ text[pos' - 1 - k].ch = q
                 /\ text[pos' - 1 - k].mode.place = "string"
                 /\ text[pos' - 1 - k].mode.quote = Here.quote
      <4>1. Char(pos - 1) = q /\ cnt'[q] = cnt[q] + 1 /\ cnt[q] \in 0..3
        BY <1>3, <1>6, <3>6, <3>8
      <4>2. CASE k = 0
        <5>1. pos' - 1 - k = pos
          BY <1>2, <1>3, <4>2
        <5> QED
          BY <1>2, <2>4, <5>1
      <4>3. CASE k = 1
        <5>1. pos' - 1 - k = pos - 1
          BY <1>2, <1>3, <4>3
        <5> QED
          BY <3>7, <4>1, <5>1
      <4>4. CASE k > 1
        <5>1. pos' - 1 - k = pos - 1 - (k - 1) /\ k - 1 \in 0..cnt[q] /\ cnt[q] > 0
          BY <1>2, <1>3, <4>1, <4>4
        <5>2. CountInString(q)
          BY <1>2, <2>4 DEF Counting
        <5> QED
          BY <2>4, <5>1, <5>2 DEF CountInString
      <4> QED
        BY <4>1, <4>2, <4>3, <4>4
    <3>9. \A r \in Quotes : CountInString(r)'
      <4>1. CountInString(q)'
        BY <1>1, <3>2, <3>8 DEF CountInString
      <4>2. \A r \in Quotes : r # q => CountInString(r)'
        BY <1>6 DEF CountInString
      <4> QED
        BY <4>1, <4>2
    <3>10. out' = out
      BY <1>2, <3>3 DEF Quoted
    <3> QED
      BY <3>2, <3>4, <3>5, <3>9, <3>10 DEF Counting
  <2> QED
    BY <1>5, <2>1, <2>2, <2>3, <2>4
<1>9. Spacing'
  BY <1>1 DEF Spacing
<1>10. Keeping(pos, out)' /\ Ending(pos, out)'
  BY <1>1, <1>2, <1>8, KeepNothing DEF Word, Gap, Quotes
<1> QED
  BY <1>1, <1>2, <1>8, <1>9, <1>10, RoundDone DEF Reading

(***************************************************************************)
(* The theorems: the invariant, and what it says of the text.              *)
(***************************************************************************)
LEMMA InitInv == Init => IInv
<1> SUFFICES ASSUME Init
             PROVE  IInv
  OBVIOUS
<1>1. Python(text) /\ ~ Misread(text)
  BY TextAssumption DEF Init
<1>2. Here = Code /\ pc = "run" /\ out = <<>>
  BY First DEF Init
<1>3. /\ Here.place = "code" /\ Here.quote = "none" /\ Here.run = 0 /\ Here.escaped = FALSE
  BY <1>2 DEF Code, At
<1>4. Agreeing
  BY <1>3 DEF Init, Agreeing
<1>5. \A q \in Quotes : ~ EndedEscaped(pos, q)
  <2>1. pos = 1 /\ ~ (1 > 2)
    BY DEF Init
  <2> QED
    BY <2>1 DEF EndedEscaped
<1>6. Counting /\ Spacing
  BY <1>3, <1>5 DEF Init, Counting, CountInCode, Spacing
<1>7. Keeping(pos, out) /\ Ending(pos, out)
  <2>1. DOMAIN text = 1..Len(text)
    BY <1>1 DEF Python
  <2> QED
    BY <1>2, <2>1 DEF Init, Keeping, Ending
<1> QED
  BY <1>1, <1>2, <1>4, <1>6, <1>7, InitType DEF IInv, Reading

LEMMA StepInv == IInv /\ [Next]_vars => IInv'
<1> SUFFICES ASSUME IInv, [Next]_vars
             PROVE  IInv'
  OBVIOUS
<1>1. TypeOK'
  BY StepType DEF IInv
<1>2. CASE Refuse
  BY <1>1, <1>2 DEF IInv, Refuse
<1>3. CASE UNCHANGED vars
  BY <1>1, <1>3 DEF IInv, vars, Reading, Agreeing, Counting, CountInCode, CountOfString,
     CountInString, CountInDoc, Spacing, Keeping, Ending, Word, Here, LastChar, Char,
     EndedEscaped, BeganEscaped
<1> QED
  BY <1>1, <1>2, <1>3, BeginCommentStep, SkipCommentStep, NewlineStep, BlankStep, OtherStep,
     CloseDocstringStep, QuoteInDocstringStep, OpenDocstringStep, QuoteStep
  DEF Next, Stopped

LEMMA Invariance == Spec => []IInv
BY InitInv, StepInv, PTL DEF Spec

(***************************************************************************)
(* For every python text, of any length, but for the Misread: in front of  *)
(* every character the automaton is in the comment, the string or the      *)
(* docstring that python is in (strip.c:255-292, 311-418).                 *)
(***************************************************************************)
THEOREM AlwaysInStep == Spec => []InStep
<1>1. IInv => InStep
  <2> SUFFICES ASSUME IInv, pos \in DOMAIN text
               PROVE  LET m == text[pos].mode
                      IN  /\ comment = (m.place = "comment")
                          /\ quote = IF m.place = "string" THEN m.quote ELSE "none"
                          /\ doc = IF m.place = "doc" THEN m.quote ELSE "none"
    BY DEF InStep
  <2>1. pc = "run"
    BY DEF IInv, TypeOK
  <2>2. text[pos].mode = Here
    BY <2>1, Facts DEF Here
  <2> QED
    BY <2>1, <2>2 DEF IInv, Reading, Agreeing
<1> QED
  BY <1>1, Invariance, PTL

(***************************************************************************)
(* For every such text: no word of the code is lost (strip.c:311-429).     *)
(***************************************************************************)
THEOREM NothingIsLost == Spec => []NothingLost
<1>1. IInv => NothingLost
  <2> SUFFICES ASSUME IInv, pc = "done", NEW p \in Words({"code"})
               PROVE  p \in Kept
    BY DEF NothingLost
  <2>1. p \in DOMAIN text /\ Word(p)
    BY DEF Words, Word
  <2>2. p < pos
    <3>1. text \in Seq(Character) /\ pos \in 1..(Len(text) + 2) /\ pos \notin DOMAIN text
      BY DEF IInv, TypeOK
    <3> QED
      BY <2>1, <3>1
  <2>3. PICK n \in DOMAIN out : out[n] = p
    BY <2>1, <2>2 DEF IInv, Keeping
  <2> QED
    BY <2>3 DEF Kept
<1> QED
  BY <1>1, Invariance, PTL

(***************************************************************************)
(* For every such text: no word of a comment, a string or a docstring is   *)
(* left, which avoids the false positives of strip.c:38.                   *)
(***************************************************************************)
THEOREM NothingIsLeft == Spec => []NothingLeft
<1>1. IInv => NothingLeft
  <2> SUFFICES ASSUME IInv, pc = "done", NEW n \in DOMAIN out,
                      out[n] \in Words({"comment", "string", "doc"})
               PROVE  FALSE
    BY DEF NothingLeft, Kept
  <2>1. text[out[n]].ch = "letter" /\ text[out[n]].mode.place # "code"
    BY DEF Words
  <2> QED
    BY <2>1 DEF IInv, Keeping, Word
<1> QED
  BY <1>1, Invariance, PTL

=============================================================================
