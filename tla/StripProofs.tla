------------------------------ MODULE StripProofs ------------------------------
(***************************************************************************)
(* Proofs about Strip, for any C-like texts that are not Misread.          *)
(***************************************************************************)
EXTENDS Strip, TLAPS

-----------------------------------------------------------------------------
(* The type invariant.                                                      *)

Below(o, p) == \A n \in DOMAIN o : o[n] < p

(* While the loop comes back to the same slash, it is the last that is kept. *)
Hangs ==
    /\ language = "Python" /\ pc = "run" /\ quote = "none" /\ slash
    /\ Char(pos) = "slash" /\ CommentEnd = {}

TInv ==
    /\ TypeOK
    /\ Hangs \/ Below(out, pos)
    /\ Below(Shorter(out), pos)
    /\ \A n \in DOMAIN out : out[n] <= pos

(* A character that is not the null character is one of the text. *)
LEMMA CharInText ==
    ASSUME text \in Seq(Character), NEW p \in Nat \ {0}
    PROVE  /\ Char(p) # "end" => p \in DOMAIN text /\ Char(p) = text[p].ch
           /\ Char(p) = "end" => p \notin DOMAIN text
           /\ Char(p) \in Chars \cup {"end"}
           /\ p \in DOMAIN text <=> p <= Len(text)
<1>1. \A n \in DOMAIN text : text[n].ch \in Chars
  <2>1. \A n \in DOMAIN text : text[n] \in Character
    OBVIOUS
  <2>2. \A c \in Character : c.ch \in Chars
    BY DEF Character
  <2> QED
    BY <2>1, <2>2
<1>2. "end" \notin Chars
  BY DEF Chars, Quotes
<1>3. DOMAIN text = 1..Len(text) /\ Len(text) \in Nat
  OBVIOUS
<1>4. CASE p \in DOMAIN text
  BY <1>1, <1>2, <1>3, <1>4 DEF Char
<1>5. CASE p \notin DOMAIN text
  BY <1>3, <1>5 DEF Char
<1> QED
  BY <1>4, <1>5

(* What the last position is cut off from. *)
LEMMA ShorterIs ==
    ASSUME NEW S, NEW o \in Seq(S), o # <<>>
    PROVE  /\ Shorter(o) \in Seq(S)
           /\ Len(o) \in Nat \ {0} /\ DOMAIN o = 1..Len(o)
           /\ Len(Shorter(o)) = Len(o) - 1
           /\ DOMAIN Shorter(o) = 1..(Len(o) - 1)
           /\ \A n \in 1..(Len(o) - 1) : Shorter(o)[n] = o[n]
<1>1. Len(o) \in Nat \ {0} /\ DOMAIN o = 1..Len(o)
  OBVIOUS
<1>2. Shorter(o) = SubSeq(o, 1, Len(o) - 1)
  BY DEF Shorter
<1> QED
  BY <1>1, <1>2

(* Cutting off the last position leaves the others in their order. *)
LEMMA ShorterOrdered ==
    ASSUME NEW o, Ordered(o)
    PROVE  /\ Ordered(Shorter(o))
           /\ \A n \in DOMAIN Shorter(o) : n \in DOMAIN o /\ Shorter(o)[n] = o[n]
           /\ o # <<>> => /\ Len(o) \in DOMAIN o
                          /\ \A n \in DOMAIN Shorter(o) : o[n] < o[Len(o)]
<1>1. CASE o = <<>>
  BY <1>1 DEF Ordered, Shorter
<1>2. CASE o # <<>>
  <2>1. o \in Seq(DOMAIN text)
    BY DEF Ordered
  <2>2. /\ Shorter(o) \in Seq(DOMAIN text)
        /\ Len(o) \in Nat \ {0} /\ DOMAIN o = 1..Len(o)
        /\ DOMAIN Shorter(o) = 1..(Len(o) - 1)
        /\ \A n \in 1..(Len(o) - 1) : Shorter(o)[n] = o[n]
    BY <1>2, <2>1, ShorterIs
  <2>3. 1..(Len(o) - 1) \subseteq DOMAIN o /\ Len(o) \in DOMAIN o
    BY <2>2
  <2>4. \A m, n \in DOMAIN o : m < n => o[m] < o[n]
    BY DEF Ordered
  <2>5. \A n \in DOMAIN Shorter(o) : n < Len(o)
    BY <2>2
  <2> QED
    BY <2>2, <2>3, <2>4, <2>5 DEF Ordered
<1> QED
  BY <1>1, <1>2

(* A position behind the others may be added to them. *)
LEMMA AppendOrdered ==
    ASSUME text \in Seq(Character), NEW o, NEW p \in DOMAIN text, Ordered(o), Below(o, p)
    PROVE  /\ Ordered(Append(o, p))
           /\ \A n \in DOMAIN Append(o, p) : Append(o, p)[n] <= p
           /\ Shorter(Append(o, p)) = o
           /\ Append(o, p) # <<>> /\ Append(o, p)[Len(Append(o, p))] = p
           /\ DOMAIN o = 1..Len(o) /\ Len(o) \in Nat /\ DOMAIN Append(o, p) = 1..(Len(o) + 1)
           /\ Len(Append(o, p)) = Len(o) + 1
           /\ \A n \in 1..Len(o) : Append(o, p)[n] = o[n]
<1>1. o \in Seq(DOMAIN text) /\ Len(o) \in Nat /\ p \in Nat
  BY DEF Ordered
<1>2. /\ Append(o, p) \in Seq(DOMAIN text)
      /\ DOMAIN o = 1..Len(o)
      /\ Len(Append(o, p)) = Len(o) + 1
      /\ DOMAIN Append(o, p) = 1..(Len(o) + 1)
      /\ \A n \in 1..Len(o) : Append(o, p)[n] = o[n]
      /\ Append(o, p)[Len(o) + 1] = p
      /\ Append(o, p) # <<>>
  BY <1>1
<1>3. \A n \in 1..Len(o) : o[n] \in Nat /\ o[n] < p
  BY <1>1 DEF Below
<1>4. \A m, n \in 1..Len(o) : m < n => o[m] < o[n]
  BY <1>1 DEF Ordered
<1>5. \A n \in 1..(Len(o) + 1) : n \in 1..Len(o) \/ n = Len(o) + 1
  BY <1>1
<1>6. \A n \in DOMAIN Append(o, p) : Append(o, p)[n] <= p
  BY <1>1, <1>2, <1>3, <1>5
<1>7. \A m, n \in DOMAIN Append(o, p) : m < n => Append(o, p)[m] < Append(o, p)[n]
  BY <1>1, <1>2, <1>3, <1>4, <1>5
<1>8. Shorter(Append(o, p)) = o
  <2> DEFINE a == Append(o, p)
  <2>1. Shorter(a) = SubSeq(a, 1, Len(o))
    BY <1>1, <1>2 DEF Shorter
  <2>2. a \in Seq(DOMAIN text) /\ Len(a) = Len(o) + 1 /\ \A n \in 1..Len(o) : a[n] = o[n]
    BY <1>2
  <2> HIDE DEF a
  <2>3. SubSeq(a, 1, Len(o)) \in Seq(DOMAIN text) /\ Len(SubSeq(a, 1, Len(o))) = Len(o)
    BY <1>1, <2>2
  <2>4. \A n \in 1..Len(o) : SubSeq(a, 1, Len(o))[n] = o[n]
    BY <1>1, <2>2
  <2>5. SubSeq(a, 1, Len(o)) = o
    BY <1>1, <2>3, <2>4
  <2> QED
    BY <2>1, <2>5 DEF a
<1> QED
  BY <1>1, <1>2, <1>6, <1>7, <1>8 DEF Ordered

(* What the loop's body ends with keeps the output in order. *)
LEMMA EmitType ==
    ASSUME text \in Seq(Character), text' = text, NEW o, NEW at \in Nat \ {0}, NEW p, NEW skip,
           Emit(o, at, p, skip), Ordered(o), Below(o, at)
    PROVE  /\ Ordered(out)'
           /\ \A n \in DOMAIN out' : out'[n] <= at
           /\ Below(Shorter(out'), at)
           /\ pos' = p
           /\ escape' \in BOOLEAN /\ space' \in 0..2
           /\ pc' = IF at <= Len(text) THEN "run" ELSE "done"
<1>1. /\ Char(at) # "end" => at \in DOMAIN text
      /\ at \in DOMAIN text <=> at <= Len(text)
  BY CharInText
<1>2. PICK new : new = out'
  OBVIOUS
<1>3. new \in {o, Shorter(o)} \/ (new = Append(o, at) /\ at \in DOMAIN text)
  BY <1>1, <1>2 DEF Emit
<1>4. \A n \in DOMAIN o : o[n] \in Nat
  <2>1. o \in Seq(DOMAIN text)
    BY DEF Ordered
  <2>2. \A n \in DOMAIN text : n \in Nat
    OBVIOUS
  <2> QED
    BY <2>1, <2>2
<1>5. Ordered(new) /\ (\A n \in DOMAIN new : new[n] <= at) /\ Below(Shorter(new), at)
  <2>1. CASE new = Append(o, at) /\ at \in DOMAIN text
    BY <2>1, AppendOrdered
  <2>2. /\ Ordered(o) /\ Ordered(Shorter(o))
        /\ \A n \in DOMAIN Shorter(o) : n \in DOMAIN o /\ Shorter(o)[n] = o[n]
    BY ShorterOrdered
  <2>3. \A n \in DOMAIN Shorter(Shorter(o)) :
            n \in DOMAIN Shorter(o) /\ Shorter(Shorter(o))[n] = Shorter(o)[n]
    BY <2>2, ShorterOrdered
  <2>4. CASE new \in {o, Shorter(o)}
    <3>1. \A n \in DOMAIN o : o[n] <= at /\ o[n] < at
      BY <1>4 DEF Below
    <3> QED
      BY <2>2, <2>3, <2>4, <3>1 DEF Below
  <2> QED
    BY <1>3, <2>1, <2>4
<1>6. Ordered(out)'
  BY <1>2, <1>5 DEF Ordered
<1>7. escape' \in BOOLEAN /\ space' \in 0..2 /\ pos' = p
  BY DEF Emit
<1>8. pc' = IF at <= Len(text) THEN "run" ELSE "done"
  BY <1>1 DEF Emit
<1> QED
  BY <1>2, <1>5, <1>6, <1>7, <1>8

(* What the type invariant says in a round. *)
LEMMA Types ==
    ASSUME TInv, pc = "run"
    PROVE  /\ language \in Languages
           /\ text \in Seq(Character) /\ Len(text) \in Nat /\ DOMAIN text = 1..Len(text)
           /\ pos \in Nat \ {0} /\ pos <= Len(text) + 1
           /\ Ordered(out) /\ Ordered(Shorter(out)) /\ Below(Shorter(out), pos)
           /\ quote \in Quotes \cup {"none"}
           /\ slash \in BOOLEAN /\ escape \in BOOLEAN /\ header \in BOOLEAN
           /\ space \in 0..2
           /\ Char(pos) # "end" => pos <= Len(text)
<1>1. /\ language \in Languages /\ text \in Seq(Character) /\ pos \in 1..(Len(text) + 2)
      /\ pos <= Len(text) + 1
      /\ Ordered(out)
      /\ quote \in Quotes \cup {"none"}
      /\ slash \in BOOLEAN /\ escape \in BOOLEAN /\ header \in BOOLEAN
      /\ space \in 0..2
  BY DEF TInv, TypeOK
<1>2. Len(text) \in Nat /\ DOMAIN text = 1..Len(text)
  BY <1>1
<1>3. Char(pos) # "end" => pos <= Len(text)
  BY <1>1, <1>2, CharInText
<1>4. Ordered(Shorter(out)) /\ Below(Shorter(out), pos)
  BY <1>1, ShorterOrdered DEF TInv
<1> QED
  BY <1>1, <1>2, <1>3, <1>4

(* A round that gets on. *)
LEMMA RoundType ==
    ASSUME TInv, pc = "run", UNCHANGED input,
           NEW o, o = Shorter(out) \/ (o = out /\ ~ Hangs),
           NEW at \in Nat, NEW p \in Nat, NEW skip, Emit(o, at, p, skip),
           pos <= at, at < p, p <= Len(text) + 2, at <= Len(text) => p <= Len(text) + 1,
           quote' \in Quotes \cup {"none"}, slash' \in BOOLEAN, header' \in BOOLEAN
    PROVE  TInv'
<1>1. /\ language \in Languages
      /\ text \in Seq(Character) /\ Len(text) \in Nat
      /\ pos \in Nat \ {0} /\ pos <= Len(text) + 1
      /\ Ordered(out) /\ Ordered(Shorter(out)) /\ Below(Shorter(out), pos)
  BY Types
<1>2. text' = text /\ language' = language
  BY DEF input
<1>3. \A n \in DOMAIN o : o[n] \in Nat
  <2>1. o \in Seq(DOMAIN text)
    BY <1>1 DEF Ordered
  <2>2. \A n \in DOMAIN text : n \in Nat
    BY <1>1
  <2> QED
    BY <2>1, <2>2
<1>4. Ordered(o) /\ Below(o, at)
  <2>1. Ordered(o) /\ Below(o, pos)
    BY <1>1 DEF TInv
  <2> QED
    BY <1>1, <1>3, <2>1 DEF Below
<1>5. /\ Ordered(out)'
      /\ \A n \in DOMAIN out' : out'[n] <= at
      /\ Below(Shorter(out'), at)
      /\ pos' = p
      /\ escape' \in BOOLEAN /\ space' \in 0..2
      /\ pc' = IF at <= Len(text) THEN "run" ELSE "done"
  <2>1. at \in Nat \ {0}
    BY <1>1
  <2> QED
    BY <1>1, <1>2, <1>4, <2>1, EmitType
<1>6. PICK new : new = out'
  OBVIOUS
<1>7. Ordered(new)
  BY <1>2, <1>5, <1>6 DEF Ordered
<1>8. \A n \in DOMAIN new : new[n] \in Nat
  <2>1. new \in Seq(DOMAIN text)
    BY <1>7 DEF Ordered
  <2>2. \A n \in DOMAIN text : n \in Nat
    BY <1>1
  <2> QED
    BY <2>1, <2>2
<1>9. \A n \in DOMAIN Shorter(new) : n \in DOMAIN new /\ Shorter(new)[n] = new[n]
  BY <1>7, ShorterOrdered
<1>10. Below(new, p) /\ Below(Shorter(new), p) /\ \A n \in DOMAIN new : new[n] <= p
  BY <1>5, <1>6, <1>8, <1>9 DEF Below
<1>11. (Hangs \/ Below(out, pos))'
  BY <1>5, <1>6, <1>10 DEF Below
<1>12. Below(Shorter(out), pos)' /\ \A n \in DOMAIN out' : out'[n] <= pos'
  BY <1>5, <1>6, <1>10 DEF Below, Shorter
<1>13. pos' \in 1..(Len(text') + 2) /\ (pc' = "run" => pos' <= Len(text') + 1)
  BY <1>1, <1>2, <1>5
<1>14. language' \in Languages /\ text' \in Seq(Character) /\ pc' \in {"run", "done", "failed"}
  BY <1>1, <1>2, <1>5
<1>15. TypeOK'
  BY <1>5, <1>13, <1>14 DEF TypeOK
<1> QED
  BY <1>11, <1>12, <1>15 DEF TInv

(* A round that keeps the character at hand, or leaves it out. *)
LEMMA KeepType ==
    ASSUME TInv, pc = "run", ~ Hangs, UNCHANGED input, NEW skip, Emit(out, pos, pos + 1, skip),
           quote' \in Quotes \cup {"none"}, slash' \in BOOLEAN, header' \in BOOLEAN
    PROVE  TInv'
<1>1. text \in Seq(Character) /\ Len(text) \in Nat /\ pos \in Nat \ {0} /\ pos <= Len(text) + 1
  BY Types
<1>2. /\ pos + 1 \in Nat /\ pos <= pos /\ pos < pos + 1
      /\ pos + 1 <= Len(text) + 2 /\ (pos <= Len(text) => pos + 1 <= Len(text) + 1)
  BY <1>1
<1> QED
  BY <1>1, <1>2, RoundType

(* What leaves the output alone. *)
LEMMA SameType ==
    ASSUME TInv, UNCHANGED <<input, out>>, UNCHANGED quote,
           slash' \in BOOLEAN, UNCHANGED escape, header' \in BOOLEAN, UNCHANGED space,
           pc' \in {"run", "done", "failed"}, pc' = "run" => pc = "run",
           pos' \in Nat, pos' >= pos, pos' <= Len(text) + 2,
           pc' = "run" => pos' <= Len(text) + 1,
           Below(out, pos)
    PROVE  TInv'
<1>1. /\ text \in Seq(Character) /\ pos \in 1..(Len(text) + 2) /\ Len(text) \in Nat
      /\ Ordered(out)
      /\ language \in Languages /\ quote \in Quotes \cup {"none"} /\ escape \in BOOLEAN
      /\ space \in 0..2
  <2>1. text \in Seq(Character)
    BY DEF TInv, TypeOK
  <2> QED
    BY <2>1 DEF TInv, TypeOK
<1>2. text' = text /\ language' = language /\ out' = out
  BY DEF input
<1>3. Ordered(out)'
  BY <1>1, <1>2 DEF Ordered
<1>4. TypeOK'
  BY <1>1, <1>2, <1>3 DEF TypeOK
<1>5. \A n \in DOMAIN out : out[n] \in Nat
  <2>1. out \in Seq(DOMAIN text)
    BY <1>1 DEF Ordered
  <2>2. \A n \in DOMAIN text : n \in Nat
    BY <1>1
  <2> QED
    BY <2>1, <2>2
<1>6. \A n \in DOMAIN Shorter(out) : n \in DOMAIN out /\ Shorter(out)[n] = out[n]
  BY <1>1, ShorterOrdered
<1>7. PICK p : p = pos'
  OBVIOUS
<1>8. Below(out, p) /\ Below(Shorter(out), p) /\ \A n \in DOMAIN out : out[n] <= p
  BY <1>1, <1>5, <1>6, <1>7 DEF Below
<1>9. (Hangs \/ Below(out, pos))'
  BY <1>2, <1>7, <1>8 DEF Below
<1>10. Below(Shorter(out), pos)' /\ \A n \in DOMAIN out' : out'[n] <= pos'
  BY <1>2, <1>7, <1>8 DEF Below, Shorter
<1> QED
  BY <1>4, <1>9, <1>10 DEF TInv

LEMMA StepType == TInv /\ [Next]_vars => TInv'
<1> SUFFICES ASSUME TInv, [Next]_vars
             PROVE  TInv'
  OBVIOUS
<1>1. pc = "run" =>
      /\ text \in Seq(Character) /\ Len(text) \in Nat /\ DOMAIN text = 1..Len(text)
      /\ pos \in Nat \ {0} /\ pos <= Len(text) + 1
      /\ quote \in Quotes \cup {"none"}
      /\ slash \in BOOLEAN /\ escape \in BOOLEAN /\ header \in BOOLEAN
      /\ space \in 0..2
      /\ Char(pos) # "end" => pos <= Len(text)
  BY Types
<1>2. ~ Hangs => Below(out, pos)
  BY DEF TInv
<1>3. CASE LineComment
  <2>1. PICK e \in CommentEnd :
           Emit(Shorter(out), IF language = "C" THEN e ELSE pos, e + 1,
                LastChar(Shorter(out)) = "newline")
    BY <1>3 DEF LineComment
  <2>2. pc = "run" /\ UNCHANGED <<input, quote, slash, header>>
    BY <1>3 DEF LineComment, Running
  <2>3. e \in DOMAIN text /\ e >= pos
    BY <1>1, <2>1, <2>2 DEF CommentEnd, First, Newlines
  <2> DEFINE at == IF language = "C" THEN e ELSE pos
  <2>4. /\ at \in Nat /\ e + 1 \in Nat /\ pos <= at /\ at < e + 1
        /\ e + 1 <= Len(text) + 2 /\ (at <= Len(text) => e + 1 <= Len(text) + 1)
    BY <1>1, <2>2, <2>3
  <2>5. quote' \in Quotes \cup {"none"} /\ slash' \in BOOLEAN /\ header' \in BOOLEAN
    BY <1>1, <2>2
  <2>6. Emit(Shorter(out), at, e + 1, LastChar(Shorter(out)) = "newline")
    BY <2>1
  <2> HIDE DEF at
  <2> QED
    BY <2>2, <2>4, <2>5, <2>6, RoundType
<1>4. CASE OpenComment
  <2>1. /\ pc = "run" /\ UNCHANGED <<input, quote, slash, header>>
        /\ Char(pos) = "slash" /\ quote = "none" /\ slash /\ CommentEnd = {}
        /\ IF language = "C" THEN Emit(Shorter(out), pos, pos + 1, FALSE)
           ELSE Emit(Shorter(out), pos, pos, LastChar(Shorter(out)) = "newline")
    BY <1>4 DEF OpenComment, Running, Opens
  <2>2. pos <= Len(text)
    BY <1>1, <2>1
  <2>3. quote' \in Quotes \cup {"none"} /\ slash' \in BOOLEAN /\ header' \in BOOLEAN
    BY <1>1, <2>1
  <2>4. CASE language = "C"
    <3>1. /\ pos + 1 \in Nat /\ pos <= pos /\ pos < pos + 1
          /\ pos + 1 <= Len(text) + 2 /\ (pos <= Len(text) => pos + 1 <= Len(text) + 1)
      BY <1>1, <2>1
    <3>2. Emit(Shorter(out), pos, pos + 1, FALSE)
      BY <2>1, <2>4
    <3> QED
      BY <1>1, <2>1, <2>3, <3>1, <3>2, RoundType
  <2>5. CASE language # "C"
    <3>1. Emit(Shorter(out), pos, pos, LastChar(Shorter(out)) = "newline")
      BY <2>1, <2>5
    <3>2. Ordered(Shorter(out)) /\ Below(Shorter(out), pos)
      BY <2>1, Types
    <3>3. text' = text /\ language' = language
      BY <2>1 DEF input
    <3>4. /\ Ordered(out)'
          /\ \A n \in DOMAIN out' : out'[n] <= pos
          /\ Below(Shorter(out'), pos)
          /\ pos' = pos
          /\ escape' \in BOOLEAN /\ space' \in 0..2
          /\ pc' = IF pos <= Len(text) THEN "run" ELSE "done"
      BY <1>1, <2>1, <3>1, <3>2, <3>3, EmitType
    <3>5. language = "Python"
      BY <2>1, <2>5, Types, StripAssumption
    <3>6. Hangs'
      BY <2>1, <2>2, <3>3, <3>4, <3>5 DEF Hangs, Char, CommentEnd, First, Newlines
    <3>7. TypeOK'
      BY <1>1, <2>1, <2>2, <2>3, <3>3, <3>4, Types DEF TypeOK
    <3>8. Below(Shorter(out), pos)' /\ \A n \in DOMAIN out' : out'[n] <= pos'
      BY <3>3, <3>4 DEF Below, Shorter
    <3> QED
      BY <3>6, <3>7, <3>8 DEF TInv
  <2> QED
    BY <2>4, <2>5
<1>5. CASE BlockComment
  <2>1. PICK e \in BlockEnd :
           Emit(Shorter(out), e + 2, e + 3,
                Char(e + 2) = "newline" /\ LastChar(Shorter(out)) = "newline")
    BY <1>5 DEF BlockComment
  <2>2. pc = "run" /\ UNCHANGED <<input, quote, header>> /\ slash' = FALSE
    BY <1>5 DEF BlockComment, Running
  <2>3. e \in DOMAIN text /\ e >= pos /\ Char(e + 1) = "slash"
    BY <2>1 DEF BlockEnd, First
  <2>4. e + 1 <= Len(text)
    BY <1>1, <2>2, <2>3, CharInText
  <2>5. /\ e + 2 \in Nat /\ e + 3 \in Nat /\ pos <= e + 2 /\ e + 2 < e + 3
        /\ e + 3 <= Len(text) + 2 /\ (e + 2 <= Len(text) => e + 3 <= Len(text) + 1)
    BY <1>1, <2>2, <2>3, <2>4
  <2>6. quote' \in Quotes \cup {"none"} /\ slash' \in BOOLEAN /\ header' \in BOOLEAN
    BY <1>1, <2>2
  <2> QED
    BY <2>1, <2>2, <2>5, <2>6, RoundType
<1>6. CASE OpenBlock
  <2>1. /\ pc = "run" /\ UNCHANGED <<input, quote, header>> /\ Char(pos) = "star"
        /\ IF language = "C"
           THEN pc' = "failed" /\ UNCHANGED <<pos, out, slash, escape, space>>
           ELSE slash' = FALSE /\ Emit(Shorter(out), pos + 1, pos + 2, FALSE)
    BY <1>6 DEF OpenBlock, Running
  <2>2. pos <= Len(text) /\ Below(out, pos)
    BY <1>1, <1>2, <2>1 DEF Hangs
  <2>3. CASE language = "C"
    <3>1. pc' = "failed" /\ UNCHANGED <<pos, out, slash, escape, space>>
      BY <2>1, <2>3
    <3> QED
      BY <1>1, <2>1, <2>2, <3>1, SameType
  <2>4. CASE language # "C"
    <3>1. slash' = FALSE /\ Emit(Shorter(out), pos + 1, pos + 2, FALSE)
      BY <2>1, <2>4
    <3>2. /\ pos + 1 \in Nat /\ pos + 2 \in Nat /\ pos <= pos + 1 /\ pos + 1 < pos + 2
          /\ pos + 2 <= Len(text) + 2 /\ (pos + 1 <= Len(text) => pos + 2 <= Len(text) + 1)
      BY <1>1, <2>1, <2>2
    <3>3. quote' \in Quotes \cup {"none"} /\ slash' \in BOOLEAN /\ header' \in BOOLEAN
      BY <1>1, <2>1, <3>1
    <3> QED
      BY <2>1, <3>1, <3>2, <3>3, RoundType
  <2> QED
    BY <2>3, <2>4
<1>7. CASE Slash
  BY <1>1, <1>7, KeepType DEF Slash, Running, Keep, Hangs, Opens
<1>8. CASE Star
  BY <1>1, <1>8, KeepType DEF Star, Running, Keep, Hangs
<1>9. CASE Newline
  <2>1. pc = "run" /\ UNCHANGED input /\ ~ Hangs
    BY <1>9 DEF Newline, Running, Hangs
  <2>2. quote' \in Quotes \cup {"none"} /\ slash' \in BOOLEAN /\ header' \in BOOLEAN
    BY <1>1, <1>9, <2>1 DEF Newline
  <2>3. \/ Emit(out, pos, pos + 1, FALSE)
        \/ Emit(out, pos, pos + 1, LastChar(out) = "newline")
    BY <1>9 DEF Newline, Keep
  <2> QED
    BY <2>1, <2>2, <2>3, KeepType
<1>10. CASE Include
  <2>1. PICK e \in First(Newlines(pos)) : pos' = IF language = "C" THEN e ELSE e + 1
    BY <1>10 DEF Include
  <2>2. /\ pc = "run" /\ ~ Hangs /\ UNCHANGED <<input, out, quote, escape, space, pc>>
        /\ slash' \in BOOLEAN /\ header' \in BOOLEAN
    BY <1>1, <1>10 DEF Include, Directive, AtLineStart, Running, Hangs
  <2>3. e \in DOMAIN text /\ e >= pos
    BY <2>1 DEF First, Newlines
  <2>4. pos' \in Nat /\ pos' >= pos /\ pos' <= Len(text) + 1
    BY <1>1, <2>1, <2>2, <2>3
  <2>5. pos' <= Len(text) + 2 /\ pc' = "run"
    BY <1>1, <2>2, <2>4
  <2> QED
    BY <1>2, <2>2, <2>4, <2>5, SameType
<1>11. CASE OpenInclude
  <2>1. /\ pc = "run" /\ ~ Hangs /\ UNCHANGED <<input, out, quote, escape, header, space, pc>>
        /\ slash' = FALSE /\ pos' = pos + 1 /\ pos <= Len(text) /\ header' \in BOOLEAN
    BY <1>1, <1>11 DEF OpenInclude, LastInclude, AtLineStart, Running, Hangs
  <2>2. pos' \in Nat /\ pos' >= pos /\ pos' <= Len(text) + 1 /\ pos' <= Len(text) + 2
    BY <1>1, <2>1
  <2> QED
    BY <1>2, <2>1, <2>2, SameType
<1>12. CASE LastHash
  <2>1. /\ pc = "run" /\ ~ Hangs /\ UNCHANGED <<input, pos, out, quote, escape, header, space>>
        /\ slash' = FALSE /\ pc' = "failed" /\ header' \in BOOLEAN
    BY <1>1, <1>12 DEF LastHash, LastInclude, AtLineStart, Running, Hangs
  <2>2. pos' \in Nat /\ pos' >= pos /\ pos' <= Len(text) + 2
    BY <1>1, <2>1
  <2> QED
    BY <1>2, <2>1, <2>2, SameType
<1>13. CASE Hash
  BY <1>1, <1>13, KeepType DEF Hash, Running, Keep, Hangs
<1>14. CASE Backslash
  BY <1>1, <1>14, KeepType DEF Backslash, Running, Keep, Hangs
<1>15. CASE Other
  BY <1>1, <1>15, KeepType DEF Other, Running, Keep, Hangs
<1>16. ASSUME NEW q \in Quotes, Quote(q)
       PROVE  TInv'
  <2>1. /\ pc = "run" /\ UNCHANGED <<input, header>> /\ slash' = FALSE
        /\ quote' \in {"none", q, quote} /\ ~ Hangs
    BY <1>16 DEF Quote, Running, Hangs, Quotes
  <2>2. Emit(out, pos, pos + 1, TRUE) \/ Emit(out, pos, pos + 1, FALSE)
    BY <1>16 DEF Quote, Keep
  <2>3. quote' \in Quotes \cup {"none"} /\ slash' \in BOOLEAN /\ header' \in BOOLEAN
    BY <1>1, <2>1
  <2> QED
    BY <2>1, <2>2, <2>3, KeepType
<1>17. CASE Stopped \/ UNCHANGED vars
  <2>1. UNCHANGED <<language, text, pos, out, quote, slash, escape, header, space, pc>>
    BY <1>17 DEF Stopped, vars, input
  <2> QED
    BY <2>1 DEF TInv, TypeOK, Ordered, Hangs, Below, Shorter, Char, CommentEnd, First, Newlines
<1> QED
  BY <1>3, <1>4, <1>5, <1>6, <1>7, <1>8, <1>9, <1>10, <1>11, <1>12, <1>13, <1>14, <1>15,
     <1>16, <1>17 DEF Next, Step

LEMMA InitType == Init => TInv
<1> SUFFICES ASSUME Init
             PROVE  TInv
  OBVIOUS
<1>1. language \in Languages /\ text \in Texts[language]
  BY DEF Init
<1>2. text \in Seq(Character)
  BY <1>1, StripAssumption DEF CLike
<1>3. Len(text) \in Nat
  BY <1>2
<1>4. out = <<>> /\ DOMAIN out = {} /\ out \in Seq(DOMAIN text)
  BY DEF Init
<1>5. Ordered(out) /\ Below(out, pos) /\ Shorter(out) = out
  BY <1>4 DEF Ordered, Below, Shorter
<1>6. pos \in 1..(Len(text) + 2) /\ pos <= Len(text) + 1
  BY <1>3 DEF Init
<1>7. /\ quote \in Quotes \cup {"none"}
      /\ slash \in BOOLEAN /\ escape \in BOOLEAN /\ header \in BOOLEAN
      /\ space \in 0..2
      /\ pc \in {"run", "done", "failed"}
  <2>1. quote = "none" /\ space = 0 /\ pc = "run"
    BY DEF Init
  <2>2. slash = FALSE /\ escape = FALSE /\ header = FALSE
    BY DEF Init
  <2>3. quote \in Quotes \cup {"none"} /\ space \in 0..2 /\ pc \in {"run", "done", "failed"}
    BY <2>1
  <2>4. slash \in BOOLEAN /\ escape \in BOOLEAN /\ header \in BOOLEAN
    BY <2>2
  <2> QED
    BY <2>3, <2>4
<1>8. TypeOK
  BY <1>1, <1>2, <1>5, <1>6, <1>7 DEF TypeOK
<1> QED
  BY <1>4, <1>5, <1>8 DEF TInv

(***************************************************************************)
(* What is kept is a part of the text, in its order, whatever the text     *)
(* (strip.c:98-242, utils.py:145-252).                                     *)
(***************************************************************************)
THEOREM TypeCorrect == Spec => []TypeOK
<1>1. TInv => TypeOK
  BY DEF TInv
<1> QED
  BY <1>1, InitType, StepType, PTL DEF Spec

-----------------------------------------------------------------------------
(* Facts about texts.                                                       *)

(* The piece a character is in. *)
LEMMA PieceFacts ==
    ASSUME NEW t, CLike(t), NEW p \in DOMAIN t
    PROVE  /\ t \in Seq(Character) /\ Len(t) \in Nat /\ DOMAIN t = 1..Len(t)
           /\ t[p].ch \in Chars
           /\ t[p].first \in Nat /\ t[p].last \in Nat
           /\ 1 <= t[p].first /\ t[p].first <= p /\ p <= t[p].last /\ t[p].last <= Len(t)
           /\ \A q \in t[p].first..t[p].last :
                 /\ q \in DOMAIN t
                 /\ t[q].kind = t[p].kind /\ t[q].first = t[p].first /\ t[q].last = t[p].last
           /\ t[p].kind = Kind(t, t[p].first)
           /\ \A e \in Nat : Whole(t, t[p].first, e) /\ t[p].first <= e => t[p].last <= e
           /\ Whole(t, t[p].first, t[p].last) \/ t[p].last = Len(t)
<1>1. t \in Seq(Character)
  BY DEF CLike
<1>2. Len(t) \in Nat /\ DOMAIN t = 1..Len(t)
  BY <1>1
<1>3. t[p] \in Character
  BY <1>1
<1>4. t[p].ch \in Chars /\ t[p].first \in Nat /\ t[p].last \in Nat
  BY <1>3 DEF Character
<1>5. /\ t[p].first \in 1..p /\ t[p].last \in p..Len(t)
      /\ \A q \in t[p].first..t[p].last :
            t[q].kind = t[p].kind /\ t[q].first = t[p].first /\ t[q].last = t[p].last
      /\ t[p].kind = Kind(t, t[p].first)
      /\ \A e \in t[p].first..(t[p].last - 1) : ~ Whole(t, t[p].first, e)
      /\ Whole(t, t[p].first, t[p].last) \/ t[p].last = Len(t)
  BY DEF CLike, Pieces
<1>6. /\ 1 <= t[p].first /\ t[p].first <= p /\ p <= t[p].last /\ t[p].last <= Len(t)
  BY <1>2, <1>4, <1>5
<1>7. \A q \in t[p].first..t[p].last : q \in DOMAIN t
  BY <1>2, <1>4, <1>6
<1>8. \A e \in Nat : t[p].first <= e /\ ~ (t[p].last <= e) => e \in t[p].first..(t[p].last - 1)
  BY <1>4
<1> QED
  BY <1>1, <1>2, <1>4, <1>5, <1>6, <1>7, <1>8

(* Behind a piece begins the next one. *)
LEMMA NextPiece ==
    ASSUME NEW t, CLike(t), NEW p \in DOMAIN t, t[p].last = p, p + 1 \in DOMAIN t
    PROVE  t[p + 1].first = p + 1
<1>1. p \in Nat
  BY PieceFacts
<1>2. /\ t[p + 1].first \in Nat /\ t[p + 1].last \in Nat
      /\ t[p + 1].first <= p + 1 /\ p + 1 <= t[p + 1].last
      /\ \A q \in t[p + 1].first..t[p + 1].last : t[q].last = t[p + 1].last
  BY PieceFacts
<1>3. SUFFICES ASSUME t[p + 1].first <= p
               PROVE  FALSE
  BY <1>1, <1>2
<1>4. p \in t[p + 1].first..t[p + 1].last
  BY <1>1, <1>2, <1>3
<1>5. t[p].last = t[p + 1].last
  BY <1>2, <1>4
<1> QED
  BY <1>1, <1>2, <1>5

(* A piece goes on until it ends. *)
LEMMA SamePiece ==
    ASSUME NEW t, CLike(t), NEW p \in DOMAIN t, t[p].last # p
    PROVE  /\ p + 1 \in DOMAIN t
           /\ t[p + 1].kind = t[p].kind /\ t[p + 1].first = t[p].first
           /\ t[p + 1].last = t[p].last
<1>1. /\ p \in Nat /\ t[p].first \in Nat /\ t[p].last \in Nat
      /\ t[p].first <= p /\ p <= t[p].last
      /\ \A q \in t[p].first..t[p].last :
            /\ q \in DOMAIN t
            /\ t[q].kind = t[p].kind /\ t[q].first = t[p].first /\ t[q].last = t[p].last
  BY PieceFacts
<1>2. p + 1 \in t[p].first..t[p].last
  BY <1>1
<1> QED
  BY <1>1, <1>2

(* The first character of a piece is in it, and no character is in front of it. *)
LEMMA FirstOfPiece ==
    ASSUME NEW t, CLike(t), NEW p \in DOMAIN t
    PROVE  /\ t[p].first \in DOMAIN t
           /\ t[t[p].first].kind = t[p].kind /\ t[t[p].first].first = t[p].first
           /\ t[t[p].first].last = t[p].last
           /\ t[p].last \in DOMAIN t
           /\ t[t[p].last].kind = t[p].kind /\ t[t[p].last].first = t[p].first
           /\ t[t[p].last].last = t[p].last
<1>1. /\ p \in Nat /\ t[p].first \in Nat /\ t[p].last \in Nat
      /\ t[p].first <= p /\ p <= t[p].last
      /\ \A q \in t[p].first..t[p].last :
            /\ q \in DOMAIN t
            /\ t[q].kind = t[p].kind /\ t[q].first = t[p].first /\ t[q].last = t[p].last
  BY PieceFacts
<1>2. t[p].first \in t[p].first..t[p].last /\ t[p].last \in t[p].first..t[p].last
  BY <1>1
<1> QED
  BY <1>1, <1>2

(* The piece that the text does not end is the last one. *)
LEMMA WholePiece ==
    ASSUME NEW t, CLike(t), NEW p \in DOMAIN t,
           OpenAt(t) \in DOMAIN t => t[p].first < OpenAt(t)
    PROVE  Whole(t, t[p].first, t[p].last)
<1> SUFFICES ASSUME ~ Whole(t, t[p].first, t[p].last)
             PROVE  FALSE
  OBVIOUS
<1>1. t[p].last = Len(t) /\ DOMAIN t = 1..Len(t) /\ t \in Seq(Character)
  BY PieceFacts
<1>2. /\ t[p].first \in DOMAIN t /\ t[p].last \in DOMAIN t
      /\ t[t[p].last].first = t[p].first
  BY FirstOfPiece
<1>3. t # <<>> /\ t[Len(t)].first = t[p].first
  BY <1>1, <1>2
<1>4. OpenAt(t) = t[p].first
  BY <1>1, <1>3 DEF OpenAt
<1>5. t[p].first \in Nat
  BY PieceFacts
<1> QED
  BY <1>2, <1>4, <1>5

(* What a piece of each kind begins with. *)
LEMMA Beginning ==
    ASSUME NEW t, CLike(t), NEW p \in DOMAIN t, t[p].first = p
    PROVE  /\ t[p].kind = Kind(t, p)
           /\ t[p].kind \in Kinds
           /\ t[p].kind = "string" <=> t[p].ch \in Quotes
           /\ t[p].kind = "line" <=> t[p].ch = "slash" /\ Is(t, p + 1, "slash")
           /\ t[p].kind = "block" <=> t[p].ch = "slash" /\ Is(t, p + 1, "star")
           /\ t[p].kind = "header" <=> t[p].ch = "hash" /\ t[p].start /\ Includes(t, p)
<1>1. t[p].kind = Kind(t, p) /\ t[p].ch \in Chars
  BY PieceFacts
<1>2. "slash" \notin Quotes /\ "hash" \notin Quotes
  BY DEF Quotes
<1> QED
  BY <1>1, <1>2 DEF Kind, Kinds, Is

(* The code is in pieces of one character, but for a line that goes on. *)
LEMMA CodeAlone ==
    ASSUME NEW t, CLike(t), NEW p \in DOMAIN t, t[p].kind = "code", t[p].first = p,
           t[p].ch # "backslash"
    PROVE  t[p].last = p
<1>1. /\ p \in Nat /\ p <= t[p].last /\ t[p].last \in Nat
      /\ \A e \in Nat : Whole(t, p, e) /\ p <= e => t[p].last <= e
  BY PieceFacts
<1>2. Whole(t, p, p)
  BY DEF Whole
<1> QED
  BY <1>1, <1>2

LEMMA CodeJoined ==
    ASSUME NEW t, CLike(t), NEW p \in DOMAIN t, t[p].kind = "code", t[p].first < p
    PROVE  /\ t[p].ch = "newline" /\ t[p].first = p - 1 /\ t[p].last = p
           /\ p - 1 \in DOMAIN t
           /\ t[p - 1].ch = "backslash" /\ t[p - 1].kind = "code" /\ t[p - 1].first = p - 1
           /\ t[p - 1].last = p
<1> DEFINE f == t[p].first
<1>1. /\ p \in Nat /\ f \in Nat /\ 1 <= f /\ f <= p /\ p <= t[p].last /\ t[p].last \in Nat
      /\ \A e \in Nat : Whole(t, f, e) /\ f <= e => t[p].last <= e
  BY PieceFacts
<1>2. f \in DOMAIN t /\ t[f].kind = "code" /\ t[f].first = f /\ t[f].last = t[p].last
  BY FirstOfPiece
<1>3. t[f].ch = "backslash"
  <2>1. t[f].last # f
    BY <1>1, <1>2
  <2> QED
    BY <1>2, <2>1, CodeAlone
<1>4. Whole(t, f, f + 1)
  BY <1>2, <1>3 DEF Whole
<1>5. t[p].last = p /\ f = p - 1
  BY <1>1, <1>4
<1>6. t[p].ch = "newline"
  BY DEF CLike, Allowed
<1> QED
  BY <1>2, <1>3, <1>5, <1>6

(* The newline of a line that goes on begins no line. *)
LEMMA JoinedMarks ==
    ASSUME NEW t, CLike(t), NEW p \in DOMAIN t, t[p].kind = "code", t[p].first < p
    PROVE  t[p].escaped = TRUE /\ t[p].start = FALSE
<1> DEFINE f == p - 1
<1>1. p \in Nat /\ p >= 1
  BY PieceFacts
<1>2. /\ t[p].first = f
      /\ f \in DOMAIN t /\ t[f].ch = "backslash" /\ t[f].first = f /\ t[f].last = p
  BY CodeJoined
<1>3. t[f].escaped = Escaped(t, f) /\ t[p].escaped = Escaped(t, p) /\ t[p].start = Start(t, p)
  BY <1>2 DEF CLike
<1>4. t[f].escaped = FALSE
  <2>1. ~ (t[f].first < f)
    BY <1>1, <1>2
  <2>2. Escaped(t, f) = FALSE
    BY <2>1 DEF Escaped
  <2> QED
    BY <1>3, <2>2
<1>5. t[p].escaped = TRUE
  <2>1. Escaped(t, p) = TRUE
    BY <1>2, <1>4 DEF Escaped
  <2> QED
    BY <1>3, <2>1
<1>6. t[p].start = FALSE
  <2>1. t[p - 1].last = p /\ p # 1 /\ p # p - 1
    <3>1. f \in Nat /\ f >= 1
      BY <1>2, PieceFacts
    <3> QED
      BY <1>1, <1>2, <3>1
  <2>2. Start(t, p) = FALSE
    BY <2>1 DEF Start
  <2> QED
    BY <1>3, <2>2
<1> QED
  BY <1>5, <1>6

(* A character of the code, and what is behind it. *)
LEMMA CodeFacts ==
    ASSUME NEW language_, NEW t, CLike(t), ~ Misread(language_, t),
           NEW p \in DOMAIN t, t[p].kind = "code"
    PROVE  /\ t[p].ch \notin Quotes
           /\ t[p].ch = "backslash" => t[p].first = p
           /\ t[p].ch # "backslash" => t[p].last = p
           /\ t[p].ch # "newline" => t[p].first = p
           /\ t[p].ch = "slash" => ~ Is(t, p + 1, "slash") /\ ~ Is(t, p + 1, "star")
                                   /\ ~ Is(t, p + 1, "backslash")
           /\ t[p].ch = "hash" => ~ Includes(t, p)
           /\ t[p].ch = "backslash" /\ Whole(t, p, t[p].last) => t[p].last = p + 1
<1>1. p \in Nat /\ t[p].first \in Nat /\ t[p].first <= p
  BY PieceFacts
<1>2. ~ FarInclude(t, p) /\ ~ SlashGoesOn(t, p)
  BY DEF Misread
<1>3. "backslash" # "newline" /\ "newline" \notin Quotes /\ "newline" # "slash" /\ "newline" # "hash"
  BY DEF Quotes
<1>4. CASE t[p].first < p
  <2>1. t[p].ch = "newline" /\ t[p].last = p
    BY <1>4, CodeJoined
  <2> QED
    BY <1>3, <2>1
<1>5. CASE t[p].first = p
  <2>1. /\ t[p].ch \notin Quotes
        /\ ~ (t[p].ch = "slash" /\ Is(t, p + 1, "slash"))
        /\ ~ (t[p].ch = "slash" /\ Is(t, p + 1, "star"))
    BY <1>5, Beginning
  <2>2. t[p].ch # "backslash" => t[p].last = p
    BY <1>5, CodeAlone
  <2>3. t[p].ch = "backslash" /\ Whole(t, p, t[p].last) => t[p].last = p + 1
    BY DEF Whole
  <2> QED
    BY <1>2, <1>5, <2>1, <2>2, <2>3 DEF FarInclude, SlashGoesOn
<1> QED
  BY <1>1, <1>4, <1>5

(* A character of a string. *)
LEMMA StringFacts ==
    ASSUME NEW language_, NEW t, CLike(t), ~ Misread(language_, t),
           NEW p \in DOMAIN t, t[p].kind = "string",
           Whole(t, t[p].first, t[p].last)
    PROVE  /\ t[t[p].first].ch \in Quotes
           /\ t[p].last # t[p].first
           /\ p = t[p].last <=> p # t[p].first /\ t[p].ch = t[t[p].first].ch /\ ~ t[p].escaped
           /\ t[p].first < p /\ t[p].ch = "newline" => t[p].escaped
           /\ t[p].ch = "hash" => ~ Includes(t, p)
           /\ p # t[p].last => t[p + 1].escaped = (t[p].ch = "backslash" /\ ~ t[p].escaped)
           /\ p = t[p].first => t[p].escaped = FALSE
<1> DEFINE f == t[p].first
<1>1. /\ p \in Nat /\ f \in Nat /\ t[p].last \in Nat /\ f <= p /\ p <= t[p].last
      /\ \A e \in Nat : Whole(t, f, e) /\ f <= e => t[p].last <= e
  BY PieceFacts
<1>2. f \in DOMAIN t /\ t[f].kind = "string" /\ t[f].first = f
  BY FirstOfPiece
<1>3. t[f].ch \in Quotes
  BY <1>2, Beginning
<1>4. \A e \in Nat : Whole(t, f, e) <=> e > f /\ t[e].ch = t[f].ch /\ ~ t[e].escaped
  BY <1>2 DEF Whole
<1>5. p = t[p].last <=> p # f /\ t[p].ch = t[f].ch /\ ~ t[p].escaped
  <2>1. ASSUME p = t[p].last PROVE p > f /\ t[p].ch = t[f].ch /\ ~ t[p].escaped
    <3>1. Whole(t, f, p)
      BY <2>1
    <3> QED
      BY <1>1, <1>4, <3>1
  <2>2. ASSUME p # f, t[p].ch = t[f].ch, ~ t[p].escaped PROVE p = t[p].last
    <3>1. Whole(t, f, p)
      BY <1>1, <1>4, <2>2
    <3> QED
      BY <1>1, <3>1
  <2> QED
    BY <1>1, <2>1, <2>2
<1>6. t[p].last # f
  BY <1>1, <1>4
<1>7. t[p].first < p /\ t[p].ch = "newline" => t[p].escaped
  BY DEF CLike, Allowed
<1>8. t[p].ch = "hash" => ~ Includes(t, p)
  BY DEF Misread, FarInclude
<1>9. ASSUME p # t[p].last
      PROVE  t[p + 1].escaped = (t[p].ch = "backslash" /\ ~ t[p].escaped)
  <2>1. PICK q \in Nat : q = p + 1
    BY <1>1
  <2>2. q \in DOMAIN t /\ t[q].first = f /\ f < q /\ q - 1 = p
    BY <1>1, <1>9, <2>1, SamePiece
  <2>3. t[q].escaped = Escaped(t, q)
    BY <2>2 DEF CLike
  <2>4. t[q].first < q
    BY <2>2
  <2>5. Escaped(t, q) = (t[p].ch = "backslash" /\ ~ t[p].escaped)
    BY <2>2, <2>4, Zenon DEF Escaped
  <2>6. t[q].escaped = (t[p].ch = "backslash" /\ ~ t[p].escaped)
    BY <2>3, <2>5, Zenon
  <2> QED
    BY <2>1, <2>6, Zenon
<1>10. p = f => t[p].escaped = FALSE
  <2>1. t[p].escaped = Escaped(t, p)
    BY DEF CLike
  <2>2. p = f => ~ (f < p)
    BY <1>1
  <2> QED
    BY <2>1, <2>2 DEF Escaped
<1> QED
  BY <1>3, <1>5, <1>6, <1>7, <1>8, <1>9, <1>10

(* Where a string begins and ends. *)
LEMMA StringEnds ==
    ASSUME NEW t, CLike(t), NEW p \in DOMAIN t, t[p].kind = "string",
           Whole(t, t[p].first, t[p].last)
    PROVE  /\ t[p].last # t[p].first
           /\ p # t[p].first /\ t[p].ch = t[t[p].first].ch /\ t[p].escaped = FALSE => p = t[p].last
<1> DEFINE f == t[p].first
<1>1. /\ p \in Nat /\ f \in Nat /\ t[p].last \in Nat /\ f <= p /\ p <= t[p].last
      /\ \A e \in Nat : Whole(t, f, e) /\ f <= e => t[p].last <= e
  BY PieceFacts
<1>2. f \in DOMAIN t /\ t[f].kind = "string"
  BY FirstOfPiece
<1>3. t[p].last > f
  BY <1>2 DEF Whole
<1>4. t[p].last # t[p].first
  BY <1>1, <1>3
<1>5. SUFFICES ASSUME p # f, t[p].ch = t[f].ch, t[p].escaped = FALSE
               PROVE  p = t[p].last
  BY <1>4, Zenon
<1>6. p > f
  BY <1>1, <1>5
<1>7. Whole(t, f, p)
  BY <1>2, <1>5, <1>6 DEF Whole
<1> QED
  BY <1>1, <1>7

(* A comment or a directive. *)
LEMMA LineFacts ==
    ASSUME NEW t, CLike(t), NEW p \in DOMAIN t, t[p].kind = "line",
           Whole(t, t[p].first, t[p].last)
    PROVE  /\ t[t[p].first].ch = "slash" /\ t[t[p].first + 1].ch = "slash"
           /\ t[p].last \in DOMAIN t /\ t[p].last > t[p].first + 1
           /\ t[t[p].last].ch = "newline" /\ t[t[p].last - 1].ch # "backslash"
           /\ \A e \in Nat : /\ e > t[p].first + 1
                             /\ t[e].ch = "newline" /\ t[e - 1].ch # "backslash"
                             => t[p].last <= e
<1> DEFINE f == t[p].first
<1>1. /\ f \in Nat /\ t[p].last \in Nat
      /\ \A e \in Nat : Whole(t, f, e) /\ f <= e => t[p].last <= e
  BY PieceFacts
<1>2. f \in DOMAIN t /\ t[f].kind = "line" /\ t[f].first = f /\ t[p].last \in DOMAIN t
  BY FirstOfPiece
<1>3. t[f].ch = "slash" /\ t[f + 1].ch = "slash"
  BY <1>2, Beginning DEF Is
<1>4. \A e \in Nat : Whole(t, f, e) <=> e > f + 1 /\ t[e].ch = "newline" /\ t[e - 1].ch # "backslash"
  BY <1>2 DEF Whole
<1>5. \A e \in Nat : e > f + 1 => f <= e
  BY <1>1
<1> QED
  BY <1>1, <1>2, <1>3, <1>4, <1>5

LEMMA BlockFacts ==
    ASSUME NEW language_, NEW t, CLike(t), ~ Misread(language_, t),
           NEW p \in DOMAIN t, t[p].kind = "block",
           Whole(t, t[p].first, t[p].last)
    PROVE  /\ t[t[p].first].ch = "slash" /\ t[t[p].first + 1].ch = "star"
           /\ t[p].last \in DOMAIN t /\ t[p].last > t[p].first + 2
           /\ t[t[p].last].ch = "slash" /\ t[t[p].last - 1].ch = "star"
           /\ \A e \in Nat : e > t[p].first /\ t[e].ch = "star" /\ Is(t, e + 1, "slash")
                             => t[p].last <= e + 1
<1> DEFINE f == t[p].first
<1>1. /\ f \in Nat /\ t[p].last \in Nat
      /\ \A e \in Nat : Whole(t, f, e) /\ f <= e => t[p].last <= e
  BY PieceFacts
<1>2. f \in DOMAIN t /\ t[f].kind = "block" /\ t[f].first = f /\ t[p].last \in DOMAIN t
  BY FirstOfPiece
<1>3. t[f].ch = "slash" /\ t[f + 1].ch = "star"
  BY <1>2, Beginning DEF Is
<1>4. \A e \in Nat : Whole(t, f, e) <=> e > f + 2 /\ t[e].ch = "slash" /\ t[e - 1].ch = "star"
  BY <1>2 DEF Whole
<1>5. ~ Is(t, f + 2, "slash")
  <2>1. ~ EarlyEnd(t, p)
    BY DEF Misread
  <2> QED
    BY <2>1 DEF EarlyEnd
<1>6. ASSUME NEW e \in Nat, e > f, t[e].ch = "star", Is(t, e + 1, "slash")
      PROVE  t[p].last <= e + 1
  <2>1. e # f + 1
    BY <1>1, <1>5, <1>6
  <2>2. e + 1 \in Nat /\ e + 1 > f + 2 /\ f <= e + 1 /\ e + 1 - 1 = e
    BY <1>1, <1>6, <2>1
  <2>3. Whole(t, f, e + 1)
    BY <1>4, <1>6, <2>2 DEF Is
  <2> QED
    BY <1>1, <2>2, <2>3
<1> QED
  BY <1>1, <1>2, <1>3, <1>4, <1>6

LEMMA HeaderFacts ==
    ASSUME NEW t, CLike(t), NEW p \in DOMAIN t, t[p].kind = "header",
           Whole(t, t[p].first, t[p].last)
    PROVE  /\ t[t[p].first].ch = "hash" /\ t[t[p].first].start /\ Includes(t, t[p].first)
           /\ t[p].last \in DOMAIN t /\ t[t[p].last].ch = "newline"
           /\ t[p].last # t[p].first
           /\ \A e \in Nat : t[p].first <= e /\ t[e].ch = "newline" => t[p].last <= e
<1> DEFINE f == t[p].first
<1>1. /\ f \in Nat /\ t[p].last \in Nat
      /\ \A e \in Nat : Whole(t, f, e) /\ f <= e => t[p].last <= e
  BY PieceFacts
<1>2. f \in DOMAIN t /\ t[f].kind = "header" /\ t[f].first = f /\ t[p].last \in DOMAIN t
  BY FirstOfPiece
<1>3. t[f].ch = "hash" /\ t[f].start /\ Includes(t, f)
  BY <1>2, Beginning
<1>4. \A e \in Nat : Whole(t, f, e) <=> t[e].ch = "newline"
  BY <1>2 DEF Whole
<1> QED
  BY <1>1, <1>2, <1>3, <1>4

(* A line begins behind the newline of another, or a blank that begins one. *)
LEMMA StartFacts ==
    ASSUME NEW t, CLike(t), NEW p \in DOMAIN t, p + 1 \in DOMAIN t, t[p + 1].start
    PROVE  /\ t[p].last = p
           /\ t[p].ch = "newline" \/ (t[p].ch = "blank" /\ t[p].start)
           /\ t[p].ch = "newline" => ~ t[p].escaped
<1>1. p \in Nat /\ p + 1 # 1 /\ p + 1 - 1 = p
  BY PieceFacts
<1>2. t[p + 1].start = Start(t, p + 1)
  BY DEF CLike
<1>3. Start(t, p + 1)
  BY <1>2, Zenon
<1> QED
  BY <1>1, <1>3 DEF Start

-----------------------------------------------------------------------------
(***************************************************************************)
(* The inductive invariant.  Until the text ends in what it does not end,  *)
(* the automaton reads the pieces of the text one by one, and what it has  *)
(* kept is sound.  Between the pieces it is in no string, and              *)
(*  - slash is set behind a slash of the code, and behind a line comment;  *)
(*  - where a line begins, C has kept a newline last, but for the first    *)
(*    line; python has where one is in front of it, as CText says;         *)
(*  - a word that was kept last is directly in front, or was cut off by a  *)
(*    string or a comment.                                                 *)
(***************************************************************************)

ClosedAt(p) == OpenAt(text) \in DOMAIN text => p <= OpenAt(text)

LastOf(o) == o[Len(o)]

(* The newline of a line that goes on. *)
Joined(p) == p \in DOMAIN text /\ text[p].first < p

(* Nothing but blanks is in front of p. *)
Leading(p) == \A q \in 1..(p - 1) : text[q].ch = "blank"

(* Python gets no further than to a line comment that does not end. *)
Stuck(p) ==
    p \in DOMAIN text /\ text[p].kind = "line" /\ ~ Whole(text, text[p].first, text[p].last)

(* Where python has a newline in front, it is what was kept last. *)
NewlineKept(o, p) ==
    language = "Python" /\ BehindNewline(text, p) /\ ~ Stuck(p) => LastChar(o) = "newline"

AfterBlank(p) == p > 1 /\ text[p - 1].kind = "code" /\ IsBlank(text[p - 1].ch)

EndsInWord(o) == o # <<>> /\ LastChar(o) \in Letters

(* A string or a comment in front of p begins directly behind the last of o. *)
Cut(o, p) == LastOf(o) + 1 < p /\ text[LastOf(o) + 1].kind \in {"string", "block"}

SlashMeans(o, p) ==
    /\ p > 1
    /\ \/ text[p - 1].kind = "code" /\ text[p - 1].ch = "slash"
       \/ /\ text[p - 1].kind = "line" /\ text[p - 1].last = p - 1
          /\ o # <<>> /\ LastChar(o) \in {"newline", "slash"}

LineMeans(o, p) ==
    /\ language = "C" /\ p \in DOMAIN text /\ text[p].start /\ ~ Leading(p) =>
          LastChar(o) = "newline"
    /\ NewlineKept(o, p)

SpaceMeans(o, p, row) == row > 0 => LastChar(o) = "newline" \/ AfterBlank(p)

WordMeans(o, p, row) == EndsInWord(o) => Cut(o, p) \/ (LastOf(o) = p - 1 /\ row = 0)

Behind(o, p, row) == LineMeans(o, p) /\ SpaceMeans(o, p, row) /\ WordMeans(o, p, row)

(* In code, or at the beginning of a piece, or behind the text. *)
Outside ==
    /\ quote = "none" /\ header = FALSE
    /\ escape <=> Joined(pos)
    /\ slash => SlashMeans(out, pos)
    /\ Behind(out, pos, space)

InString ==
    /\ pos > text[pos].first
    /\ quote = text[text[pos].first].ch /\ header = FALSE
    /\ escape <=> text[pos].escaped
    /\ slash = FALSE
    /\ EndsInWord(out) => Cut(out, pos)
    /\ NewlineKept(out, pos)

(* At the second character of a comment. *)
Begun ==
    /\ pos = text[pos].first + 1
    /\ quote = "none" /\ header = FALSE /\ escape = FALSE /\ slash = TRUE /\ space = 0
    /\ out # <<>> /\ LastOf(out) = pos - 1
    /\ EndsInWord(Shorter(out)) => Cut(Shorter(out), pos - 1) \/ LastOf(Shorter(out)) = pos - 2
    /\ NewlineKept(Shorter(out), pos - 1)

(* At the end of a directive, where C goes on. *)
Ending ==
    /\ language = "C" /\ pos = text[pos].last /\ text[pos].first < pos
    /\ quote = "none" /\ header = TRUE /\ escape = FALSE
    /\ LastChar(out) = "newline"

Synced ==
    IF pos \notin DOMAIN text THEN Outside
    ELSE \/ Outside /\ (text[pos].kind = "code" \/ pos = text[pos].first)
         \/ InString /\ text[pos].kind = "string"
         \/ Begun /\ text[pos].kind \in {"line", "block"}
         \/ Ending /\ text[pos].kind = "header"

(* What is kept of the text in front of p. *)
Found(o, p) ==
    \A w \in DOMAIN text :
        w < p /\ text[w].kind = "code" /\ text[w].ch \in Letters => \E n \in DOMAIN o : o[n] = w

Clean(o) == \A n \in DOMAIN o : text[o[n]].kind = "code" \/ text[o[n]].ch \notin Letters

Apart(o) ==
    \A n \in 1..(Len(o) - 1) :
        text[o[n]].ch \in Letters /\ text[o[n + 1]].ch \in Letters =>
            o[n + 1] = o[n] + 1 \/ text[o[n] + 1].kind \in {"string", "block"}

Sound(o, p) == Found(o, p) /\ Clean(o) /\ Apart(o)

(* Nothing is kept at p, unless it is in the piece that the text does not end. *)
Fine(p) == p < OpenAt(text) => text[p].kind = "code" \/ text[p].ch \notin Letters

IInv ==
    /\ TInv
    /\ text \in Texts[language]
    /\ \A n \in DOMAIN out : Fine(out[n])
    /\ Closed => Sound(out, pos) /\ (pc = "run" => Synced)

(* The invariant in a round. *)
Round ==
    /\ TInv /\ text \in Texts[language]
    /\ pc = "run" /\ Closed
    /\ Sound(out, pos) /\ Synced

(* What the text and its pieces are. *)
LEMMA TextFacts ==
    ASSUME TInv, text \in Texts[language]
    PROVE  /\ CLike(text) /\ ~ Misread(language, text)
           /\ text \in Seq(Character) /\ Len(text) \in Nat /\ DOMAIN text = 1..Len(text)
           /\ language \in {"C", "Python"}
<1>1. language \in Languages
  BY DEF TInv, TypeOK
<1>2. CLike(text) /\ ~ Misread(language, text) /\ language \in {"C", "Python"}
  BY <1>1, StripAssumption
<1>3. text \in Seq(Character)
  BY <1>2 DEF CLike
<1> QED
  BY <1>2, <1>3

(* The next state, by its values. *)
LEMMA NextSound ==
    ASSUME UNCHANGED input, NEW o, o = out', NEW p, p = pos', Sound(o, p)
    PROVE  Sound(out, pos)'
BY DEF input, Sound, Found, Clean, Apart

LEMMA NextClosed ==
    ASSUME UNCHANGED input, NEW p, p = pos', Closed'
    PROVE  ClosedAt(p)
BY DEF input, Closed, ClosedAt

(* The automaton is between the pieces, or in code. *)
LEMMA Arrive ==
    ASSUME UNCHANGED input, NEW o, o = out', NEW p, p = pos', NEW row, row = space',
           Sound(o, p), Behind(o, p, row),
           quote' = "none", header' = FALSE,
           escape' <=> Joined(p), slash' => SlashMeans(o, p),
           p \in DOMAIN text => text[p].kind = "code" \/ text[p].first = p
    PROVE  Sound(out, pos)' /\ Synced'
<1>1. text' = text /\ language' = language
  BY DEF input
<1>2. Behind(out, pos, space)'
  BY <1>1 DEF Behind, LineMeans, SpaceMeans, WordMeans, Leading, Stuck, NewlineKept, AfterBlank,
              IsBlank, EndsInWord, Cut, LastOf, LastChar, Char
<1>3. slash' => SlashMeans(out, pos)'
  BY <1>1 DEF SlashMeans, LastChar, Char
<1>4. escape' <=> Joined(pos)'
  BY <1>1 DEF Joined
<1>5. Outside'
  BY <1>2, <1>3, <1>4 DEF Outside
<1>6. Synced'
  BY <1>1, <1>5 DEF Synced
<1> QED
  BY <1>6, NextSound

(* What is kept is sound further on, behind what is neither code nor a word. *)
LEMMA SoundFurther ==
    ASSUME text \in Seq(Character), NEW o, NEW p \in Nat, NEW q \in Nat, Sound(o, p),
           \A w \in DOMAIN text : p <= w /\ w < q =>
                text[w].kind # "code" \/ text[w].ch \notin Letters
    PROVE  Sound(o, q)
<1>1. \A w \in DOMAIN text : w \in Nat
  OBVIOUS
<1>2. ASSUME NEW w \in DOMAIN text, w < q, text[w].kind = "code", text[w].ch \in Letters
      PROVE  w < p
  BY <1>1, <1>2
<1> QED
  BY <1>2 DEF Sound, Found

(* What is cut off is no word. *)
LEMMA SoundShorter ==
    ASSUME NEW o, Ordered(o), o # <<>>, NEW p, Sound(o, p), text[LastOf(o)].ch \notin Letters
    PROVE  Sound(Shorter(o), p)
<1>1. o \in Seq(DOMAIN text)
  BY DEF Ordered
<1>2. PICK s : s = Shorter(o)
  OBVIOUS
<1>3. /\ Len(o) \in Nat \ {0} /\ DOMAIN o = 1..Len(o)
      /\ Len(s) = Len(o) - 1 /\ DOMAIN s = 1..(Len(o) - 1)
      /\ \A n \in 1..(Len(o) - 1) : s[n] = o[n]
  BY <1>1, <1>2, ShorterIs
<1>4. ASSUME NEW w \in DOMAIN text, w < p, text[w].kind = "code", text[w].ch \in Letters
      PROVE  \E n \in DOMAIN s : s[n] = w
  <2>1. PICK n \in DOMAIN o : o[n] = w
    BY <1>4 DEF Sound, Found
  <2>2. n # Len(o)
    BY <1>4, <2>1 DEF LastOf
  <2>3. n \in DOMAIN s
    BY <1>3, <2>2
  <2> QED
    BY <1>3, <2>1, <2>3
<1>5. Clean(s)
  <2>1. \A n \in DOMAIN s : n \in DOMAIN o /\ s[n] = o[n]
    BY <1>3
  <2> QED
    BY <2>1 DEF Sound, Clean
<1>6. Apart(s)
  <2>1. \A n \in 1..(Len(s) - 1) :
           n \in 1..(Len(o) - 1) /\ s[n] = o[n] /\ s[n + 1] = o[n + 1]
    BY <1>3
  <2> QED
    BY <2>1 DEF Sound, Apart
<1> QED
  BY <1>2, <1>4, <1>5, <1>6 DEF Sound, Found

(* What is kept next is code, and directly behind a word only if it is not apart. *)
LEMMA SoundAppend ==
    ASSUME text \in Seq(Character), NEW o, NEW p \in DOMAIN text, Ordered(o), Below(o, p), Sound(o, p),
           text[p].kind = "code" \/ text[p].ch \notin Letters,
           EndsInWord(o) /\ text[p].ch \in Letters => Cut(o, p) \/ LastOf(o) = p - 1
    PROVE  Sound(Append(o, p), p + 1)
<1>1. o \in Seq(DOMAIN text) /\ p \in Nat /\ DOMAIN text = 1..Len(text)
  BY DEF Ordered
<1>2. PICK a : a = Append(o, p)
  OBVIOUS
<1>3. /\ DOMAIN o = 1..Len(o) /\ Len(o) \in Nat /\ DOMAIN a = 1..(Len(o) + 1)
      /\ Len(a) = Len(o) + 1 /\ a[Len(a)] = p
      /\ \A n \in 1..Len(o) : a[n] = o[n]
  BY <1>2, AppendOrdered
<1>4. \A n \in 1..(Len(o) + 1) : n \in 1..Len(o) \/ n = Len(o) + 1
  BY <1>3
<1>5. ASSUME NEW w \in DOMAIN text, w < p + 1, text[w].kind = "code", text[w].ch \in Letters
      PROVE  \E n \in DOMAIN a : a[n] = w
  <2>1. CASE w = p
    <3>1. Len(a) \in DOMAIN a
      BY <1>3
    <3> QED
      BY <1>3, <2>1, <3>1
  <2>2. CASE w # p
    <3>1. w < p
      BY <1>1, <1>5, <2>2
    <3>2. PICK n \in DOMAIN o : o[n] = w
      BY <1>5, <3>1 DEF Sound, Found
    <3>3. n \in DOMAIN a /\ a[n] = w
      BY <1>3, <3>2
    <3> QED
      BY <3>3
  <2> QED
    BY <2>1, <2>2
<1>6. Clean(a)
  <2>1. \A n \in DOMAIN a : a[n] = p \/ (n \in DOMAIN o /\ a[n] = o[n])
    BY <1>3, <1>4
  <2> QED
    BY <2>1 DEF Sound, Clean
<1>7. ASSUME NEW n \in 1..(Len(a) - 1), text[a[n]].ch \in Letters, text[a[n + 1]].ch \in Letters
      PROVE  a[n + 1] = a[n] + 1 \/ text[a[n] + 1].kind \in {"string", "block"}
  <2>1. n \in 1..Len(o) /\ a[n] = o[n]
    BY <1>3
  <2>2. CASE n = Len(o)
    <3>1. a[n + 1] = p /\ a[n] = LastOf(o) /\ o # <<>>
      BY <1>3, <2>1, <2>2 DEF LastOf
    <3>2. LastOf(o) \in DOMAIN text
      BY <1>1, <1>3, <2>1, <2>2 DEF LastOf
    <3>3. LastChar(o) = text[LastOf(o)].ch
      BY <3>1, <3>2 DEF LastChar, Char, LastOf
    <3>4. Cut(o, p) \/ LastOf(o) = p - 1
      BY <1>7, <3>1, <3>3 DEF EndsInWord
    <3>5. LastOf(o) = p - 1 => p = LastOf(o) + 1
      BY <1>1
    <3> QED
      BY <3>1, <3>4, <3>5 DEF Cut
  <2>3. CASE n # Len(o)
    <3>1. n \in 1..(Len(o) - 1) /\ n + 1 \in 1..Len(o)
      BY <1>3, <2>1, <2>3
    <3>2. a[n + 1] = o[n + 1]
      BY <1>3, <3>1
    <3> QED
      BY <1>7, <2>1, <3>1, <3>2 DEF Sound, Apart
  <2> QED
    BY <2>2, <2>3
<1> QED
  BY <1>2, <1>5, <1>6, <1>7 DEF Sound, Found, Apart

-----------------------------------------------------------------------------
(* What becomes of a character.                                             *)

(* The output o and the blanks in a row, once the character at "at" was looked at. *)
Taken(o, at, skip, new, row) ==
    LET c == text[at].ch IN
    \/ /\ new = Append(o, at)
       /\ row = 0 \/ (IsBlank(c) /\ row = 1)
       /\ skip # TRUE /\ (IsBlank(c) => LastChar(o) # "newline")
    \/ new = o /\ row = 0 /\ LastChar(o) = "newline" /\ (skip # FALSE \/ IsBlank(c))
    \/ new = o /\ row = 2 /\ space # 0 /\ LastChar(o) # "newline" /\ IsBlank(c)

(* Outside of strings and directives, a character is kept but for blanks in a row. *)
LEMMA EmitAt ==
    ASSUME text \in Seq(Character), language \in {"C", "Python"}, space \in 0..2,
           NEW o, NEW at \in DOMAIN text, NEW p, NEW skip, Emit(o, at, p, skip),
           quote' = "none", header' = FALSE,
           skip = FALSE \/ LastChar(o) = "newline"
    PROVE  /\ pos' = p /\ pc' = "run"
           /\ escape' <=> text[at].ch = "backslash" /\ ~ escape
           /\ Taken(o, at, skip, out', space')
<1>1. at \in Nat \ {0}
  OBVIOUS
<1>2. Char(at) = text[at].ch /\ Char(at) # "end"
  <2>1. text[at].ch \in Chars
    <3>1. text[at] \in Character
      OBVIOUS
    <3> QED
      BY <3>1 DEF Character
  <2>2. "end" \notin Chars
    BY DEF Chars, Quotes
  <2> QED
    BY <2>1, <2>2 DEF Char
<1>3. pos' = p /\ pc' = "run" /\ (escape' <=> text[at].ch = "backslash" /\ ~ escape)
  BY <1>2 DEF Emit
<1> DEFINE omit == skip \/ (IsBlank(Char(at)) /\ LastChar(o) = "newline")
           row  == IF IsBlank(Char(at)) /\ ~ omit THEN IF space = 0 THEN 1 ELSE 2 ELSE 0
<1>4. /\ space' = row
      /\ out' = IF omit \/ row = 2 THEN o ELSE Append(o, at)
  BY <1>2 DEF Emit
<1>5. CASE omit
  <2>1. space' = 0 /\ out' = o
    BY <1>4, <1>5
  <2>2. LastChar(o) = "newline" /\ (skip # FALSE \/ IsBlank(text[at].ch))
    BY <1>2, <1>5
  <2> QED
    BY <1>3, <2>1, <2>2 DEF Taken
<1>plain. ~ omit => skip # TRUE
  OBVIOUS
<1>6. CASE ~ omit /\ ~ IsBlank(Char(at))
  <2>1. space' = 0 /\ out' = Append(o, at)
    BY <1>4, <1>6
  <2> QED
    BY <1>plain, <1>2, <1>3, <1>6, <2>1 DEF Taken
<1>7. CASE ~ omit /\ IsBlank(Char(at)) /\ space = 0
  <2>1. space' = 1 /\ out' = Append(o, at)
    BY <1>4, <1>7
  <2> QED
    BY <1>plain, <1>2, <1>3, <1>7, <2>1 DEF Taken
<1>8. CASE ~ omit /\ IsBlank(Char(at)) /\ space # 0
  <2>1. space' = 2 /\ out' = o
    BY <1>4, <1>8
  <2>2. LastChar(o) # "newline"
    BY <1>8
  <2> QED
    BY <1>2, <1>3, <1>8, <2>1, <2>2 DEF Taken
<1> QED
  BY <1>5, <1>6, <1>7, <1>8

(* A line of blanks, and what is in front of a character. *)
LEMMA LaterLine ==
    ASSUME text \in Seq(Character), NEW p \in DOMAIN text
    PROVE  /\ text[p].ch = "blank" /\ Leading(p) => Leading(p + 1)
           /\ BehindNewline(text, p + 1) =>
                 \/ text[p].kind = "code" /\ text[p].ch = "newline" /\ ~ White(text, p - 1)
                 \/ /\ BehindNewline(text, p)
                    /\ text[p].kind = "code" => text[p].ch \in {"blank", "newline"}
                    /\ ~ NextLine(text, p)
<1>1. p \in Nat /\ p >= 1
  OBVIOUS
<1>2. \A q \in 1..(p + 1 - 1) : q \in 1..(p - 1) \/ q = p
  BY <1>1
<1>3. text[p].ch = "blank" /\ Leading(p) => Leading(p + 1)
  BY <1>2 DEF Leading
<1>4. ASSUME BehindNewline(text, p + 1), ~ FirstWhite(text, p)
      PROVE  /\ BehindNewline(text, p)
             /\ text[p].kind = "code" => text[p].ch \in {"blank", "newline"}
             /\ ~ NextLine(text, p)
  <2>1. PICK q \in 1..(p + 1 - 1) :
           /\ FirstWhite(text, q)
           /\ \A r \in (q + 1)..(p + 1 - 1) :
                 (text[r].kind = "code" => White(text, r)) /\ ~ NextLine(text, r)
    BY <1>4 DEF BehindNewline
  <2>2. q \in 1..(p - 1)
    BY <1>2, <1>4, <2>1
  <2>3. p \in (q + 1)..(p + 1 - 1) /\ \A r \in (q + 1)..(p - 1) : r \in (q + 1)..(p + 1 - 1)
    BY <1>1, <2>2
  <2>4. BehindNewline(text, p)
    BY <2>1, <2>2, <2>3 DEF BehindNewline
  <2> QED
    BY <2>1, <2>3, <2>4 DEF White
<1>5. FirstWhite(text, p) =>
         text[p].kind = "code" /\ text[p].ch = "newline" /\ ~ White(text, p - 1)
  BY DEF FirstWhite, White
<1> QED
  BY <1>3, <1>4, <1>5

(* What is not code brings no newline. *)
LEMMA NewlineBefore ==
    ASSUME text \in Seq(Character), NEW p \in Nat \ {0}, NEW q \in Nat, p <= q,
           \A w \in DOMAIN text : p <= w /\ w < q => text[w].kind # "code",
           BehindNewline(text, q)
    PROVE  /\ BehindNewline(text, p)
           /\ \A w \in Nat : p <= w /\ w < q => ~ NextLine(text, w)
<1>1. PICK n \in 1..(q - 1) :
         /\ FirstWhite(text, n)
         /\ \A r \in (n + 1)..(q - 1) :
               (text[r].kind = "code" => White(text, r)) /\ ~ NextLine(text, r)
  BY DEF BehindNewline
<1>2. n < p
  <2>1. n \in DOMAIN text /\ text[n].kind = "code" /\ n \in Nat /\ n < q
    BY <1>1 DEF FirstWhite, White
  <2> QED
    BY <2>1
<1>3. n \in 1..(p - 1) /\ \A r \in (n + 1)..(p - 1) : r \in (n + 1)..(q - 1)
  BY <1>1, <1>2
<1>4. \A w \in Nat : p <= w /\ w < q => w \in (n + 1)..(q - 1)
  BY <1>1, <1>2
<1> QED
  BY <1>1, <1>3, <1>4 DEF BehindNewline

(* What is kept last, once a character was added. *)
LEMMA Added ==
    ASSUME text \in Seq(Character), NEW o, NEW at \in DOMAIN text, Ordered(o), Below(o, at)
    PROVE  /\ LastOf(Append(o, at)) = at
           /\ LastChar(Append(o, at)) = text[at].ch
           /\ Append(o, at) # <<>>
<1>1. Append(o, at) # <<>> /\ Append(o, at)[Len(Append(o, at))] = at
  BY AppendOrdered
<1> QED
  BY <1>1 DEF LastOf, LastChar, Char

(* Behind a character of the code stands what stood in front of it. *)
LEMMA TakenBehind ==
    ASSUME CLike(text), language \in {"C", "Python"}, space \in 0..2,
           NEW o, NEW at \in DOMAIN text, Ordered(o), Below(o, at),
           text[at].kind = "code", Behind(o, at, space),
           NEW skip, skip = FALSE \/ text[at].ch = "newline",
           NEW new, NEW row, Taken(o, at, skip, new, row)
    PROVE  Behind(new, at + 1, row)
<1> DEFINE c == text[at].ch
<1>1. at \in Nat /\ at >= 1 /\ at + 1 - 1 = at /\ text \in Seq(Character)
  BY PieceFacts
<1>2. IsBlank(c) => c = "blank" \/ (language = "Python" /\ c = "newline")
  BY DEF IsBlank
<1>3. "newline" \notin Letters /\ "blank" \notin Letters
  BY DEF Letters
<1>4. BehindNewline(text, at + 1) =>
         \/ c = "newline" /\ ~ White(text, at - 1)
         \/ BehindNewline(text, at) /\ c \in {"blank", "newline"}
  BY <1>1, LaterLine
<1>5. ~ Stuck(at)
  BY DEF Stuck
<1>6. IsBlank(c) => AfterBlank(at + 1)
  BY <1>1 DEF AfterBlank
<1>7. LineMeans(o, at) /\ SpaceMeans(o, at, space) /\ WordMeans(o, at, space)
  BY DEF Behind
<1>8. ASSUME at + 1 \in DOMAIN text, text[at + 1].start, ~ Leading(at + 1), language = "C"
      PROVE  c = "newline" \/ (c = "blank" /\ LastChar(o) = "newline")
  <2>1. c = "newline" \/ (c = "blank" /\ text[at].start)
    BY <1>8, StartFacts
  <2>2. c = "blank" => ~ Leading(at)
    BY <1>1, <1>8, LaterLine
  <2> QED
    BY <1>7, <1>8, <2>1, <2>2 DEF LineMeans
<1>9. CASE /\ new = Append(o, at)
           /\ row = 0 \/ (IsBlank(c) /\ row = 1)
           /\ IsBlank(c) => LastChar(o) # "newline"
  <2>1. LastOf(new) = at /\ LastChar(new) = c
    BY <1>1, <1>9, Added
  <2>2. LineMeans(new, at + 1)
    <3>1. c = "blank" => LastChar(o) # "newline"
      BY <1>9 DEF IsBlank
    <3>2. ASSUME language = "Python", BehindNewline(text, at + 1)
          PROVE  c = "newline"
      <4>1. BehindNewline(text, at) => LastChar(o) = "newline"
        BY <1>5, <1>7, <3>2 DEF LineMeans, NewlineKept
      <4>2. c \in {"blank", "newline"} => LastChar(o) # "newline"
        BY <1>9, <3>2 DEF IsBlank
      <4> QED
        BY <1>4, <3>2, <4>1, <4>2
    <3> QED
      BY <1>8, <2>1, <3>1, <3>2 DEF LineMeans, NewlineKept
  <2>3. SpaceMeans(new, at + 1, row)
    <3>1. row > 0 => IsBlank(c)
      BY <1>9
    <3> QED
      BY <1>6, <2>1, <3>1 DEF SpaceMeans
  <2>4. WordMeans(new, at + 1, row)
    <3>1. c \in Letters => row = 0
      BY <1>2, <1>3, <1>9
    <3> QED
      BY <1>1, <2>1, <3>1 DEF WordMeans, EndsInWord
  <2> QED
    BY <2>2, <2>3, <2>4 DEF Behind
<1>10. CASE new = o /\ row = 0 /\ LastChar(o) = "newline" /\ (skip # FALSE \/ IsBlank(c))
  <2>1. ~ EndsInWord(o)
    BY <1>3, <1>10 DEF EndsInWord
  <2> QED
    BY <1>10, <2>1 DEF Behind, LineMeans, NewlineKept, SpaceMeans, WordMeans
<1>11. CASE new = o /\ row = 2 /\ space # 0 /\ LastChar(o) # "newline" /\ IsBlank(c)
  <2>1. White(text, at - 1)
    <3>1. AfterBlank(at)
      BY <1>7, <1>11 DEF SpaceMeans
    <3>2. at - 1 \in DOMAIN text
      <4>1. at - 1 >= 1 /\ DOMAIN text = 1..Len(text) /\ Len(text) \in Nat
        BY <1>1, <3>1 DEF AfterBlank
      <4> QED
        BY <1>1, <4>1
    <3> QED
      BY <3>1, <3>2 DEF AfterBlank, IsBlank, White
  <2>2. ~ (language = "Python" /\ BehindNewline(text, at + 1))
    BY <1>4, <1>5, <1>7, <1>11, <2>1 DEF LineMeans, NewlineKept
  <2>3. LineMeans(new, at + 1)
    <3>1. language = "C" => c = "blank"
      BY <1>2, <1>11
    <3> QED
      BY <1>8, <1>11, <2>2, <3>1 DEF LineMeans, NewlineKept
  <2>4. SpaceMeans(new, at + 1, row)
    BY <1>6, <1>11 DEF SpaceMeans
  <2>5. WordMeans(new, at + 1, row)
    <3>1. EndsInWord(o) => Cut(o, at)
      BY <1>7, <1>11 DEF WordMeans
    <3>2. ASSUME EndsInWord(o) PROVE Cut(o, at + 1)
      <4>1. LastOf(o) + 1 < at => LastOf(o) + 1 < at + 1
        <5>1. LastOf(o) \in Nat
          <6>1. o \in Seq(DOMAIN text) /\ o # <<>>
            BY <3>2 DEF Ordered, EndsInWord
          <6>2. Len(o) \in DOMAIN o /\ \A n \in DOMAIN o : o[n] \in DOMAIN text
            BY <6>1
          <6>3. \A n \in DOMAIN text : n \in Nat
            BY <1>1
          <6> QED
            BY <6>2, <6>3 DEF LastOf
        <5> QED
          BY <1>1, <5>1
      <4> QED
        BY <3>1, <3>2, <4>1 DEF Cut
    <3> QED
      BY <1>11, <3>2 DEF WordMeans
  <2> QED
    BY <2>3, <2>4, <2>5 DEF Behind
<1> QED
  BY <1>9, <1>10, <1>11 DEF Taken

(* So does what is kept. *)
LEMMA TakenSound ==
    ASSUME text \in Seq(Character), NEW o, NEW at \in DOMAIN text, Ordered(o), Below(o, at),
           text[at].kind = "code" \/ text[at].ch \notin Letters,
           EndsInWord(o) /\ text[at].ch \in Letters => Cut(o, at) \/ LastOf(o) = at - 1,
           Sound(o, at), NEW skip, skip = FALSE \/ text[at].ch = "newline",
           NEW new, NEW row, Taken(o, at, skip, new, row)
    PROVE  Sound(new, at + 1)
<1>1. at \in Nat /\ at + 1 \in Nat
  OBVIOUS
<1>2. CASE new = Append(o, at)
  BY <1>2, SoundAppend
<1>3. CASE new = o /\ (skip # FALSE \/ IsBlank(text[at].ch))
  <2>1. text[at].ch \notin Letters
    BY <1>3 DEF IsBlank, Letters
  <2>2. \A w \in DOMAIN text : at <= w /\ w < at + 1 => w = at
    BY <1>1
  <2> QED
    BY <1>1, <1>3, <2>1, <2>2, SoundFurther
<1> QED
  BY <1>2, <1>3 DEF Taken

-----------------------------------------------------------------------------
(* The rounds in the code.                                                  *)

LEMMA RoundFacts ==
    ASSUME Round
    PROVE  /\ CLike(text) /\ ~ Misread(language, text)
           /\ text \in Seq(Character) /\ Len(text) \in Nat /\ DOMAIN text = 1..Len(text)
           /\ language \in {"C", "Python"}
           /\ pos \in Nat \ {0} /\ pos <= Len(text) + 1
           /\ Ordered(out) /\ Ordered(Shorter(out)) /\ Below(Shorter(out), pos)
           /\ ~ Hangs => Below(out, pos)
           /\ space \in 0..2
           /\ \A n \in DOMAIN out : out[n] \in DOMAIN text /\ out[n] \in Nat
           /\ DOMAIN out = 1..Len(out) /\ Len(out) \in Nat
<1>1. TInv /\ pc = "run" /\ text \in Texts[language]
  BY DEF Round
<1>2. /\ CLike(text) /\ ~ Misread(language, text)
      /\ text \in Seq(Character) /\ Len(text) \in Nat /\ DOMAIN text = 1..Len(text)
      /\ language \in {"C", "Python"}
  BY <1>1, TextFacts
<1>3. /\ pos \in Nat \ {0} /\ pos <= Len(text) + 1
      /\ Ordered(out) /\ Ordered(Shorter(out)) /\ Below(Shorter(out), pos)
      /\ space \in 0..2
  BY <1>1, Types
<1>4. out \in Seq(DOMAIN text)
  BY <1>3 DEF Ordered
<1>5. \A n \in DOMAIN text : n \in Nat
  BY <1>2
<1>6. /\ \A n \in DOMAIN out : out[n] \in DOMAIN text /\ out[n] \in Nat
      /\ DOMAIN out = 1..Len(out) /\ Len(out) \in Nat
  BY <1>4, <1>5
<1> QED
  BY <1>1, <1>2, <1>3, <1>6 DEF TInv

(* The character at hand. *)
LEMMA CharHere ==
    ASSUME Round
    PROVE  /\ pos \in DOMAIN text => Char(pos) = text[pos].ch /\ Char(pos) # "end"
           /\ Char(pos) # "end" => pos \in DOMAIN text
           /\ pos \notin DOMAIN text => Char(pos) = "end" /\ pos = Len(text) + 1
<1>1. /\ text \in Seq(Character) /\ pos \in Nat \ {0} /\ pos <= Len(text) + 1
      /\ Len(text) \in Nat /\ DOMAIN text = 1..Len(text)
  BY RoundFacts
<1>2. /\ Char(pos) # "end" => pos \in DOMAIN text /\ Char(pos) = text[pos].ch
      /\ Char(pos) = "end" => pos \notin DOMAIN text
  BY <1>1, CharInText
<1> QED
  BY <1>1, <1>2

(* A slash of the code begins no comment, and a line comment ends in no such slash. *)
LEMMA SlashFacts ==
    ASSUME CLike(text), ~ Misread(language, text), NEW p \in DOMAIN text, NEW o, SlashMeans(o, p)
    PROVE  /\ text[p].ch \notin {"star", "backslash"}
           /\ text[p].first = p
           /\ text[p].ch = "slash" =>
                 /\ text[p].kind = "line"
                 /\ text[p - 1].kind = "line"
                 /\ o # <<>> /\ LastChar(o) \in {"newline", "slash"}
<1>1. p \in Nat /\ p > 1 /\ p - 1 \in DOMAIN text /\ p - 1 + 1 = p
  <2>1. p \in Nat /\ DOMAIN text = 1..Len(text) /\ Len(text) \in Nat
    BY PieceFacts
  <2>2. p > 1
    BY DEF SlashMeans
  <2> QED
    BY <2>1, <2>2
<1>2. PICK r \in DOMAIN text : r = p - 1 /\ r + 1 = p
  BY <1>1
<1>3. CASE text[r].kind = "code" /\ text[r].ch = "slash"
  <2>1. /\ text[r].last = r
        /\ ~ Is(text, r + 1, "slash") /\ ~ Is(text, r + 1, "star") /\ ~ Is(text, r + 1, "backslash")
    BY <1>3, CodeFacts
  <2>2. text[r + 1].first = r + 1
    BY <1>2, <2>1, NextPiece
  <2> QED
    BY <1>2, <2>1, <2>2 DEF Is
<1>4. CASE /\ text[r].kind = "line" /\ text[r].last = r
           /\ o # <<>> /\ LastChar(o) \in {"newline", "slash"}
  <2>1. ~ BehindLine(text, r)
    BY DEF Misread
  <2>2. text[r + 1].first = r + 1
    BY <1>2, <1>4, NextPiece
  <2>3. /\ text[p].ch \notin {"star", "backslash"}
        /\ text[p].ch = "slash" => text[p].kind = "line"
    BY <1>2, <1>4, <2>1 DEF BehindLine
  <2> QED
    BY <1>2, <1>4, <2>2, <2>3
<1> QED
  BY <1>2, <1>3, <1>4 DEF SlashMeans

LEMMA OutsideInCode ==
    ASSUME Round, pos \in DOMAIN text => text[pos].kind = "code"
    PROVE  Outside
BY DEF Round, Synced

(* What is behind a character of the code. *)
LEMMA AfterCode ==
    ASSUME TInv, text \in Texts[language], NEW at \in DOMAIN text, text[at].kind = "code",
           NEW p \in Nat, p = at + 1, ClosedAt(p)
    PROVE  /\ Joined(p) <=> text[at].ch = "backslash"
           /\ p \in DOMAIN text => text[p].kind = "code" \/ text[p].first = p
<1>1. CLike(text) /\ ~ Misread(language, text) /\ text \in Seq(Character)
  BY TextFacts
<1>2. /\ at \in Nat /\ text[at].first \in Nat /\ text[at].first <= at
      /\ text[at].ch = "backslash" => text[at].first = at
      /\ text[at].ch # "backslash" => text[at].last = at
      /\ text[at].ch = "backslash" /\ Whole(text, at, text[at].last) => text[at].last = at + 1
  BY <1>1, PieceFacts, CodeFacts
<1>3. CASE text[at].ch = "backslash"
  <2>1. OpenAt(text) \in DOMAIN text => text[at].first < OpenAt(text)
    <3>1. \A e \in DOMAIN text : p <= e => at < e
      BY <1>1, <1>2
    <3> QED
      BY <1>2, <1>3, <3>1 DEF ClosedAt
  <2>2. Whole(text, text[at].first, text[at].last)
    BY <1>1, <2>1, WholePiece
  <2>3. text[at].last = at + 1 /\ text[at].last # at
    BY <1>2, <1>3, <2>2
  <2>4. p \in DOMAIN text /\ text[p].kind = "code" /\ text[p].first = at
    BY <1>1, <1>2, <1>3, <2>3, SamePiece
  <2>5. at < p
    BY <1>2
  <2> QED
    BY <1>3, <2>4, <2>5 DEF Joined
<1>4. CASE text[at].ch # "backslash"
  <2>1. p \in DOMAIN text => text[p].first = p
    BY <1>1, <1>2, <1>4, NextPiece
  <2>2. ~ Joined(p)
    <3>1. ~ (p < p)
      OBVIOUS
    <3> QED
      BY <2>1, <3>1 DEF Joined
  <2> QED
    BY <1>4, <2>1, <2>2
<1> QED
  BY <1>3, <1>4

(* A character of the code was read. *)
LEMMA CodeRound ==
    ASSUME Round, Closed', UNCHANGED input, pos \in DOMAIN text, text[pos].kind = "code",
           Below(out, pos), NEW skip, Emit(out, pos, pos + 1, skip),
           skip = FALSE \/ (text[pos].ch = "newline" /\ LastChar(out) = "newline"),
           quote' = "none", header' = FALSE, slash' => text[pos].ch = "slash"
    PROVE  Sound(out, pos)' /\ Synced'
<1>1. /\ CLike(text) /\ ~ Misread(language, text)
      /\ text \in Seq(Character) /\ Len(text) \in Nat /\ DOMAIN text = 1..Len(text)
      /\ language \in {"C", "Python"}
      /\ pos \in Nat \ {0} /\ Ordered(out) /\ space \in 0..2
  BY RoundFacts
<1>2. Outside
  BY OutsideInCode
<1>3. PICK new, row, p : new = out' /\ row = space' /\ p = pos'
  OBVIOUS
<1>4. /\ p = pos + 1
      /\ escape' <=> text[pos].ch = "backslash" /\ ~ escape
      /\ Taken(out, pos, skip, new, row)
  <2>1. /\ pos' = pos + 1
        /\ escape' <=> text[pos].ch = "backslash" /\ ~ escape
        /\ Taken(out, pos, skip, out', space')
    BY <1>1, EmitAt
  <2> QED
    BY <1>3, <2>1
<1>5. Behind(new, p, row)
  <2>1. Behind(out, pos, space)
    BY <1>2 DEF Outside
  <2> QED
    BY <1>1, <1>4, <2>1, TakenBehind
<1>6. Sound(new, p)
  <2>1. Sound(out, pos)
    BY DEF Round
  <2>2. EndsInWord(out) => Cut(out, pos) \/ LastOf(out) = pos - 1
    BY <1>2 DEF Outside, Behind, WordMeans
  <2> QED
    BY <1>1, <1>4, <2>1, <2>2, TakenSound
<1>7. /\ Joined(p) <=> text[pos].ch = "backslash"
      /\ p \in DOMAIN text => text[p].kind = "code" \/ text[p].first = p
  <2>1. ClosedAt(p) /\ p \in Nat
    BY <1>1, <1>3, <1>4, NextClosed
  <2> QED
    BY <1>4, <2>1, AfterCode DEF Round
<1>8. escape' <=> Joined(p)
  <2>1. text[pos].ch = "backslash" => ~ escape
    <3>1. text[pos].ch = "backslash" => ~ (text[pos].first < pos)
      BY <1>1, CodeFacts
    <3> QED
      BY <1>2, <3>1 DEF Outside, Joined
  <2> QED
    BY <1>4, <1>7, <2>1
<1>9. slash' => SlashMeans(new, p)
  <2>1. p > 1 /\ p - 1 = pos
    BY <1>1, <1>4
  <2> QED
    BY <2>1 DEF SlashMeans
<1> QED
  BY <1>3, <1>5, <1>6, <1>7, <1>8, <1>9, Arrive

-----------------------------------------------------------------------------
(* The rounds in a string.                                                  *)

(* What is in a string or a directive leaves the output as it is. *)
LEMMA EmitHidden ==
    ASSUME text \in Seq(Character), NEW o, NEW at \in DOMAIN text, NEW p, NEW skip,
           Emit(o, at, p, skip), quote' # "none" \/ skip = TRUE
    PROVE  /\ pos' = p /\ pc' = "run" /\ out' = o
           /\ escape' <=> text[at].ch = "backslash" /\ ~ escape
           /\ skip = TRUE => space' = 0
<1>1. Char(at) = text[at].ch /\ Char(at) # "end"
  <2>1. text[at].ch \in Chars
    <3>1. text[at] \in Character
      OBVIOUS
    <3> QED
      BY <3>1 DEF Character
  <2>2. "end" \notin Chars
    BY DEF Chars, Quotes
  <2> QED
    BY <2>1, <2>2 DEF Char
<1>2. pos' = p /\ pc' = "run" /\ (escape' <=> text[at].ch = "backslash" /\ ~ escape)
  BY <1>1 DEF Emit
<1>3. out' = o
  BY <1>1 DEF Emit
<1>4. skip = TRUE => space' = 0
  BY DEF Emit
<1> QED
  BY <1>2, <1>3, <1>4

(* What cuts a word off goes on doing so. *)
LEMMA CutFurther ==
    ASSUME text \in Seq(Character), NEW o, Ordered(o), EndsInWord(o), NEW p \in Nat, NEW q \in Nat,
           p <= q
    PROVE  /\ LastOf(o) \in DOMAIN text /\ LastOf(o) \in Nat
           /\ Cut(o, p) => Cut(o, q)
<1>1. o \in Seq(DOMAIN text) /\ o # <<>>
  BY DEF Ordered, EndsInWord
<1>2. Len(o) \in DOMAIN o /\ \A n \in DOMAIN o : o[n] \in DOMAIN text
  BY <1>1
<1>3. \A n \in DOMAIN text : n \in Nat
  OBVIOUS
<1>4. LastOf(o) \in DOMAIN text /\ LastOf(o) \in Nat
  BY <1>2, <1>3 DEF LastOf
<1>5. LastOf(o) + 1 < p => LastOf(o) + 1 < q
  BY <1>4
<1> QED
  BY <1>4, <1>5 DEF Cut

(* The automaton is in a string. *)
LEMMA ArriveInString ==
    ASSUME UNCHANGED input, NEW o, o = out', NEW p, p = pos', Sound(o, p),
           p \in DOMAIN text, text[p].kind = "string", p > text[p].first,
           quote' = text[text[p].first].ch, header' = FALSE,
           escape' <=> text[p].escaped, slash' = FALSE,
           EndsInWord(o) => Cut(o, p), NewlineKept(o, p)
    PROVE  Sound(out, pos)' /\ Synced'
<1>1. text' = text /\ language' = language
  BY DEF input
<1>2. (EndsInWord(out) => Cut(out, pos))' /\ NewlineKept(out, pos)'
  BY <1>1 DEF EndsInWord, Cut, LastOf, LastChar, Char, NewlineKept, Stuck
<1>3. InString'
  BY <1>1, <1>2 DEF InString
<1>4. Synced'
  BY <1>1, <1>3 DEF Synced
<1> QED
  BY <1>4, NextSound

(* A string of the text that was begun is whole. *)
LEMMA BegunIsWhole ==
    ASSUME Round, pos \in DOMAIN text, NEW p \in Nat, ClosedAt(p), text[pos].first < p
    PROVE  Whole(text, text[pos].first, text[pos].last)
<1>1. CLike(text) /\ text[pos].first \in Nat
  BY RoundFacts, PieceFacts
<1>2. \A e \in DOMAIN text : p <= e => text[pos].first < e
  <2>1. DOMAIN text \subseteq Nat
    BY RoundFacts
  <2> QED
    BY <1>1, <2>1
<1> QED
  BY <1>1, <1>2, WholePiece DEF ClosedAt

(* The quote that opens a string. *)
LEMMA OpeningRound ==
    ASSUME Round, Closed', UNCHANGED input, Outside, pos \in DOMAIN text, text[pos].kind = "string",
           pos = text[pos].first, NEW skip, Emit(out, pos, pos + 1, skip),
           quote' = text[pos].ch, header' = FALSE, slash' = FALSE
    PROVE  Sound(out, pos)' /\ Synced'
<1>1. /\ CLike(text) /\ ~ Misread(language, text) /\ text \in Seq(Character)
      /\ pos \in Nat \ {0} /\ pos + 1 \in Nat /\ Ordered(out)
  BY RoundFacts
<1>2. PICK o, p : o = out' /\ p = pos'
  OBVIOUS
<1>3. text[pos].ch \in Quotes /\ quote' # "none" /\ text[pos].ch # "backslash"
  <2>1. text[pos].ch \in Quotes
    BY <1>1, Beginning
  <2> QED
    BY <2>1 DEF Quotes
<1>4. p = pos + 1 /\ o = out /\ (escape' <=> text[pos].ch = "backslash" /\ ~ escape)
  BY <1>1, <1>2, <1>3, EmitHidden
<1>5. Whole(text, text[pos].first, text[pos].last)
  <2>1. ClosedAt(pos + 1)
    BY <1>2, <1>4, NextClosed
  <2>2. text[pos].first < pos + 1
    BY <1>1
  <2> QED
    BY <1>1, <2>1, <2>2, BegunIsWhole
<1>6. pos # text[pos].last
  <2>1. text[pos].last # text[pos].first
    BY <1>1, <1>5, StringEnds
  <2> QED
    BY <2>1
<1>7. p \in DOMAIN text /\ text[p].kind = "string" /\ text[p].first = pos /\ p > pos
  BY <1>1, <1>4, <1>6, SamePiece
<1>8. text[pos + 1].escaped = (text[pos].ch = "backslash" /\ ~ text[pos].escaped)
  BY <1>1, <1>5, <1>6, StringFacts
<1>9. escape' <=> text[p].escaped
  BY <1>3, <1>4, <1>8
<1>10. Sound(o, p)
  <2>1. Sound(out, pos)
    BY DEF Round
  <2>2. \A w \in DOMAIN text : pos <= w /\ w < pos + 1 => text[w].kind # "code"
    BY <1>1
  <2> QED
    BY <1>1, <1>4, <2>1, <2>2, SoundFurther
<1>11. EndsInWord(o) => Cut(o, p)
  <2>1. SUFFICES ASSUME EndsInWord(out)
                 PROVE  Cut(out, pos + 1)
    BY <1>4
  <2>2. Cut(out, pos) \/ LastOf(out) = pos - 1
    BY <2>1 DEF Outside, Behind, WordMeans
  <2>3. Cut(out, pos) => Cut(out, pos + 1)
    BY <1>1, <2>1, CutFurther
  <2>4. LastOf(out) = pos - 1 => LastOf(out) + 1 = pos /\ pos < pos + 1
    BY <1>1
  <2> QED
    BY <2>2, <2>3, <2>4 DEF Cut
<1>12. NewlineKept(o, p)
  <2>1. NewlineKept(out, pos) /\ ~ Stuck(pos)
    BY DEF Outside, Behind, LineMeans, Stuck
  <2>2. BehindNewline(text, pos + 1) => BehindNewline(text, pos)
    BY <1>1, LaterLine
  <2> QED
    BY <1>4, <2>1, <2>2 DEF NewlineKept
<1> QED
  BY <1>2, <1>7, <1>9, <1>10, <1>11, <1>12, ArriveInString

(* A character in a string. *)
LEMMA StringRound ==
    ASSUME Round, Closed', UNCHANGED input, InString, pos \in DOMAIN text,
           text[pos].kind = "string",
           NEW skip, Emit(out, pos, pos + 1, skip),
           text[pos].ch = quote => escape,
           quote' = quote, header' = FALSE, slash' = FALSE
    PROVE  Sound(out, pos)' /\ Synced'
<1>1. /\ CLike(text) /\ ~ Misread(language, text) /\ text \in Seq(Character)
      /\ pos \in Nat \ {0} /\ pos + 1 \in Nat /\ Ordered(out)
      /\ text[pos].first \in Nat /\ text[pos].first < pos
      /\ quote = text[text[pos].first].ch
  BY RoundFacts, PieceFacts DEF InString
<1>2. PICK o, p : o = out' /\ p = pos'
  OBVIOUS
<1>3. Whole(text, text[pos].first, text[pos].last)
  <2>1. ClosedAt(pos)
    BY DEF Round, Closed, ClosedAt
  <2> QED
    BY <1>1, <2>1, BegunIsWhole
<1>4. quote' # "none"
  <2>1. text[text[pos].first].ch \in Quotes
    BY <1>1, <1>3, StringFacts
  <2> QED
    BY <1>1, <2>1 DEF Quotes
<1>5. p = pos + 1 /\ o = out /\ (escape' <=> text[pos].ch = "backslash" /\ ~ escape)
  BY <1>1, <1>2, <1>4, EmitHidden
<1>6. escape <=> text[pos].escaped
  BY DEF InString
<1>7. pos # text[pos].last
  <2>1. pos = text[pos].last => text[pos].ch = quote /\ ~ text[pos].escaped
    BY <1>1, <1>3, StringFacts
  <2> QED
    BY <1>6, <2>1
<1>8. p \in DOMAIN text /\ text[p].kind = "string" /\ text[p].first = text[pos].first
      /\ p > text[pos].first
  BY <1>1, <1>5, <1>7, SamePiece
<1>9. text[pos + 1].escaped = (text[pos].ch = "backslash" /\ ~ text[pos].escaped)
  BY <1>1, <1>3, <1>7, StringFacts
<1>10. escape' <=> text[p].escaped
  BY <1>5, <1>6, <1>9
<1>11. Sound(o, p)
  <2>1. Sound(out, pos)
    BY DEF Round
  <2>2. \A w \in DOMAIN text : pos <= w /\ w < pos + 1 => text[w].kind # "code"
    BY <1>1
  <2> QED
    BY <1>1, <1>5, <2>1, <2>2, SoundFurther
<1>12. EndsInWord(o) => Cut(o, p)
  <2>1. SUFFICES ASSUME EndsInWord(out)
                 PROVE  Cut(out, pos + 1)
    BY <1>5
  <2>2. Cut(out, pos)
    BY <2>1 DEF InString
  <2> QED
    BY <1>1, <2>1, <2>2, CutFurther
<1>13. NewlineKept(o, p)
  <2>1. NewlineKept(out, pos) /\ ~ Stuck(pos)
    BY DEF InString, Stuck
  <2>2. BehindNewline(text, pos + 1) => BehindNewline(text, pos)
    BY <1>1, LaterLine
  <2> QED
    BY <1>5, <2>1, <2>2 DEF NewlineKept
<1> QED
  BY <1>1, <1>2, <1>8, <1>10, <1>11, <1>12, <1>13, ArriveInString

(* The quote that closes a string. *)
LEMMA ClosingRound ==
    ASSUME Round, Closed', UNCHANGED input, InString, pos \in DOMAIN text,
           text[pos].kind = "string",
           Emit(out, pos, pos + 1, TRUE),
           text[pos].ch = quote, ~ escape,
           quote' = "none", header' = FALSE, slash' = FALSE
    PROVE  Sound(out, pos)' /\ Synced'
<1>1. /\ CLike(text) /\ ~ Misread(language, text) /\ text \in Seq(Character)
      /\ pos \in Nat \ {0} /\ pos + 1 \in Nat /\ Ordered(out)
      /\ text[pos].first \in Nat /\ text[pos].first < pos
      /\ quote = text[text[pos].first].ch
  BY RoundFacts, PieceFacts DEF InString
<1>2. PICK o, p, row : o = out' /\ p = pos' /\ row = space'
  OBVIOUS
<1>3. Whole(text, text[pos].first, text[pos].last)
  <2>1. ClosedAt(pos)
    BY DEF Round, Closed, ClosedAt
  <2> QED
    BY <1>1, <2>1, BegunIsWhole
<1>4. p = pos + 1 /\ o = out /\ row = 0 /\ (escape' <=> text[pos].ch = "backslash" /\ ~ escape)
  BY <1>1, <1>2, EmitHidden
<1>5. text[pos].ch \in Quotes /\ text[pos].ch \notin {"backslash", "newline", "blank"}
  <2>1. text[text[pos].first].ch \in Quotes
    BY <1>1, <1>3, StringFacts
  <2> QED
    BY <1>1, <2>1 DEF Quotes
<1>6. pos = text[pos].last
  <2>1. text[pos].escaped = FALSE
    <3>1. text[pos].escaped = Escaped(text, pos)
      BY <1>1 DEF CLike
    <3>2. text[pos].escaped \in BOOLEAN
      BY <3>1 DEF Escaped
    <3> QED
      BY <3>2 DEF InString
  <2>2. pos # text[pos].first
    BY <1>1
  <2> QED
    BY <1>1, <1>3, <2>1, <2>2, StringEnds
<1>7. p \in DOMAIN text => text[p].first = p
  BY <1>1, <1>4, <1>6, NextPiece
<1>8. ~ Joined(p)
  <2>1. ~ (p < p)
    BY <1>1, <1>4
  <2> QED
    BY <1>7, <2>1 DEF Joined
<1>9. ~ escape'
  BY <1>4, <1>5
<1>10. Sound(o, p)
  <2>1. Sound(out, pos)
    BY DEF Round
  <2>2. \A w \in DOMAIN text : pos <= w /\ w < pos + 1 => text[w].kind # "code"
    BY <1>1
  <2> QED
    BY <1>1, <1>4, <2>1, <2>2, SoundFurther
<1>11. Behind(o, p, row)
  <2>1. p \in DOMAIN text => ~ text[p].start
    BY <1>1, <1>4, <1>5, StartFacts
  <2>2. LineMeans(o, p)
    <3>1. NewlineKept(out, pos) /\ ~ Stuck(pos)
      BY DEF InString, Stuck
    <3>2. BehindNewline(text, pos + 1) => BehindNewline(text, pos)
      BY <1>1, LaterLine
    <3> QED
      BY <1>4, <2>1, <3>1, <3>2 DEF LineMeans, NewlineKept
  <2>3. SpaceMeans(o, p, row)
    BY <1>4 DEF SpaceMeans
  <2>4. ASSUME EndsInWord(out) PROVE Cut(out, pos + 1)
    <3>1. Cut(out, pos)
      BY <2>4 DEF InString
    <3> QED
      BY <1>1, <2>4, <3>1, CutFurther
  <2>5. WordMeans(o, p, row)
    BY <1>4, <2>4 DEF WordMeans
  <2> QED
    BY <2>2, <2>3, <2>5 DEF Behind
<1> QED
  BY <1>2, <1>7, <1>8, <1>9, <1>10, <1>11, Arrive
-----------------------------------------------------------------------------
(* Where the automaton is.                                                  *)

(* A piece that the automaton is in the middle of is whole. *)
LEMMA InsideIsWhole ==
    ASSUME Round, pos \in DOMAIN text, text[pos].first < pos
    PROVE  Whole(text, text[pos].first, text[pos].last)
<1>1. ClosedAt(pos)
  BY DEF Round, Closed, ClosedAt
<1>2. pos \in Nat
  BY RoundFacts
<1> QED
  BY <1>1, <1>2, BegunIsWhole

(* The places of the automaton in the pieces, and the characters there. *)
LEMMA Places ==
    ASSUME Round, pos \in DOMAIN text
    PROVE  \/ Outside /\ text[pos].kind = "code" /\ text[pos].ch \notin Quotes
           \/ /\ Outside /\ text[pos].kind = "string" /\ pos = text[pos].first
              /\ text[pos].ch \in Quotes
           \/ /\ Outside /\ text[pos].kind \in {"line", "block"} /\ pos = text[pos].first
              /\ text[pos].ch = "slash"
           \/ /\ Outside /\ text[pos].kind = "header" /\ pos = text[pos].first
              /\ text[pos].ch = "hash"
           \/ InString /\ text[pos].kind = "string"
           \/ Begun /\ text[pos].kind = "line" /\ text[pos].ch = "slash"
           \/ Begun /\ text[pos].kind = "block" /\ text[pos].ch = "star"
           \/ Ending /\ text[pos].kind = "header" /\ text[pos].ch = "newline"
<1>1. /\ CLike(text) /\ ~ Misread(language, text) /\ pos \in Nat
      /\ text[pos].first \in Nat /\ text[pos].first <= pos
  BY RoundFacts, PieceFacts
<1>2. Synced
  BY DEF Round
<1>3. CASE Outside /\ text[pos].kind = "code"
  BY <1>1, <1>3, CodeFacts
<1>4. CASE Outside /\ text[pos].kind # "code" /\ pos = text[pos].first
  <2>1. /\ text[pos].kind \in Kinds
        /\ text[pos].kind = "string" => text[pos].ch \in Quotes
        /\ text[pos].kind = "line" => text[pos].ch = "slash"
        /\ text[pos].kind = "block" => text[pos].ch = "slash"
        /\ text[pos].kind = "header" => text[pos].ch = "hash"
    BY <1>1, <1>4, Beginning
  <2> QED
    BY <1>4, <2>1 DEF Kinds
<1>5. CASE InString /\ text[pos].kind = "string"
  BY <1>5
<1>6. CASE Begun /\ text[pos].kind = "line"
  <2>1. text[text[pos].first + 1].ch = "slash"
    <3>1. pos = text[pos].first + 1 /\ text[pos].first < pos
      BY <1>1, <1>6 DEF Begun
    <3> QED
      BY <1>1, <1>6, <3>1, InsideIsWhole, LineFacts
  <2> QED
    BY <1>6, <2>1 DEF Begun
<1>7. CASE Begun /\ text[pos].kind = "block"
  <2>1. text[text[pos].first + 1].ch = "star"
    <3>1. pos = text[pos].first + 1 /\ text[pos].first < pos
      BY <1>1, <1>7 DEF Begun
    <3> QED
      BY <1>1, <1>7, <3>1, InsideIsWhole, BlockFacts
  <2> QED
    BY <1>7, <2>1 DEF Begun
<1>8. CASE Ending /\ text[pos].kind = "header"
  <2>1. pos = text[pos].last /\ text[pos].first < pos
    BY <1>8 DEF Ending
  <2>2. text[text[pos].last].ch = "newline"
    BY <1>1, <1>8, <2>1, InsideIsWhole, HeaderFacts
  <2> QED
    BY <1>8, <2>1, <2>2
<1> QED
  BY <1>2, <1>3, <1>4, <1>5, <1>6, <1>7, <1>8 DEF Synced

(* The word include behind a #, as the automaton finds it. *)
LEMMA IncludeIs ==
    ASSUME text \in Seq(Character), NEW n \in Nat, pos = n
    PROVE  IsInclude <=> Includes(text, pos)
<1>1. DOMAIN text = 1..Len(text) /\ Len(text) \in Nat
  OBVIOUS
<1>2. \A w \in DOMAIN text : \A b \in (pos + 1)..(w - 1) : b \in DOMAIN text
  BY <1>1
<1>3. \A w \in DOMAIN text : Char(w) = text[w].ch
  BY DEF Char
<1> QED
  BY <1>2, <1>3 DEF IsInclude, Includes

(* Neither the code nor a string has what looks like a directive. *)
LEMMA NoInclude ==
    ASSUME Round, pos \in DOMAIN text, text[pos].ch = "hash", text[pos].kind \in {"code", "string"}
    PROVE  /\ ~ IsInclude
           /\ Char(pos + 1) # "include"
<1>1. text \in Seq(Character) /\ ~ Misread(language, text) /\ pos \in Nat
  BY RoundFacts
<1>2. ~ FarInclude(text, pos)
  BY <1>1 DEF Misread
<1>3. ~ Includes(text, pos)
  BY <1>2 DEF FarInclude
<1>4. ASSUME Char(pos + 1) = "include" PROVE FALSE
  <2>1. PICK w : w = pos + 1
    OBVIOUS
  <2>2. w \in DOMAIN text /\ text[w].ch = "include"
    BY <1>4, <2>1 DEF Char
  <2>3. w > pos /\ (pos + 1)..(w - 1) = {}
    BY <1>1, <2>1
  <2> QED
    BY <1>3, <2>2, <2>3 DEF Includes
<1> QED
  BY <1>1, <1>3, <1>4, IncludeIs

(* In a string, the automaton knows its quote. *)
LEMMA StringQuote ==
    ASSUME Round, InString, pos \in DOMAIN text, text[pos].kind = "string"
    PROVE  /\ quote \in Quotes /\ header = FALSE /\ slash = FALSE
           /\ text[pos].first < pos
           /\ text[pos].ch = "newline" => escape
<1>1. CLike(text) /\ ~ Misread(language, text) /\ pos \in Nat /\ text[pos].first \in Nat
  BY RoundFacts, PieceFacts
<1>2. header = FALSE /\ slash = FALSE /\ text[pos].first < pos
  BY <1>1 DEF InString
<1>3. Whole(text, text[pos].first, text[pos].last)
  BY <1>2, InsideIsWhole
<1>4. quote \in Quotes
  BY <1>1, <1>3, StringFacts DEF InString
<1>5. text[pos].ch = "newline" => escape
  BY <1>1, <1>2, <1>3, StringFacts DEF InString
<1> QED
  BY <1>2, <1>4, <1>5

(* A character of the code or of a string that has no effect. *)
LEMMA KeptRound ==
    ASSUME Round, Closed', UNCHANGED <<input, quote, header>>, pos \in DOMAIN text, Below(out, pos),
           Keep, slash' \in BOOLEAN, slash' => text[pos].ch = "slash" /\ quote = "none",
           \/ Outside /\ text[pos].kind = "code"
           \/ InString /\ text[pos].kind = "string" /\ (text[pos].ch = quote => escape)
    PROVE  Sound(out, pos)' /\ Synced'
<1>1. Emit(out, pos, pos + 1, FALSE)
  BY DEF Keep
<1>2. CASE Outside /\ text[pos].kind = "code"
  <2>1. quote' = "none" /\ header' = FALSE
    BY <1>2 DEF Outside
  <2> QED
    BY <1>1, <1>2, <2>1, CodeRound
<1>3. CASE InString /\ text[pos].kind = "string" /\ (text[pos].ch = quote => escape)
  <2>1. quote' = quote /\ quote # "none" /\ header' = FALSE
    BY <1>3, StringQuote DEF Quotes
  <2>2. slash' = FALSE
    BY <2>1
  <2> QED
    BY <1>1, <1>3, <2>1, <2>2, StringRound
<1> QED
  BY <1>2, <1>3

-----------------------------------------------------------------------------
(* The rounds in a comment.                                                 *)

(* The slash that begins a comment. *)
LEMMA BeginningRound ==
    ASSUME Round, Closed', UNCHANGED input, Outside, pos \in DOMAIN text,
           text[pos].kind \in {"line", "block"}, pos = text[pos].first, text[pos].ch = "slash",
           Below(out, pos), Emit(out, pos, pos + 1, FALSE),
           quote' = "none", header' = FALSE, slash' = TRUE
    PROVE  Sound(out, pos)' /\ Synced'
<1>1. /\ CLike(text) /\ ~ Misread(language, text) /\ text \in Seq(Character)
      /\ language \in {"C", "Python"} /\ space \in 0..2
      /\ pos \in Nat \ {0} /\ pos + 1 \in Nat /\ Ordered(out)
  BY RoundFacts
<1>2. PICK new, row, p : new = out' /\ row = space' /\ p = pos'
  OBVIOUS
<1>3. /\ p = pos + 1
      /\ escape' <=> text[pos].ch = "backslash" /\ ~ escape
      /\ Taken(out, pos, FALSE, new, row)
  BY <1>1, <1>2, EmitAt
<1>4. new = Append(out, pos) /\ row = 0
  <2>1. ~ IsBlank("slash")
    BY DEF IsBlank
  <2> QED
    BY <1>3, <2>1 DEF Taken
<1>5. ~ escape'
  BY <1>3
<1>6. new # <<>> /\ LastOf(new) = pos /\ Shorter(new) = out
  BY <1>1, <1>4, Added, AppendOrdered
<1>7. EndsInWord(out) => Cut(out, pos) \/ LastOf(out) = pos - 1
  BY DEF Outside, Behind, WordMeans
<1>8. Sound(new, p)
  <2>1. Sound(out, pos)
    BY DEF Round
  <2>2. text[pos].ch \notin Letters
    BY DEF Letters
  <2> QED
    BY <1>1, <1>3, <1>4, <2>1, <2>2, SoundAppend
<1>9. Whole(text, pos, text[pos].last)
  <2>1. ClosedAt(p)
    BY <1>2, NextClosed
  <2>2. text[pos].first < p
    BY <1>1, <1>3
  <2> QED
    BY <1>1, <1>3, <2>1, <2>2, BegunIsWhole
<1>10. p \in DOMAIN text /\ text[p].first = pos /\ text[p].kind = text[pos].kind
  <2>1. text[pos].last # pos
    <3>1. CASE text[pos].kind = "line"
      <4>1. text[pos].last > pos + 1
        BY <1>1, <1>9, <3>1, LineFacts
      <4> QED
        BY <1>1, <4>1
    <3>2. CASE text[pos].kind = "block"
      <4>1. text[pos].last > pos + 2
        BY <1>1, <1>9, <3>2, BlockFacts
      <4> QED
        BY <1>1, <4>1
    <3> QED
      BY <3>1, <3>2
  <2> QED
    BY <1>1, <1>3, <2>1, SamePiece
<1>11. text' = text
  BY DEF input
<1>12. p - 1 = pos /\ p - 2 = pos - 1
  BY <1>1, <1>3
<1>13. (/\ pos = text[pos].first + 1
        /\ out # <<>> /\ LastOf(out) = pos - 1)'
  BY <1>2, <1>3, <1>6, <1>10, <1>11, <1>12 DEF LastOf
<1>14. (EndsInWord(Shorter(out)) => Cut(Shorter(out), pos - 1) \/ LastOf(Shorter(out)) = pos - 2)'
  <2>1. EndsInWord(Shorter(new)) => Cut(Shorter(new), p - 1) \/ LastOf(Shorter(new)) = p - 2
    BY <1>6, <1>7, <1>12
  <2> QED
    BY <1>2, <1>11, <2>1 DEF EndsInWord, Cut, LastOf, LastChar, Char, Shorter
<1>15. Begun'
  <2>1. NewlineKept(Shorter(new), p - 1)
    BY <1>6, <1>12 DEF Outside, Behind, LineMeans
  <2>2. language' = language
    BY DEF input
  <2>3. NewlineKept(Shorter(out), pos - 1)'
    BY <1>2, <1>11, <2>1, <2>2 DEF NewlineKept, Stuck, LastChar, Char, Shorter
  <2> QED
    BY <1>2, <1>4, <1>5, <1>13, <1>14, <2>3 DEF Begun
<1>16. Synced'
  BY <1>2, <1>10, <1>11, <1>15 DEF Synced
<1> QED
  BY <1>2, <1>8, <1>16, NextSound

(* A line comment ends where the automaton finds its end. *)
LEMMA CommentEndIs ==
    ASSUME Round, pos \in DOMAIN text, text[pos].kind = "line", text[pos].ch = "slash",
           pos = text[pos].first \/ pos = text[pos].first + 1,
           Whole(text, text[pos].first, text[pos].last)
    PROVE  CommentEnd = {text[pos].last}
<1> DEFINE f == text[pos].first
           l == text[pos].last
           S == IF language = "C" THEN {e \in Newlines(pos + 2) : Char(e - 1) # "backslash"}
                ELSE Newlines(pos)
<1>1. /\ CLike(text) /\ ~ Misread(language, text) /\ text \in Seq(Character)
      /\ Len(text) \in Nat /\ DOMAIN text = 1..Len(text)
      /\ language \in {"C", "Python"} /\ pos \in Nat \ {0}
  BY RoundFacts
<1>2. /\ f \in Nat \ {0} /\ l \in Nat /\ l <= Len(text)
      /\ \A q \in f..l : text[q].kind = "line" /\ text[q].last = l
  BY <1>1, PieceFacts
<1>3. /\ text[f].ch = "slash" /\ text[f + 1].ch = "slash"
      /\ l \in DOMAIN text /\ l > f + 1
      /\ text[l].ch = "newline" /\ text[l - 1].ch # "backslash"
      /\ \A e \in Nat : e > f + 1 /\ text[e].ch = "newline" /\ text[e - 1].ch # "backslash"
                        => l <= e
  BY <1>1, LineFacts
<1>4. l - 1 \in DOMAIN text
  BY <1>1, <1>2, <1>3
<1>5. \A e \in DOMAIN text : Char(e) = text[e].ch
  BY DEF Char
<1>6. l \in S
  <2>1. CASE language = "C"
    <3>1. l >= pos + 2
      <4>1. ~ EmptyLine(text, pos)
        BY <1>1, <2>1 DEF Misread
      <4>2. l # f + 2
        BY <1>3, <4>1 DEF EmptyLine
      <4> QED
        BY <1>1, <1>2, <1>3, <4>2
    <3> QED
      BY <1>3, <1>4, <1>5, <2>1, <3>1 DEF Newlines
  <2>2. CASE language # "C"
    <3>1. l >= pos
      BY <1>1, <1>2, <1>3
    <3> QED
      BY <1>3, <1>5, <2>2, <3>1 DEF Newlines
  <2> QED
    BY <2>1, <2>2
<1>7. ASSUME NEW e \in S
      PROVE  l <= e
  <2>1. e \in DOMAIN text /\ e \in Nat /\ text[e].ch = "newline"
    BY <1>1, <1>5, <1>7 DEF Newlines
  <2>2. CASE language = "C"
    <3>1. e >= pos + 2 /\ Char(e - 1) # "backslash"
      BY <1>7, <2>2 DEF Newlines
    <3>2. e > f + 1 /\ e - 1 \in DOMAIN text
      BY <1>1, <1>2, <2>1, <3>1
    <3> QED
      BY <1>3, <1>5, <2>1, <3>1, <3>2
  <2>3. CASE language # "C"
    <3>1. e >= pos
      BY <1>7, <2>3 DEF Newlines
    <3>2. SUFFICES ASSUME e < l
                   PROVE  FALSE
      BY <1>2, <2>1
    <3>3. e \in f..l
      BY <1>1, <1>2, <2>1, <3>1, <3>2
    <3>4. ~ LineGoesOn(text, e)
      BY <1>1, <2>1, <2>3 DEF Misread
    <3> QED
      BY <1>2, <2>1, <3>2, <3>3, <3>4 DEF LineGoesOn
  <2> QED
    BY <2>2, <2>3
<1>8. S \subseteq Nat
  BY <1>1 DEF Newlines
<1> HIDE DEF S
<1>9. First(S) = {l}
  <2>1. \A e \in First(S) : e = l
    BY <1>2, <1>6, <1>7, <1>8 DEF First
  <2>2. l \in First(S)
    BY <1>6, <1>7 DEF First
  <2> QED
    BY <2>1, <2>2
<1> QED
  BY <1>9 DEF CommentEnd, S

(* What the slash in front is replaced with. *)
LEMMA Replaced ==
    ASSUME text \in Seq(Character), NEW n \in Nat, NEW o, NEW at \in DOMAIN text, n <= at,
           Ordered(o), Below(o, n), Sound(o, n),
           \A w \in DOMAIN text : n <= w /\ w < at => text[w].kind # "code",
           text[at].ch \in {"newline", "slash"}, ~ IsBlank(text[at].ch),
           NEW skip, NEW new, NEW row, Taken(o, at, skip, new, row)
    PROVE  /\ row = 0 /\ new # <<>>
           /\ LastChar(new) \in {"newline", "slash"}
           /\ text[at].ch = "newline" => LastChar(new) = "newline"
           /\ Sound(new, at + 1)
<1>1. at \in Nat /\ at + 1 \in Nat
  OBVIOUS
<1>2. Below(o, at)
  <2>1. o \in Seq(DOMAIN text)
    BY DEF Ordered
  <2>2. \A k \in DOMAIN o : o[k] \in Nat
    <3>1. \A k \in DOMAIN o : o[k] \in DOMAIN text
      BY <2>1
    <3>2. \A w \in DOMAIN text : w \in Nat
      OBVIOUS
    <3> QED
      BY <3>1, <3>2
  <2> QED
    BY <1>1, <2>2 DEF Below
<1>3. Sound(o, at)
  BY <1>1, SoundFurther
<1>4. text[at].ch \notin Letters
  BY DEF Letters
<1>5. CASE new = Append(o, at) /\ row = 0
  <2>1. Sound(new, at + 1)
    BY <1>2, <1>3, <1>4, <1>5, SoundAppend
  <2>2. LastChar(new) = text[at].ch /\ new # <<>>
    BY <1>2, <1>5, Added
  <2> QED
    BY <1>5, <2>1, <2>2
<1>6. CASE new = o /\ row = 0 /\ LastChar(o) = "newline"
  <2>1. Sound(new, at + 1)
    <3>1. \A w \in DOMAIN text : at <= w /\ w < at + 1 => w = at
      BY <1>1
    <3> QED
      BY <1>1, <1>3, <1>4, <1>6, <3>1, SoundFurther
  <2>2. new # <<>>
    BY <1>6 DEF LastChar
  <2> QED
    BY <1>6, <2>1, <2>2
<1> QED
  BY <1>5, <1>6 DEF Taken

(* A slash behind a slash is in front of a line comment, or begins it. *)
LEMMA OpensAtLine ==
    ASSUME Round, Opens, Char(pos) = "slash"
    PROVE  /\ pos \in DOMAIN text /\ text[pos].kind = "line" /\ text[pos].ch = "slash"
           /\ \/ pos = text[pos].first + 1
              \/ pos = text[pos].first /\ pos > 1 /\ text[pos - 1].kind = "line"
           /\ out # <<>> /\ LastChar(out) \in {"newline", "slash"}
           /\ quote = "none" /\ header = FALSE /\ ~ escape
           /\ pos = text[pos].first \/ Begun
<1>1. /\ CLike(text) /\ ~ Misread(language, text) /\ pos \in Nat \ {0}
      /\ \A n \in DOMAIN out : out[n] \in DOMAIN text /\ out[n] \in Nat
      /\ DOMAIN out = 1..Len(out) /\ Len(out) \in Nat
  BY RoundFacts
<1>2. quote = "none" /\ slash = TRUE
  <2>1. slash \in BOOLEAN
    BY Types DEF Round
  <2> QED
    BY <2>1 DEF Opens
<1>3. pos \in DOMAIN text /\ text[pos].ch = "slash"
  BY CharHere
<1>4. CASE Outside
  <2>1. SlashMeans(out, pos)
    BY <1>2, <1>4 DEF Outside
  <2>2. /\ text[pos].first = pos /\ text[pos].kind = "line" /\ text[pos - 1].kind = "line"
        /\ out # <<>> /\ LastChar(out) \in {"newline", "slash"}
    BY <1>1, <1>3, <2>1, SlashFacts
  <2>3. pos > 1
    BY <2>1 DEF SlashMeans
  <2>4. ~ escape
    <3>1. ~ (text[pos].first < pos)
      BY <1>1, <2>2
    <3> QED
      BY <1>4, <3>1 DEF Outside, Joined
  <2>5. header = FALSE
    BY <1>4 DEF Outside
  <2> QED
    BY <1>2, <1>3, <2>2, <2>3, <2>4, <2>5
<1>5. CASE Begun /\ text[pos].kind = "line"
  <2>1. /\ pos = text[pos].first + 1 /\ out # <<>> /\ LastOf(out) = pos - 1
    BY <1>5 DEF Begun
  <2>2. header = FALSE /\ ~ escape
    BY <1>5 DEF Begun
  <2>3. LastChar(out) = "slash"
    <3>1. text[pos].first \in DOMAIN text /\ text[text[pos].first].ch = "slash"
      <4>1. text[pos].first < pos
        BY <1>1, <1>3, <2>1, PieceFacts
      <4>2. Whole(text, text[pos].first, text[pos].last)
        BY <1>3, <4>1, InsideIsWhole
      <4> QED
        BY <1>1, <1>3, <1>5, <4>2, LineFacts, FirstOfPiece
    <3>2. LastOf(out) = text[pos].first
      <4>1. text[pos].first \in Nat
        BY <1>1, <1>3, PieceFacts
      <4> QED
        BY <2>1, <4>1
    <3> QED
      BY <2>1, <3>1, <3>2 DEF LastChar, LastOf, Char
  <2> QED
    BY <1>2, <1>3, <1>5, <2>1, <2>2, <2>3
<1>6. Outside \/ (Begun /\ text[pos].kind = "line")
  <2>1. ~ InString
    BY <1>2 DEF InString
  <2> QED
    BY <1>3, <2>1, Places
<1> QED
  BY <1>4, <1>5, <1>6

(* The output without the slash, or the end of the comment before, in front. *)
LEMMA TakenBack ==
    ASSUME Round, Opens, Char(pos) = "slash"
    PROVE  /\ Ordered(Shorter(out)) /\ Below(Shorter(out), pos)
           /\ Sound(Shorter(out), pos)
<1>1. Ordered(out) /\ Ordered(Shorter(out)) /\ Below(Shorter(out), pos)
      /\ \A n \in DOMAIN out : out[n] \in DOMAIN text
      /\ DOMAIN out = 1..Len(out) /\ Len(out) \in Nat
  BY RoundFacts
<1>2. out # <<>> /\ LastChar(out) \in {"newline", "slash"}
  BY OpensAtLine
<1>3. text[LastOf(out)].ch = LastChar(out)
  <2>1. out[Len(out)] \in DOMAIN text
    <3>1. Len(out) # 0
      <4>1. out \in Seq(DOMAIN text)
        BY <1>1 DEF Ordered
      <4> QED
        BY <1>2, <4>1
    <3>2. Len(out) \in 1..Len(out)
      BY <1>1, <3>1
    <3> QED
      BY <1>1, <3>2
  <2> QED
    BY <1>2, <2>1 DEF LastOf, LastChar, Char
<1>4. Sound(out, pos)
  BY DEF Round
<1>5. Sound(Shorter(out), pos)
  <2>1. text[LastOf(out)].ch \notin Letters
    BY <1>2, <1>3 DEF Letters
  <2> QED
    BY <1>1, <1>2, <1>4, <2>1, SoundShorter
<1> QED
  BY <1>1, <1>5

(* Behind a line comment the automaton is at the beginning of a piece. *)
LEMMA LineRound ==
    ASSUME Round, Closed', LineComment
    PROVE  Sound(out, pos)' /\ Synced'
<1> DEFINE l == text[pos].last
           o == Shorter(out)
           at == IF language = "C" THEN l ELSE pos
<1>1. /\ CLike(text) /\ ~ Misread(language, text) /\ text \in Seq(Character)
      /\ Len(text) \in Nat /\ DOMAIN text = 1..Len(text)
      /\ language \in {"C", "Python"} /\ space \in 0..2 /\ pos \in Nat \ {0}
  BY RoundFacts
<1>2. Opens /\ Char(pos) = "slash" /\ UNCHANGED <<input, quote, slash, header>>
  BY DEF LineComment, Running
<1>3. /\ pos \in DOMAIN text /\ text[pos].kind = "line" /\ text[pos].ch = "slash"
      /\ \/ pos = text[pos].first + 1 /\ Begun
         \/ pos = text[pos].first /\ text[pos - 1].kind = "line"
      /\ quote = "none" /\ header = FALSE
  BY <1>2, OpensAtLine
<1>4. Ordered(o) /\ Below(o, pos) /\ Sound(o, pos)
  BY <1>2, TakenBack
<1>5. PICK e \in CommentEnd :
         Emit(o, IF language = "C" THEN e ELSE pos, e + 1, LastChar(o) = "newline")
  BY DEF LineComment
<1>6. PICK new, row, p, skip : /\ new = out' /\ row = space' /\ p = pos'
                               /\ skip = (LastChar(o) = "newline")
  OBVIOUS
<1>7. p = e + 1 /\ e \in DOMAIN text /\ e >= pos
  <2>1. e \in DOMAIN text /\ e >= pos
    BY <1>1, <1>5 DEF CommentEnd, First, Newlines
  <2> QED
    BY <1>5, <1>6, <2>1 DEF Emit
<1>8. /\ text[pos].first \in Nat /\ l \in Nat /\ text[pos].first <= pos /\ pos <= l
      /\ \A q \in text[pos].first..l : text[q].kind = "line"
  BY <1>1, <1>3, PieceFacts
<1>9. Whole(text, text[pos].first, l)
  <2>1. ClosedAt(p) /\ p \in Nat /\ text[pos].first < p
    BY <1>1, <1>2, <1>6, <1>7, <1>8, NextClosed
  <2> QED
    BY <1>1, <1>3, <2>1, BegunIsWhole
<1>10. e = l
  BY <1>3, <1>5, <1>9, CommentEndIs
<1>11. l \in DOMAIN text /\ text[l].ch = "newline" /\ text[l].kind = "line" /\ text[l].last = l
  BY <1>1, <1>3, <1>9, LineFacts, FirstOfPiece
<1>12. /\ at \in DOMAIN text /\ pos <= at /\ at <= l
       /\ text[at].ch \in {"newline", "slash"} /\ ~ IsBlank(text[at].ch)
       /\ language = "C" => text[at].ch = "newline"
  BY <1>1, <1>3, <1>8, <1>11 DEF IsBlank
<1>13. Emit(o, at, p, skip)
  BY <1>5, <1>6, <1>7, <1>10
<1>kept. language = "Python" /\ BehindNewline(text, p) => LastChar(o) = "newline"
  <2>1. SUFFICES ASSUME language = "Python", BehindNewline(text, p)
                 PROVE  LastChar(o) = "newline"
    OBVIOUS
  <2>2. p \in Nat /\ l < p /\ pos < p /\ \A w \in DOMAIN text : w < p => w <= l
    BY <1>1, <1>7, <1>8, <1>10
  <2>3. text[pos].first \in Nat \ {0} /\ text[pos].first \in DOMAIN text
    <3>1. text[pos].first \in DOMAIN text
      BY <1>1, <1>3, FirstOfPiece
    <3> QED
      BY <1>1, <3>1
  <2>4. /\ BehindNewline(text, text[pos].first)
        /\ \A w \in Nat : text[pos].first <= w /\ w < p => ~ NextLine(text, w)
    <3>1. \A w \in DOMAIN text : text[pos].first <= w /\ w < p => text[w].kind # "code"
      BY <1>1, <1>8, <2>2
    <3>2. text[pos].first <= p
      BY <1>1, <1>8, <2>2
    <3> QED
      BY <1>1, <2>1, <2>2, <2>3, <3>1, <3>2, NewlineBefore
  <2>5. pos = text[pos].first + 1 /\ Begun
    <3>1. ~ NextLine(text, pos)
      BY <1>1, <1>8, <2>2, <2>4
    <3> QED
      BY <1>3, <3>1 DEF NextLine
  <2>6. pos - 1 = text[pos].first
    BY <2>3, <2>5
  <2>7. ~ Stuck(text[pos].first)
    <3>1. text[text[pos].first].first = text[pos].first /\ text[text[pos].first].last = l
      BY <1>1, <1>3, FirstOfPiece
    <3> QED
      BY <1>9, <3>1 DEF Stuck
  <2> QED
    BY <2>1, <2>4, <2>5, <2>6, <2>7 DEF Begun, NewlineKept
<1> HIDE DEF at, o
<1>14. skip = FALSE \/ LastChar(o) = "newline"
  BY <1>6, Zenon
<1>15. /\ escape' <=> text[at].ch = "backslash" /\ ~ escape
       /\ Taken(o, at, skip, new, row)
  <2>1. quote' = "none" /\ header' = FALSE
    BY <1>2, <1>3
  <2>2. /\ escape' <=> text[at].ch = "backslash" /\ ~ escape
        /\ Taken(o, at, skip, out', space')
    BY <1>1, <1>12, <1>13, <1>14, <2>1, EmitAt
  <2> QED
    BY <1>6, <2>2
<1>16. ~ escape'
  BY <1>12, <1>15
<1>17. /\ row = 0 /\ new # <<>> /\ LastChar(new) \in {"newline", "slash"}
       /\ language = "C" => LastChar(new) = "newline"
       /\ Sound(new, at + 1)
  <2>1. \A w \in DOMAIN text : pos <= w /\ w < at => text[w].kind # "code"
    BY <1>1, <1>8, <1>12
  <2> QED
    BY <1>1, <1>4, <1>12, <1>15, <2>1, Replaced
<1>18. Sound(new, p)
  <2>1. at + 1 \in Nat /\ p \in Nat
    BY <1>1, <1>7, <1>12
  <2>2. \A w \in DOMAIN text : at + 1 <= w /\ w < p => text[w].kind # "code"
    BY <1>1, <1>7, <1>8, <1>10, <1>12
  <2> QED
    BY <1>1, <1>17, <2>1, <2>2, SoundFurther
<1>19. p > 1 /\ p - 1 = l /\ l \in 1..(p - 1)
  BY <1>1, <1>7, <1>8, <1>10
<1>20. Behind(new, p, row)
  <2>1. LastChar(o) = "newline" => LastChar(new) = "newline"
    <3>1. LastChar(o) = "newline" => skip = TRUE
      BY <1>6 DEF o
    <3> QED
      BY <1>4, <1>12, <1>15, <3>1 DEF Taken
  <2>2. LineMeans(new, p)
    BY <1>kept, <1>17, <2>1 DEF LineMeans, NewlineKept
  <2>3. SpaceMeans(new, p, row)
    BY <1>17 DEF SpaceMeans
  <2>4. WordMeans(new, p, row)
    <3>1. ~ EndsInWord(new)
      BY <1>17 DEF EndsInWord, Letters
    <3> QED
      BY <3>1 DEF WordMeans
  <2> QED
    BY <2>2, <2>3, <2>4 DEF Behind
<1>21. SlashMeans(new, p)
  BY <1>11, <1>17, <1>19 DEF SlashMeans
<1>22. p \in DOMAIN text => text[p].first = p
  BY <1>1, <1>7, <1>10, <1>11, NextPiece
<1>23. ~ Joined(p)
  <2>1. ~ (p < p)
    BY <1>1, <1>7
  <2> QED
    BY <1>22, <2>1 DEF Joined
<1> QED
  BY <1>2, <1>3, <1>6, <1>16, <1>18, <1>20, <1>21, <1>22, <1>23, Arrive

(* What is kept is sound further in front. *)
LEMMA SoundBefore ==
    ASSUME text \in Seq(Character), NEW o, NEW p \in Nat, NEW q \in Nat, p <= q, Sound(o, q)
    PROVE  Sound(o, p)
<1>1. \A w \in DOMAIN text : w \in Nat
  OBVIOUS
<1>2. \A w \in DOMAIN text : w < p => w < q
  BY <1>1
<1> QED
  BY <1>2 DEF Sound, Found

(* Where a line comment has no end, python comes back in front of it. *)
LEMMA OpenLineRound ==
    ASSUME Round, Closed', OpenComment
    PROVE  Sound(out, pos)' /\ Synced'
<1> DEFINE o == Shorter(out)
<1>1. /\ CLike(text) /\ ~ Misread(language, text) /\ text \in Seq(Character)
      /\ Len(text) \in Nat /\ DOMAIN text = 1..Len(text)
      /\ language \in {"C", "Python"} /\ space \in 0..2 /\ pos \in Nat \ {0}
  BY RoundFacts
<1>2. /\ Opens /\ Char(pos) = "slash" /\ UNCHANGED <<input, quote, slash, header>>
      /\ CommentEnd = {} /\ slash
  BY DEF OpenComment, Running, Opens
<1>3. /\ pos \in DOMAIN text /\ text[pos].kind = "line" /\ text[pos].ch = "slash"
      /\ \/ pos = text[pos].first + 1
         \/ pos = text[pos].first /\ pos > 1 /\ text[pos - 1].kind = "line"
      /\ quote = "none" /\ header = FALSE
  BY <1>2, OpensAtLine
<1>4. Ordered(o) /\ Below(o, pos) /\ Sound(o, pos)
  BY <1>2, TakenBack
<1>5. ~ Whole(text, text[pos].first, text[pos].last)
  BY <1>2, <1>3, CommentEndIs
<1>6. text[pos].first \in Nat
  BY <1>1, <1>3, PieceFacts
<1>7. pos = text[pos].first /\ pos > 1 /\ text[pos - 1].kind = "line"
  <2>1. ~ (text[pos].first < pos)
    BY <1>3, <1>5, InsideIsWhole
  <2> QED
    BY <1>1, <1>3, <1>6, <2>1
<1>8. PICK new, row, p, skip : /\ new = out' /\ row = space' /\ p = pos'
                               /\ skip = (LastChar(o) = "newline")
  OBVIOUS
<1>9. language # "C"
  <2>1. SUFFICES ASSUME language = "C"
                 PROVE  FALSE
    OBVIOUS
  <2>2. p = pos + 1
    BY <1>8, <2>1 DEF OpenComment, Emit
  <2>3. ClosedAt(p) /\ p \in Nat /\ text[pos].first < p
    BY <1>1, <1>2, <1>6, <1>7, <1>8, <2>2, NextClosed
  <2> QED
    BY <1>1, <1>3, <1>5, <2>3, BegunIsWhole
<1>10. Emit(o, pos, pos, skip)
  BY <1>8, <1>9 DEF OpenComment
<1> HIDE DEF o
<1>11. skip = FALSE \/ LastChar(o) = "newline"
  BY <1>8, Zenon
<1>12. /\ p = pos
       /\ escape' <=> text[pos].ch = "backslash" /\ ~ escape
       /\ Taken(o, pos, skip, new, row)
  <2>1. quote' = "none" /\ header' = FALSE
    BY <1>2, <1>3
  <2>2. /\ pos' = pos
        /\ escape' <=> text[pos].ch = "backslash" /\ ~ escape
        /\ Taken(o, pos, skip, out', space')
    BY <1>1, <1>3, <1>10, <1>11, <2>1, EmitAt
  <2> QED
    BY <1>8, <2>2
<1>13. ~ escape'
  BY <1>3, <1>12
<1>14. /\ row = 0 /\ new # <<>> /\ LastChar(new) \in {"newline", "slash"}
       /\ Sound(new, pos + 1)
  <2>1. \A w \in DOMAIN text : pos <= w /\ w < pos => text[w].kind # "code"
    BY <1>1
  <2>2. ~ IsBlank(text[pos].ch)
    BY <1>3 DEF IsBlank
  <2> QED
    BY <1>1, <1>3, <1>4, <1>12, <2>1, <2>2, Replaced
<1>15. Sound(new, p)
  <2>1. pos + 1 \in Nat /\ pos <= pos + 1
    BY <1>1
  <2> QED
    BY <1>1, <1>12, <1>14, <2>1, SoundBefore
<1>16. p > 1 /\ p - 1 \in 1..(p - 1) /\ p - 1 \in DOMAIN text
  BY <1>1, <1>3, <1>7, <1>12
<1>17. Behind(new, p, row)
  <2>1. Stuck(p)
    BY <1>3, <1>5, <1>12 DEF Stuck
  <2>2. LineMeans(new, p)
    BY <1>9, <2>1 DEF LineMeans, NewlineKept
  <2>3. SpaceMeans(new, p, row)
    BY <1>14 DEF SpaceMeans
  <2>4. WordMeans(new, p, row)
    <3>1. ~ EndsInWord(new)
      BY <1>14 DEF EndsInWord, Letters
    <3> QED
      BY <3>1 DEF WordMeans
  <2> QED
    BY <2>2, <2>3, <2>4 DEF Behind
<1>18. SlashMeans(new, p)
  <2>1. text[p - 1].last = p - 1
    <3>1. SlashMeans(out, pos)
      <4>1. Outside
        <5>1. ~ Begun
          <6>1. pos # text[pos].first + 1
            BY <1>1, <1>7
          <6> QED
            BY <6>1 DEF Begun
        <5>2. ~ InString
          BY <1>3, <1>7, Places DEF InString, Quotes
        <5> QED
          BY <1>3, <5>1, <5>2, Places
      <4> QED
        BY <1>2, <4>1 DEF Outside
    <3>2. text[pos - 1].kind = "line" /\ text[pos - 1].last = pos - 1
      BY <1>7, <3>1 DEF SlashMeans
    <3> QED
      BY <1>12, <3>2
  <2> QED
    BY <1>7, <1>12, <1>14, <1>16, <2>1 DEF SlashMeans
<1>19. ~ Joined(p)
  <2>1. ~ (p < p)
    BY <1>1, <1>12
  <2> QED
    BY <1>7, <1>12, <2>1 DEF Joined
<1>20. p \in DOMAIN text => text[p].first = p
  BY <1>7, <1>12
<1> QED
  BY <1>2, <1>3, <1>8, <1>13, <1>15, <1>17, <1>18, <1>19, <1>20, Arrive

(* A block comment ends where the automaton finds its end. *)
LEMMA BlockEndIs ==
    ASSUME Round, pos \in DOMAIN text, text[pos].kind = "block", pos = text[pos].first + 1,
           Whole(text, text[pos].first, text[pos].last)
    PROVE  BlockEnd = {text[pos].last - 1}
<1> DEFINE f == text[pos].first
           l == text[pos].last
           S == {e \in DOMAIN text : e >= pos /\ Char(e) = "star" /\ Char(e + 1) = "slash"}
<1>1. /\ CLike(text) /\ ~ Misread(language, text)
      /\ Len(text) \in Nat /\ DOMAIN text = 1..Len(text)
  BY RoundFacts
<1>2. f \in Nat \ {0} /\ l \in Nat /\ l <= Len(text)
  BY <1>1, PieceFacts
<1>3. /\ l > f + 2 /\ text[l].ch = "slash" /\ text[l - 1].ch = "star" /\ l \in DOMAIN text
      /\ \A e \in Nat : e > f /\ text[e].ch = "star" /\ Is(text, e + 1, "slash") => l <= e + 1
  BY <1>1, BlockFacts
<1>4. PICK k \in Nat : k = l - 1 /\ k + 1 = l
  BY <1>2, <1>3
<1>5. k \in DOMAIN text /\ k >= pos
  BY <1>1, <1>2, <1>3, <1>4
<1>6. k \in S
  BY <1>3, <1>4, <1>5 DEF Char
<1>7. ASSUME NEW e \in S
      PROVE  k <= e
  <2>1. e \in Nat /\ e > f /\ e \in DOMAIN text
    BY <1>1, <1>2, <1>7
  <2>2. text[e].ch = "star" /\ Is(text, e + 1, "slash")
    BY <1>7 DEF Char, Is
  <2> QED
    BY <1>2, <1>3, <1>4, <2>1, <2>2
<1>8. S \subseteq Nat
  BY <1>1
<1> HIDE DEF S
<1>9. First(S) = {k}
  <2>1. \A e \in First(S) : e = k
    BY <1>6, <1>7, <1>8 DEF First
  <2>2. k \in First(S)
    BY <1>6, <1>7 DEF First
  <2> QED
    BY <2>1, <2>2
<1> QED
  BY <1>4, <1>9 DEF BlockEnd, S

(* A star behind a slash begins a block comment. *)
LEMMA OpensAtBlock ==
    ASSUME Round, Opens, Char(pos) = "star"
    PROVE  /\ pos \in DOMAIN text /\ text[pos].kind = "block" /\ Begun
           /\ pos = text[pos].first + 1 /\ text[pos].first < pos
           /\ text[text[pos].first].ch = "slash"
           /\ Whole(text, text[pos].first, text[pos].last)
<1>1. CLike(text) /\ ~ Misread(language, text) /\ pos \in Nat \ {0}
  BY RoundFacts
<1>2. pos \in DOMAIN text /\ text[pos].ch = "star"
  BY CharHere
<1>3. ~ Outside
  <2>1. Outside => SlashMeans(out, pos)
    BY DEF Outside, Opens
  <2> QED
    BY <1>1, <1>2, <2>1, SlashFacts
<1>4. ~ InString
  BY DEF InString, Opens
<1>5. Begun /\ text[pos].kind = "block"
  BY <1>2, <1>3, <1>4, Places
<1>6. pos = text[pos].first + 1 /\ text[pos].first < pos
  <2>1. text[pos].first \in Nat
    BY <1>1, <1>2, PieceFacts
  <2> QED
    BY <1>5, <2>1 DEF Begun
<1>7. Whole(text, text[pos].first, text[pos].last)
  BY <1>2, <1>6, InsideIsWhole
<1> QED
  BY <1>1, <1>2, <1>5, <1>6, <1>7, BlockFacts

(* Directly behind a block comment is code that begins no line. *)
LEMMA AfterBlock ==
    ASSUME CLike(text), ~ Misread(language, text), NEW l \in DOMAIN text, text[l].kind = "block",
           text[l].last = l, text[l].ch = "slash", l + 1 \in DOMAIN text
    PROVE  /\ text[l + 1].kind = "code" /\ text[l + 1].first = l + 1
           /\ ~ text[l + 1].start
<1>1. text[l + 1].first = l + 1
  BY NextPiece
<1>2. ~ text[l + 1].start
  BY StartFacts
<1>3. text[l + 1].ch \notin Quotes \cup {"slash"}
  <2>1. ~ BehindBlock(text, l)
    BY DEF Misread
  <2> QED
    BY <2>1 DEF BehindBlock
<1>4. text[l + 1].kind = "code"
  <2>1. /\ text[l + 1].kind \in Kinds
        /\ text[l + 1].kind = "string" => text[l + 1].ch \in Quotes
        /\ text[l + 1].kind \in {"line", "block"} => text[l + 1].ch = "slash"
    BY <1>1, Beginning
  <2>2. text[l + 1].kind # "header"
    BY <1>1, <1>2, Beginning
  <2> QED
    BY <1>3, <2>1, <2>2 DEF Kinds
<1> QED
  BY <1>1, <1>2, <1>4

(* What is kept at the second character of a comment, without the first one. *)
LEMMA BegunTakenBack ==
    ASSUME Round, pos \in DOMAIN text, Begun, text[text[pos].first].ch = "slash"
    PROVE  /\ Ordered(Shorter(out)) /\ Below(Shorter(out), pos)
           /\ Sound(Shorter(out), pos)
<1>1. Ordered(out) /\ Ordered(Shorter(out)) /\ Below(Shorter(out), pos)
  BY RoundFacts
<1>2. text[pos].first \in Nat
  BY RoundFacts, PieceFacts
<1>3. out # <<>> /\ LastOf(out) = text[pos].first
  BY <1>2 DEF Begun
<1>4. text[LastOf(out)].ch \notin Letters
  BY <1>3 DEF Letters
<1>5. Sound(out, pos)
  BY DEF Round
<1> QED
  BY <1>1, <1>3, <1>4, <1>5, SoundShorter

(* Behind a block comment one character is kept, and the code goes on. *)
LEMMA BlockRound ==
    ASSUME Round, Closed', BlockComment
    PROVE  Sound(out, pos)' /\ (pc' = "run" => Synced')
<1> DEFINE l == text[pos].last
           o == Shorter(out)
<1>1. /\ CLike(text) /\ ~ Misread(language, text) /\ text \in Seq(Character)
      /\ Len(text) \in Nat /\ DOMAIN text = 1..Len(text)
      /\ language \in {"C", "Python"} /\ space \in 0..2 /\ pos \in Nat \ {0}
  BY RoundFacts
<1>2. Opens /\ Char(pos) = "star" /\ UNCHANGED <<input, quote, header>> /\ slash' = FALSE
  BY DEF BlockComment, Running
<1>3. /\ pos \in DOMAIN text /\ text[pos].kind = "block" /\ Begun
      /\ pos = text[pos].first + 1 /\ text[pos].first < pos
      /\ text[text[pos].first].ch = "slash"
      /\ Whole(text, text[pos].first, l)
  BY <1>2, OpensAtBlock
<1>4. /\ quote = "none" /\ header = FALSE /\ ~ escape /\ space = 0
      /\ EndsInWord(o) => Cut(o, pos - 1) \/ LastOf(o) = pos - 2
  BY <1>3 DEF Begun
<1>5. Ordered(o) /\ Below(o, pos) /\ Sound(o, pos)
  BY <1>3, BegunTakenBack
<1>6. PICK at \in Nat : at = l + 1 /\ at - 1 = l
  BY <1>1, <1>3, PieceFacts
<1>7. Emit(o, at, at + 1, Char(at) = "newline" /\ LastChar(o) = "newline")
  <2>1. PICK e \in BlockEnd :
           Emit(o, e + 2, e + 3, Char(e + 2) = "newline" /\ LastChar(o) = "newline")
    BY DEF BlockComment
  <2>2. e = l - 1
    BY <1>3, <2>1, BlockEndIs
  <2>3. e + 2 = at /\ e + 3 = at + 1
    BY <1>6, <2>2
  <2> QED
    BY <2>1, <2>3
<1>8. /\ text[pos].first \in Nat /\ l \in Nat /\ pos <= l
      /\ \A q \in text[pos].first..l : text[q].kind = "block"
  BY <1>1, <1>3, PieceFacts
<1>9. /\ l \in DOMAIN text /\ text[l].ch = "slash" /\ text[l].kind = "block" /\ text[l].last = l
      /\ l > text[pos].first + 2
  <2>1. l \in DOMAIN text /\ text[l].ch = "slash" /\ l > text[pos].first + 2
    BY <1>1, <1>3, BlockFacts
  <2>2. text[l].kind = "block" /\ text[l].last = l
    BY <1>1, <1>3, FirstOfPiece
  <2> QED
    BY <2>1, <2>2
<1>10. PICK new, row, p, skip : /\ new = out' /\ row = space' /\ p = pos'
                                /\ skip = (Char(at) = "newline" /\ LastChar(o) = "newline")
  OBVIOUS
<1>11. Emit(o, at, p, skip) /\ p = at + 1
  BY <1>7, <1>10 DEF Emit
<1> HIDE DEF o
<1>12. Sound(o, at) /\ Below(o, at)
  <2>1. \A w \in DOMAIN text : pos <= w /\ w < at => text[w].kind # "code"
    BY <1>1, <1>3, <1>6, <1>8
  <2>2. Sound(o, at)
    BY <1>1, <1>5, <2>1, SoundFurther
  <2>3. \A n \in DOMAIN o : o[n] \in Nat
    <3>1. o \in Seq(DOMAIN text)
      BY <1>5 DEF Ordered
    <3>2. \A n \in DOMAIN o : o[n] \in DOMAIN text
      BY <3>1
    <3> QED
      BY <1>1, <3>2
  <2>4. Below(o, at)
    BY <1>1, <1>5, <1>6, <1>8, <2>3 DEF Below
  <2> QED
    BY <2>2, <2>4
<1>13. CASE at \notin DOMAIN text
  <2>1. Char(at) = "end"
    BY <1>13 DEF Char
  <2>2. pc' = "done"
    BY <1>11, <1>13 DEF Emit
  <2>3. new = o
    BY <1>2, <1>4, <1>10, <1>11, <2>1 DEF Emit
  <2>4. Sound(new, p)
    <3>1. p \in Nat /\ \A w \in DOMAIN text : at <= w /\ w < p => w = at
      BY <1>1, <1>6, <1>11
    <3> QED
      BY <1>1, <1>12, <1>13, <2>3, <3>1, SoundFurther
  <2> QED
    BY <1>2, <1>10, <2>2, <2>4, NextSound
<1>14. CASE at \in DOMAIN text
  <2>1. text[at].kind = "code" /\ text[at].first = at /\ ~ text[at].start
    BY <1>1, <1>6, <1>9, <1>14, AfterBlock
  <2>2. skip = FALSE \/ (Char(at) = "newline" /\ LastChar(o) = "newline")
    BY <1>10, Zenon
  <2>3. skip = FALSE \/ (text[at].ch = "newline" /\ LastChar(o) = "newline")
    BY <1>14, <2>2 DEF Char
  <2>4. /\ escape' <=> text[at].ch = "backslash" /\ ~ escape
        /\ Taken(o, at, skip, new, row)
    <3>1. quote' = "none" /\ header' = FALSE
      BY <1>2, <1>4
    <3>2. /\ escape' <=> text[at].ch = "backslash" /\ ~ escape
          /\ Taken(o, at, skip, out', space')
      BY <1>1, <1>11, <1>14, <2>3, <3>1, EmitAt
    <3> QED
      BY <1>10, <3>2
  <2>5. EndsInWord(o) => Cut(o, at)
    <3>1. SUFFICES ASSUME EndsInWord(o)
                   PROVE  Cut(o, at)
      OBVIOUS
    <3>2. pos - 1 = text[pos].first /\ pos - 1 \in Nat /\ pos - 1 <= at
      BY <1>1, <1>3, <1>6, <1>8
    <3>3. Cut(o, pos - 1) => Cut(o, at)
      BY <1>1, <1>5, <3>1, <3>2, CutFurther
    <3>4. ASSUME LastOf(o) = pos - 2 PROVE Cut(o, at)
      <4>1. LastOf(o) + 1 = text[pos].first /\ text[pos].first < at
        BY <1>1, <1>3, <1>6, <1>8, <3>4
      <4>2. text[text[pos].first].kind = "block"
        BY <1>1, <1>3, FirstOfPiece
      <4> QED
        BY <4>1, <4>2 DEF Cut
    <3> QED
      BY <1>4, <3>1, <3>3, <3>4 DEF o
  <2>6. Behind(o, at, space)
    <3>1. LineMeans(o, at)
      <4>1. NewlineKept(o, pos - 1) /\ pos - 1 \in Nat \ {0} /\ pos - 1 \in DOMAIN text
        <5>1. NewlineKept(o, pos - 1)
          BY <1>3 DEF Begun, o
        <5>2. text[pos].first \in DOMAIN text /\ text[pos].first \in Nat \ {0}
          BY <1>1, <1>3, PieceFacts, FirstOfPiece
        <5>3. pos - 1 = text[pos].first
          BY <1>3, <5>2
        <5> QED
          BY <5>1, <5>2, <5>3
      <4>2. ~ Stuck(pos - 1) /\ \A w \in DOMAIN text : pos - 1 <= w /\ w < at => text[w].kind # "code"
        <5>1. pos - 1 = text[pos].first
          BY <1>3, <1>8
        <5>2. \A w \in DOMAIN text : pos - 1 <= w /\ w < at => text[w].kind = "block"
          BY <1>1, <1>6, <1>8, <5>1
        <5>3. pos - 1 < at
          BY <1>1, <1>6, <1>8
        <5>4. text[pos - 1].kind = "block"
          BY <4>1, <5>2, <5>3
        <5> QED
          BY <5>2, <5>4 DEF Stuck
      <4>3. BehindNewline(text, at) => BehindNewline(text, pos - 1)
        <5>1. pos - 1 <= at
          BY <1>1, <1>6, <1>8
        <5> QED
          BY <1>1, <1>6, <4>1, <4>2, <5>1, NewlineBefore
      <4> QED
        BY <2>1, <4>1, <4>2, <4>3 DEF LineMeans, NewlineKept
    <3>2. SpaceMeans(o, at, space)
      BY <1>4 DEF SpaceMeans
    <3>3. WordMeans(o, at, space)
      BY <2>5 DEF WordMeans
    <3> QED
      BY <3>1, <3>2, <3>3 DEF Behind
  <2>7. Behind(new, p, row)
    BY <1>1, <1>5, <1>11, <1>12, <1>14, <2>1, <2>3, <2>4, <2>6, TakenBehind
  <2>8. Sound(new, p)
    BY <1>1, <1>5, <1>11, <1>12, <1>14, <2>1, <2>3, <2>4, <2>5, TakenSound
  <2>9. /\ Joined(p) <=> text[at].ch = "backslash"
        /\ p \in DOMAIN text => text[p].kind = "code" \/ text[p].first = p
    <3>1. ClosedAt(p) /\ p \in Nat
      BY <1>2, <1>6, <1>10, <1>11, NextClosed
    <3> QED
      BY <1>11, <1>14, <2>1, <3>1, AfterCode DEF Round
  <2>10. escape' <=> Joined(p)
    BY <1>4, <2>4, <2>9
  <2> QED
    BY <1>2, <1>4, <1>10, <2>7, <2>8, <2>9, <2>10, Arrive
<1> QED
  BY <1>13, <1>14

(* A block comment that is read has an end. *)
LEMMA NoOpenBlock ==
    ASSUME Round, OpenBlock
    PROVE  FALSE
<1>1. Opens /\ Char(pos) = "star" /\ BlockEnd = {}
  BY DEF OpenBlock, Running
<1> QED
  BY <1>1, OpensAtBlock, BlockEndIs

-----------------------------------------------------------------------------
(* The rounds in a directive.                                               *)

(* A directive is found at its #, but for those that are known not to be. *)
LEMMA HeaderHere ==
    ASSUME Round, Outside, pos \in DOMAIN text, text[pos].kind = "header",
           pos = text[pos].first, Whole(text, pos, text[pos].last)
    PROVE  /\ IsInclude /\ Newlines(pos) # {}
           /\ LastChar(out) = "newline"
           /\ First(Newlines(pos)) = {text[pos].last}
           /\ text[pos].last # pos
<1> DEFINE l == text[pos].last
<1>1. /\ CLike(text) /\ ~ Misread(language, text) /\ text \in Seq(Character)
      /\ Len(text) \in Nat /\ DOMAIN text = 1..Len(text)
      /\ language \in {"C", "Python"} /\ pos \in Nat \ {0}
  BY RoundFacts
<1>2. /\ text[pos].start /\ Includes(text, pos)
      /\ l \in DOMAIN text /\ text[l].ch = "newline" /\ l # pos
      /\ \A e \in Nat : pos <= e /\ text[e].ch = "newline" => l <= e
  BY <1>1, HeaderFacts
<1>3. l \in Nat /\ pos <= l
  BY <1>1, PieceFacts
<1>4. l \in Newlines(pos)
  BY <1>2, <1>3 DEF Newlines, Char
<1>5. \A e \in Newlines(pos) : l <= e /\ e \in Nat
  BY <1>1, <1>2 DEF Newlines, Char
<1>6. First(Newlines(pos)) = {l}
  <2>1. \A e \in First(Newlines(pos)) : e = l
    BY <1>3, <1>4, <1>5 DEF First
  <2>2. l \in First(Newlines(pos))
    BY <1>4, <1>5 DEF First
  <2> QED
    BY <2>1, <2>2
<1>7. ~ Leading(pos)
  <2>1. ~ FirstHeader(text, pos)
    BY <1>1 DEF Misread
  <2> QED
    BY <2>1 DEF FirstHeader, Leading
<1>8. language = "Python" => BehindNewline(text, pos) /\ ~ Stuck(pos)
  <2>1. language = "Python" => ~ LateHeader(text, pos)
    BY <1>1 DEF Misread
  <2> QED
    BY <2>1 DEF LateHeader, Stuck
<1>9. LastChar(out) = "newline"
  BY <1>1, <1>2, <1>7, <1>8 DEF Outside, Behind, LineMeans, NewlineKept
<1> QED
  BY <1>1, <1>2, <1>4, <1>6, <1>9, IncludeIs

(* A # is in the code or in a string, or begins a directive. *)
LEMMA HashPlaces ==
    ASSUME Round, Char(pos) = "hash"
    PROVE  /\ pos \in DOMAIN text /\ text[pos].ch = "hash"
           /\ \/ Outside /\ text[pos].kind = "code" /\ ~ IsInclude /\ Char(pos + 1) # "include"
              \/ InString /\ text[pos].kind = "string" /\ ~ IsInclude /\ Char(pos + 1) # "include"
              \/ Outside /\ text[pos].kind = "header" /\ pos = text[pos].first
<1>1. pos \in DOMAIN text /\ text[pos].ch = "hash"
  BY CharHere
<1>2. \/ Outside /\ text[pos].kind = "code"
      \/ InString /\ text[pos].kind = "string"
      \/ Outside /\ text[pos].kind = "header" /\ pos = text[pos].first
  BY <1>1, Places DEF Quotes
<1>3. text[pos].kind \in {"code", "string"} => ~ IsInclude /\ Char(pos + 1) # "include"
  BY <1>1, NoInclude
<1> QED
  BY <1>1, <1>2, <1>3

(* A directive that is passed is whole. *)
LEMMA PassedIsWhole ==
    ASSUME Round, Closed', UNCHANGED input, pos \in DOMAIN text, pos = text[pos].first,
           pos' \in Nat, pos < pos'
    PROVE  Whole(text, pos, text[pos].last)
<1>1. PICK p : p = pos'
  OBVIOUS
<1>2. ClosedAt(p) /\ p \in Nat /\ text[pos].first < p
  BY <1>1, NextClosed
<1> QED
  BY <1>2, BegunIsWhole

(* A directive is left out: C goes on with its newline, python behind it. *)
LEMMA IncludeRound ==
    ASSUME Round, Closed', Include
    PROVE  Sound(out, pos)' /\ Synced'
<1> DEFINE l == text[pos].last
<1>1. /\ CLike(text) /\ text \in Seq(Character)
      /\ Len(text) \in Nat /\ DOMAIN text = 1..Len(text)
      /\ language \in {"C", "Python"} /\ pos \in Nat \ {0}
  BY RoundFacts
<1>2. /\ Char(pos) = "hash" /\ IsInclude /\ LastChar(out) = "newline"
      /\ header' = (language = "C")
      /\ UNCHANGED <<input, out, quote, escape, space, pc>>
  BY DEF Include, Directive, AtLineStart, Running
<1>3. /\ pos \in DOMAIN text /\ text[pos].ch = "hash"
      /\ Outside /\ text[pos].kind = "header" /\ pos = text[pos].first
  BY <1>2, HashPlaces
<1>4. PICK e \in First(Newlines(pos)) : pos' = IF language = "C" THEN e ELSE e + 1
  BY DEF Include
<1>5. e \in DOMAIN text /\ pos < e
  <2>1. e \in DOMAIN text /\ e >= pos /\ Char(e) = "newline"
    BY <1>4 DEF First, Newlines
  <2> QED
    BY <1>1, <1>2, <2>1
<1>6. PICK p : p = pos'
  OBVIOUS
<1>7. p = IF language = "C" THEN e ELSE e + 1
  BY <1>4, <1>6
<1>8. p \in Nat /\ pos < p
  BY <1>1, <1>5, <1>7
<1>9. Whole(text, pos, l)
  BY <1>2, <1>3, <1>6, <1>8, PassedIsWhole
<1>10. e = l
  BY <1>3, <1>4, <1>9, HeaderHere
<1>11. /\ l \in Nat /\ pos <= l
       /\ \A q \in pos..l : text[q].kind = "header"
       /\ text[l].kind = "header" /\ text[l].first = pos /\ text[l].last = l /\ l \in DOMAIN text
  <2>1. /\ l \in Nat /\ pos <= l /\ \A q \in pos..l : text[q].kind = "header"
    BY <1>1, <1>3, PieceFacts
  <2>2. text[l].kind = "header" /\ text[l].first = pos /\ text[l].last = l /\ l \in DOMAIN text
    BY <1>1, <1>3, FirstOfPiece
  <2> QED
    BY <2>1, <2>2
<1>12. Sound(out, p)
  <2>1. Sound(out, pos)
    BY DEF Round
  <2>2. \A w \in DOMAIN text : pos <= w /\ w < p => text[w].kind # "code"
    BY <1>1, <1>7, <1>10, <1>11
  <2> QED
    BY <1>1, <1>8, <2>1, <2>2, SoundFurther
<1>13. ~ escape /\ quote = "none"
  <2>1. ~ (text[pos].first < pos)
    BY <1>1, <1>3
  <2> QED
    BY <1>3, <2>1 DEF Outside, Joined
<1>14. CASE language = "C"
  <2>1. p = l /\ pos < l
    BY <1>5, <1>7, <1>10, <1>14
  <2>2. (language = "C" /\ pos = text[pos].last /\ text[pos].first < pos)'
    BY <1>2, <1>6, <1>11, <1>14, <2>1 DEF input
  <2>3. quote' = "none" /\ header' = TRUE
    BY <1>2, <1>13, <1>14
  <2>4. escape' = FALSE
    <3>1. escape \in BOOLEAN
      BY Types DEF Round
    <3> QED
      BY <1>2, <1>13, <3>1
  <2>5. (LastChar(out) = "newline")'
    BY <1>2 DEF LastChar, Char, input
  <2>6. Ending'
    BY <2>2, <2>3, <2>4, <2>5 DEF Ending
  <2>7. Synced'
    BY <1>2, <1>6, <1>11, <2>1, <2>6 DEF Synced, input
  <2> QED
    BY <1>2, <1>6, <1>12, <2>7, NextSound
<1>15. CASE language # "C"
  <2>1. p = l + 1
    BY <1>7, <1>10, <1>15
  <2>2. p \in DOMAIN text => text[p].first = p
    BY <1>1, <1>11, <2>1, NextPiece
  <2>3. ~ Joined(p)
    <3>1. ~ (p < p)
      BY <1>8
    <3> QED
      BY <2>2, <3>1 DEF Joined
  <2>4. PICK row : row = space'
    OBVIOUS
  <2>5. Behind(out, p, row)
    <3>1. ~ EndsInWord(out)
      BY <1>2 DEF EndsInWord, Letters
    <3> QED
      BY <1>2, <3>1 DEF Behind, LineMeans, NewlineKept, SpaceMeans, WordMeans
  <2>6. quote' = "none" /\ header' = FALSE
    BY <1>2, <1>13, <1>15
  <2>7. ~ slash' /\ ~ escape'
    <3>1. ~ slash'
      BY <1>15 DEF Include
    <3> QED
      BY <1>2, <1>13, <3>1
  <2>8. PICK o : o = out' /\ o = out
    BY <1>2
  <2> QED
    BY <1>2, <1>6, <1>12, <2>2, <2>3, <2>4, <2>5, <2>6, <2>7, <2>8, Arrive
<1> QED
  BY <1>14, <1>15

(* A # that does not begin a directive. *)
LEMMA HashRound ==
    ASSUME Round, Closed', Hash
    PROVE  Sound(out, pos)' /\ Synced'
<1>1. /\ Char(pos) = "hash" /\ ~ Directive /\ slash' = FALSE
      /\ UNCHANGED <<input, quote, header>> /\ Emit(out, pos, pos + 1, FALSE)
      /\ pc = "run"
  BY DEF Hash, Running, Keep
<1>2. Below(out, pos)
  BY <1>1, RoundFacts DEF Hangs
<1>3. pos \in DOMAIN text /\ text[pos].ch = "hash"
  BY <1>1, HashPlaces
<1>4. CASE Outside /\ text[pos].kind = "code"
  BY <1>1, <1>2, <1>3, <1>4, KeptRound DEF Keep
<1>5. CASE InString /\ text[pos].kind = "string"
  <2>1. text[pos].ch # quote
    BY <1>3, <1>5, StringQuote DEF Quotes
  <2> QED
    BY <1>1, <1>2, <1>3, <1>5, <2>1, KeptRound DEF Keep
<1>6. CASE Outside /\ text[pos].kind = "header" /\ pos = text[pos].first
  <2>1. pos' \in Nat /\ pos < pos'
    <3>1. pos' = pos + 1
      BY <1>1 DEF Emit
    <3> QED
      BY <3>1, RoundFacts
  <2>2. Whole(text, pos, text[pos].last)
    BY <1>1, <1>3, <1>6, <2>1, PassedIsWhole
  <2>3. Directive
    BY <1>1, <1>3, <1>6, <2>2, HeaderHere DEF Directive, AtLineStart, Running
  <2> QED
    BY <1>1, <2>3
<1> QED
  BY <1>1, <1>4, <1>5, <1>6, HashPlaces

(* No directive that is read is in a line without an end. *)
LEMMA NoOpenInclude ==
    ASSUME Round, Closed', OpenInclude
    PROVE  FALSE
<1>1. /\ Char(pos) = "hash" /\ Newlines(pos) = {} /\ Char(pos + 1) = "include"
      /\ pos' = pos + 1 /\ UNCHANGED input
  BY DEF OpenInclude, LastInclude, AtLineStart, Running
<1>2. pos \in DOMAIN text /\ Outside /\ text[pos].kind = "header" /\ pos = text[pos].first
  BY <1>1, HashPlaces
<1>3. pos' \in Nat /\ pos < pos'
  BY <1>1, RoundFacts
<1>4. Whole(text, pos, text[pos].last)
  BY <1>1, <1>2, <1>3, PassedIsWhole
<1> QED
  BY <1>1, <1>2, <1>4, HeaderHere

-----------------------------------------------------------------------------
(* The rounds of the other characters.                                      *)

LEMMA SlashRound ==
    ASSUME Round, Closed', Slash
    PROVE  Sound(out, pos)' /\ Synced'
<1>1. /\ Char(pos) = "slash" /\ ~ Opens /\ UNCHANGED <<input, quote, header>> /\ Keep
      /\ slash' = (slash \/ quote = "none") /\ pc = "run"
  BY DEF Slash, Running
<1>2. pos \in DOMAIN text /\ text[pos].ch = "slash" /\ slash \in BOOLEAN
  BY <1>1, CharHere, Types DEF Round
<1>3. Below(out, pos)
  BY <1>1, RoundFacts DEF Hangs, Opens
<1>4. CASE Outside /\ text[pos].kind = "code"
  <2>1. quote = "none"
    BY <1>4 DEF Outside
  <2> QED
    BY <1>1, <1>2, <1>3, <1>4, <2>1, KeptRound
<1>5. CASE /\ Outside /\ text[pos].kind \in {"line", "block"} /\ pos = text[pos].first
  <2>1. quote' = "none" /\ header' = FALSE
    BY <1>1, <1>5 DEF Outside
  <2>2. slash' = TRUE
    BY <1>1, <2>1
  <2> QED
    BY <1>1, <1>2, <1>3, <1>5, <2>1, <2>2, BeginningRound DEF Keep
<1>6. CASE InString /\ text[pos].kind = "string"
  <2>1. quote \in Quotes /\ slash = FALSE
    BY <1>2, <1>6, StringQuote
  <2>2. text[pos].ch # quote /\ quote # "none"
    BY <1>2, <2>1 DEF Quotes
  <2>3. slash' = FALSE
    BY <1>1, <2>1, <2>2
  <2> QED
    BY <1>1, <1>2, <1>3, <1>6, <2>2, <2>3, KeptRound
<1>7. ~ Begun
  BY <1>1 DEF Begun, Opens
<1> QED
  BY <1>2, <1>4, <1>5, <1>6, <1>7, Places DEF Quotes

LEMMA StarRound ==
    ASSUME Round, Closed', Star
    PROVE  Sound(out, pos)' /\ Synced'
<1>1. /\ Char(pos) = "star" /\ ~ Opens /\ UNCHANGED <<input, quote, slash, header>> /\ Keep
      /\ pc = "run"
  BY DEF Star, Running
<1>2. pos \in DOMAIN text /\ text[pos].ch = "star" /\ slash \in BOOLEAN
  BY <1>1, CharHere, Types DEF Round
<1>3. Below(out, pos)
  BY <1>1, RoundFacts DEF Hangs
<1>4. CASE Outside /\ text[pos].kind = "code"
  <2>1. ~ slash
    BY <1>1, <1>4 DEF Outside, Opens
  <2> QED
    BY <1>1, <1>2, <1>3, <1>4, <2>1, KeptRound
<1>5. CASE InString /\ text[pos].kind = "string"
  <2>1. quote \in Quotes /\ slash = FALSE
    BY <1>2, <1>5, StringQuote
  <2>2. text[pos].ch # quote
    BY <1>2, <2>1 DEF Quotes
  <2> QED
    BY <1>1, <1>2, <1>3, <1>5, <2>1, <2>2, KeptRound
<1>6. ~ Begun
  BY <1>1 DEF Begun, Opens
<1> QED
  BY <1>2, <1>4, <1>5, <1>6, Places DEF Quotes

LEMMA BackslashRound ==
    ASSUME Round, Closed', Backslash
    PROVE  Sound(out, pos)' /\ Synced'
<1>1. /\ Char(pos) = "backslash" /\ UNCHANGED <<input, quote, slash, header>> /\ Keep
      /\ pc = "run"
  BY DEF Backslash, Running
<1>2. pos \in DOMAIN text /\ text[pos].ch = "backslash" /\ slash \in BOOLEAN
  BY <1>1, CharHere, Types DEF Round
<1>3. Below(out, pos)
  BY <1>1, RoundFacts DEF Hangs
<1>4. CASE Outside /\ text[pos].kind = "code"
  <2>1. ~ slash
    <3>1. slash => SlashMeans(out, pos)
      BY <1>4 DEF Outside
    <3> QED
      BY <1>2, <3>1, SlashFacts, RoundFacts
  <2> QED
    BY <1>1, <1>2, <1>3, <1>4, <2>1, KeptRound
<1>5. CASE InString /\ text[pos].kind = "string"
  <2>1. quote \in Quotes /\ slash = FALSE
    BY <1>2, <1>5, StringQuote
  <2>2. text[pos].ch # quote
    BY <1>2, <2>1 DEF Quotes
  <2> QED
    BY <1>1, <1>2, <1>3, <1>5, <2>1, <2>2, KeptRound
<1> QED
  BY <1>2, <1>4, <1>5, Places DEF Quotes

(* Any other character, and the end of the text. *)
LEMMA OtherRound ==
    ASSUME Round, Closed', Other
    PROVE  Sound(out, pos)' /\ (pc' = "run" => Synced')
<1>1. /\ Char(pos) \in {"letter", "include", "blank", "end"} /\ slash' = FALSE
      /\ UNCHANGED <<input, quote, header>> /\ Keep /\ pc = "run"
  BY DEF Other, Running
<1>2. Below(out, pos)
  BY <1>1, RoundFacts DEF Hangs
<1>3. CASE pos \in DOMAIN text
  <2>1. text[pos].ch \in {"letter", "include", "blank"}
    BY <1>1, <1>3, CharHere
  <2>2. CASE Outside /\ text[pos].kind = "code"
    BY <1>1, <1>2, <1>3, <2>2, KeptRound
  <2>3. CASE InString /\ text[pos].kind = "string"
    <3>1. text[pos].ch # quote
      BY <1>3, <2>1, <2>3, StringQuote DEF Quotes
    <3> QED
      BY <1>1, <1>2, <1>3, <2>3, <3>1, KeptRound
  <2> QED
    BY <1>3, <2>1, <2>2, <2>3, Places DEF Quotes
<1>4. CASE pos \notin DOMAIN text
  <2>1. Outside
    BY <1>4, OutsideInCode
  <2>2. Char(pos) = "end" /\ quote' = "none" /\ header' = FALSE
    BY <1>1, <1>4, <2>1, CharHere DEF Outside
  <2>3. pc' = "done" /\ pos' = pos + 1
    BY <1>1, <1>4 DEF Keep, Emit
  <2>4. out' = out
    BY <1>1, <2>2 DEF Keep, Emit
  <2>5. PICK o, p : o = out' /\ o = out /\ p = pos' /\ p = pos + 1
    BY <2>3, <2>4
  <2>6. Sound(o, p)
    <3>1. /\ text \in Seq(Character) /\ pos \in Nat /\ p \in Nat
          /\ \A w \in DOMAIN text : pos <= w /\ w < p => w = pos
      <4>1. pos \in Nat /\ text \in Seq(Character) /\ DOMAIN text = 1..Len(text)
        BY RoundFacts
      <4> QED
        BY <2>5, <4>1
    <3>2. Sound(out, pos)
      BY DEF Round
    <3> QED
      BY <1>4, <2>5, <3>1, <3>2, SoundFurther
  <2> QED
    BY <1>1, <2>3, <2>5, <2>6, NextSound
<1> QED
  BY <1>3, <1>4

(* The newline that ends a directive in C. *)
LEMMA EndingRound ==
    ASSUME Round, Closed', UNCHANGED input, Ending, pos \in DOMAIN text,
           text[pos].kind = "header", text[pos].ch = "newline",
           Emit(out, pos, pos + 1, LastChar(out) = "newline"),
           quote' = "none", header' = FALSE, slash' = FALSE
    PROVE  Sound(out, pos)' /\ Synced'
<1>1. /\ CLike(text) /\ text \in Seq(Character) /\ DOMAIN text = 1..Len(text)
      /\ pos \in Nat \ {0} /\ pos + 1 \in Nat
  BY RoundFacts
<1>2. pos = text[pos].last /\ LastChar(out) = "newline"
  BY DEF Ending
<1>3. PICK skip : skip = (LastChar(out) = "newline")
  OBVIOUS
<1>4. skip = TRUE
  BY <1>2, <1>3
<1>5. Emit(out, pos, pos + 1, skip)
  BY <1>3
<1>6. PICK o, p, row : o = out' /\ p = pos' /\ row = space'
  OBVIOUS
<1>7. p = pos + 1 /\ o = out /\ row = 0 /\ (escape' <=> text[pos].ch = "backslash" /\ ~ escape)
  BY <1>1, <1>4, <1>5, <1>6, EmitHidden
<1>8. p \in DOMAIN text => text[p].first = p
  BY <1>1, <1>2, <1>7, NextPiece
<1>9. ~ Joined(p) /\ ~ escape'
  <2>1. ~ (p < p)
    BY <1>1, <1>7
  <2> QED
    BY <1>7, <1>8, <2>1 DEF Joined
<1>10. Behind(o, p, row)
  <2>1. ~ EndsInWord(o)
    BY <1>2, <1>7 DEF EndsInWord, Letters
  <2> QED
    BY <1>2, <1>7, <2>1 DEF Behind, LineMeans, NewlineKept, SpaceMeans, WordMeans
<1>11. Sound(o, p)
  <2>1. Sound(out, pos)
    BY DEF Round
  <2>2. \A w \in DOMAIN text : pos <= w /\ w < pos + 1 => text[w].kind # "code"
    <3>1. \A w \in DOMAIN text : pos <= w /\ w < pos + 1 => w = pos
      BY <1>1
    <3> QED
      BY <3>1
  <2> QED
    BY <1>1, <1>7, <2>1, <2>2, SoundFurther
<1> QED
  BY <1>6, <1>8, <1>9, <1>10, <1>11, Arrive

LEMMA NewlineRound ==
    ASSUME Round, Closed', Newline
    PROVE  Sound(out, pos)' /\ Synced'
<1>1. /\ Char(pos) = "newline" /\ UNCHANGED input /\ pc = "run"
      /\ escape => UNCHANGED <<quote, slash, header>> /\ Keep
      /\ ~ escape => /\ slash' = FALSE /\ header' = FALSE
                     /\ quote' = (IF quote = "double" THEN "none" ELSE quote)
                     /\ Emit(out, pos, pos + 1, LastChar(out) = "newline")
  BY DEF Newline, Running
<1>2. pos \in DOMAIN text /\ text[pos].ch = "newline" /\ slash \in BOOLEAN
  BY <1>1, CharHere, Types DEF Round
<1>3. Below(out, pos)
  BY <1>1, RoundFacts DEF Hangs
<1>4. CASE Outside /\ text[pos].kind = "code" /\ escape
  <2>1. ~ slash
    <3>1. slash => SlashMeans(out, pos)
      BY <1>4 DEF Outside
    <3>2. text[pos].first < pos
      BY <1>4 DEF Outside, Joined
    <3>3. text[pos].first # pos
      BY <1>2, <3>2, RoundFacts, PieceFacts
    <3> QED
      BY <1>2, <3>1, <3>3, SlashFacts, RoundFacts
  <2> QED
    BY <1>1, <1>2, <1>3, <1>4, <2>1, KeptRound
<1>5. CASE Outside /\ text[pos].kind = "code" /\ ~ escape
  <2>1. PICK skip : skip = (LastChar(out) = "newline")
    OBVIOUS
  <2>2. Emit(out, pos, pos + 1, skip)
    BY <1>1, <1>5, <2>1
  <2>3. skip = FALSE \/ LastChar(out) = "newline"
    BY <2>1, Zenon
  <2>4. quote' = "none" /\ header' = FALSE /\ slash' = FALSE
    BY <1>1, <1>5 DEF Outside
  <2> QED
    BY <1>1, <1>2, <1>3, <1>5, <2>2, <2>3, <2>4, CodeRound
<1>6. CASE InString /\ text[pos].kind = "string"
  <2>1. escape /\ slash = FALSE
    BY <1>2, <1>6, StringQuote
  <2> QED
    BY <1>1, <1>2, <1>3, <1>6, <2>1, KeptRound
<1>7. CASE Ending /\ text[pos].kind = "header"
  <2>1. ~ escape /\ quote = "none"
    BY <1>7 DEF Ending
  <2>2. /\ quote' = "none" /\ header' = FALSE /\ slash' = FALSE
        /\ Emit(out, pos, pos + 1, LastChar(out) = "newline")
    BY <1>1, <2>1
  <2> QED
    BY <1>1, <1>2, <1>7, <2>2, EndingRound
<1> QED
  BY <1>2, <1>4, <1>5, <1>6, <1>7, Places DEF Quotes

LEMMA QuoteRound ==
    ASSUME Round, Closed', NEW q \in Quotes, Quote(q)
    PROVE  Sound(out, pos)' /\ Synced'
<1>1. /\ Char(pos) = q /\ UNCHANGED <<input, header>> /\ slash' = FALSE /\ pc = "run"
      /\ quote = q /\ ~ escape => quote' = "none" /\ Emit(out, pos, pos + 1, TRUE)
      /\ ~ (quote = q /\ ~ escape) => quote' = (IF quote = "none" THEN q ELSE quote) /\ Keep
  BY DEF Quote, Running
<1>2. pos \in DOMAIN text /\ text[pos].ch = q
  <2>1. q # "end"
    BY DEF Quotes
  <2> QED
    BY <1>1, <2>1, CharHere
<1>3. Below(out, pos)
  <2>1. q # "slash"
    BY DEF Quotes
  <2> QED
    BY <1>1, <2>1, RoundFacts DEF Hangs
<1>4. CASE Outside /\ text[pos].kind = "string" /\ pos = text[pos].first
  <2>1. quote = "none" /\ header = FALSE
    BY <1>4 DEF Outside
  <2>2. quote # q
    BY <2>1 DEF Quotes
  <2>3. quote' = text[pos].ch /\ header' = FALSE /\ Emit(out, pos, pos + 1, FALSE)
    BY <1>1, <1>2, <2>1, <2>2 DEF Keep
  <2> QED
    BY <1>1, <1>2, <1>4, <2>3, OpeningRound
<1>5. CASE InString /\ text[pos].kind = "string" /\ quote = q /\ ~ escape
  <2>1. header' = FALSE
    BY <1>1, <1>2, <1>5, StringQuote
  <2> QED
    BY <1>1, <1>2, <1>5, <2>1, ClosingRound
<1>6. CASE InString /\ text[pos].kind = "string" /\ ~ (quote = q /\ ~ escape)
  <2>1. quote # "none"
    BY <1>2, <1>6, StringQuote DEF Quotes
  <2>2. quote' = quote /\ Keep
    BY <1>1, <1>6, <2>1
  <2>3. text[pos].ch = quote => escape
    BY <1>2, <1>6
  <2> QED
    BY <1>1, <1>2, <1>3, <1>6, <2>2, <2>3, KeptRound
<1> QED
  BY <1>2, <1>4, <1>5, <1>6, Places DEF Quotes

-----------------------------------------------------------------------------
(* The invariance, and what it is for.                                      *)

(* The automaton does not go back. *)
LEMMA GoesOn ==
    ASSUME TInv, Step
    PROVE  pc = "run" /\ UNCHANGED input /\ pos <= pos'
<1>1. pc = "run"
  BY DEF Step, LineComment, OpenComment, Slash, BlockComment, OpenBlock, Star, Newline, Include,
         Directive, OpenInclude, LastHash, LastInclude, AtLineStart, Hash, Backslash, Other,
         Quote, Running
<1>2. UNCHANGED input
  BY DEF Step, LineComment, OpenComment, Slash, BlockComment, OpenBlock, Star, Newline, Include,
         OpenInclude, LastHash, Hash, Backslash, Other, Quote
<1>3. pos \in Nat \ {0} /\ text \in Seq(Character) /\ Len(text) \in Nat /\ DOMAIN text = 1..Len(text)
  BY <1>1, Types
<1>4. PICK p : p = pos'
  OBVIOUS
<1> SUFFICES pos <= p
  BY <1>1, <1>2, <1>4
<1>5. CASE LineComment
  <2>1. PICK e \in CommentEnd : pos' = e + 1
    BY <1>5 DEF LineComment, Emit
  <2>2. e \in DOMAIN text /\ e >= pos
    BY <1>3, <2>1 DEF CommentEnd, First, Newlines
  <2>3. p = e + 1
    BY <1>4, <2>1
  <2> QED
    BY <1>3, <2>2, <2>3
<1>6. CASE BlockComment
  <2>1. PICK e \in BlockEnd : pos' = e + 3
    BY <1>6 DEF BlockComment, Emit
  <2>2. e \in DOMAIN text /\ e >= pos
    BY <2>1 DEF BlockEnd, First
  <2>3. p = e + 3
    BY <1>4, <2>1
  <2> QED
    BY <1>3, <2>2, <2>3
<1>7. CASE Include
  <2>1. PICK e \in First(Newlines(pos)) : pos' = IF language = "C" THEN e ELSE e + 1
    BY <1>7 DEF Include
  <2>2. e \in DOMAIN text /\ e >= pos
    BY <2>1 DEF First, Newlines
  <2>3. p = e \/ p = e + 1
    BY <1>4, <2>1
  <2> QED
    BY <1>3, <2>2, <2>3
<1>8. CASE ~ (LineComment \/ BlockComment \/ Include)
  <2>1. pos' = pos \/ pos' = pos + 1 \/ pos' = pos + 2
    BY <1>8 DEF Step, OpenComment, Slash, OpenBlock, Star, Newline, OpenInclude, LastHash, Hash,
                Backslash, Other, Quote, Keep, Emit
  <2>2. p = pos \/ p = pos + 1 \/ p = pos + 2
    BY <1>4, <2>1
  <2> QED
    BY <1>3, <2>2
<1> QED
  BY <1>5, <1>6, <1>7, <1>8

LEMMA StepSound ==
    ASSUME Round, Closed', Step
    PROVE  Sound(out, pos)' /\ (pc' = "run" => Synced')
<1>1. ASSUME LastHash
      PROVE  Sound(out, pos)' /\ (pc' = "run" => Synced')
  <2>1. pc' = "failed" /\ UNCHANGED <<input, out, pos>>
    BY <1>1 DEF LastHash
  <2>2. Sound(out, pos)
    BY DEF Round
  <2> QED
    BY <2>1, <2>2, NextSound
<1> QED
  BY <1>1, LineRound, OpenLineRound, SlashRound, BlockRound, NoOpenBlock, StarRound, NewlineRound,
     IncludeRound, NoOpenInclude, HashRound, BackslashRound, OtherRound, QuoteRound DEF Step

(* What the end of a round adds to what is kept. *)
LEMMA EmitAdds ==
    ASSUME text \in Seq(Character), NEW o, Ordered(o), NEW at \in Nat \ {0}, NEW p, NEW skip,
           Emit(o, at, p, skip)
    PROVE  \A n \in DOMAIN out' :
              (\E m \in DOMAIN o : out'[n] = o[m]) \/ (out'[n] = at /\ at \in DOMAIN text)
<1>1. Char(at) # "end" => at \in DOMAIN text
  BY CharInText
<1>2. PICK new : new = out'
  OBVIOUS
<1>3. new \in {o, Shorter(o)} \/ (new = Append(o, at) /\ at \in DOMAIN text)
  BY <1>1, <1>2 DEF Emit
<1>4. o \in Seq(DOMAIN text)
  BY DEF Ordered
<1>5. CASE new \in {o, Shorter(o)}
  BY <1>2, <1>5, ShorterOrdered
<1>6. CASE new = Append(o, at) /\ at \in DOMAIN text
  <2>1. \A n \in DOMAIN new : n \in DOMAIN o \/ n = Len(o) + 1
    BY <1>4, <1>6
  <2>2. /\ \A n \in DOMAIN o : new[n] = o[n]
        /\ new[Len(o) + 1] = at
    BY <1>4, <1>6
  <2> QED
    BY <1>2, <1>6, <2>1, <2>2
<1> QED
  BY <1>3, <1>5, <1>6

(* A round keeps no more than a slash, or the last character it looks at. *)
LEMMA StepAdds ==
    ASSUME TInv, Step
    PROVE  \A n \in DOMAIN out' :
              \/ \E m \in DOMAIN out : out'[n] = out[m]
              \/ out'[n] \in DOMAIN text /\ (Char(out'[n]) = "slash" \/ pos' = out'[n] + 1)
<1>1. pc = "run" /\ UNCHANGED input
  BY GoesOn
<1>2. /\ text \in Seq(Character) /\ DOMAIN text = 1..Len(text) /\ Len(text) \in Nat
      /\ pos \in Nat \ {0} /\ Ordered(out) /\ Ordered(Shorter(out))
  BY <1>1, Types
<1>3. \A n \in DOMAIN Shorter(out) : n \in DOMAIN out /\ Shorter(out)[n] = out[n]
  BY <1>2, ShorterOrdered
<1>4. ASSUME NEW o \in {out, Shorter(out)}, NEW at \in Nat \ {0}, NEW p, NEW skip,
             Emit(o, at, p, skip), Char(at) = "slash" \/ p = at + 1
      PROVE  \A n \in DOMAIN out' :
                \/ \E m \in DOMAIN out : out'[n] = out[m]
                \/ out'[n] \in DOMAIN text /\ (Char(out'[n]) = "slash" \/ pos' = out'[n] + 1)
  <2>1. Ordered(o) /\ \A m \in DOMAIN o : \E k \in DOMAIN out : o[m] = out[k]
    BY <1>2, <1>3, <1>4
  <2>2. pos' = p
    BY <1>4 DEF Emit
  <2>3. \A n \in DOMAIN out' :
           (\E m \in DOMAIN o : out'[n] = o[m]) \/ (out'[n] = at /\ at \in DOMAIN text)
    BY <1>2, <1>4, <2>1, EmitAdds
  <2> QED
    BY <1>4, <2>1, <2>2, <2>3
<1>5. CASE LineComment
  <2>1. PICK e \in CommentEnd : \E skip :
            Emit(Shorter(out), IF language = "C" THEN e ELSE pos, e + 1, skip)
    BY <1>5 DEF LineComment
  <2>2. e \in DOMAIN text /\ Char(pos) = "slash"
    BY <1>2, <1>5, <2>1 DEF CommentEnd, First, Newlines, LineComment, Running
  <2> DEFINE at == IF language = "C" THEN e ELSE pos
  <2>3. at \in Nat \ {0} /\ (Char(at) = "slash" \/ e + 1 = at + 1)
    BY <1>2, <2>2
  <2> QED
    BY <1>4, <2>1, <2>3
<1>6. CASE OpenComment
  <2>1. Char(pos) = "slash" /\ \E p, skip : Emit(Shorter(out), pos, p, skip)
    BY <1>6 DEF OpenComment, Running
  <2> QED
    BY <1>2, <1>4, <2>1
<1>7. CASE BlockComment
  <2>1. PICK e \in BlockEnd : \E skip : Emit(Shorter(out), e + 2, e + 3, skip)
    BY <1>7 DEF BlockComment
  <2>2. e \in DOMAIN text
    BY <2>1 DEF BlockEnd, First
  <2>3. e + 2 \in Nat \ {0} /\ e + 3 = (e + 2) + 1
    BY <1>2, <2>2
  <2> QED
    BY <1>4, <2>1, <2>3
<1>8. CASE OpenBlock
  <2>1. out' = out \/ Emit(Shorter(out), pos + 1, pos + 2, FALSE)
    BY <1>8 DEF OpenBlock
  <2>2. pos + 1 \in Nat \ {0} /\ pos + 2 = (pos + 1) + 1
    BY <1>2
  <2> QED
    BY <1>4, <2>1, <2>2
<1>9. CASE Include \/ OpenInclude \/ LastHash
  BY <1>9 DEF Include, OpenInclude, LastHash
<1>10. CASE Slash \/ Star \/ Newline \/ Hash \/ Backslash \/ Other \/ \E q \in Quotes : Quote(q)
  <2>1. \E skip : Emit(out, pos, pos + 1, skip)
    BY <1>10 DEF Slash, Star, Newline, Hash, Backslash, Other, Quote, Keep
  <2> QED
    BY <1>2, <1>4, <2>1
<1> QED
  BY <1>5, <1>6, <1>7, <1>8, <1>9, <1>10 DEF Step

(* Where the piece begins that a text does not end, if there is one, is a number. *)
LEMMA OpenNat ==
    ASSUME NEW t, CLike(t)
    PROVE  OpenAt(t) \in Nat
<1>1. t \in Seq(Character) /\ Len(t) \in Nat
  BY DEF CLike
<1>2. t # <<>> => Len(t) \in DOMAIN t
  BY <1>1
<1>3. t # <<>> => t[Len(t)].first \in Nat
  BY <1>2, PieceFacts
<1> QED
  BY <1>1, <1>3 DEF OpenAt

(***************************************************************************)
(* Nothing is left of a piece in front of the one that the text does not   *)
(* end: before that is reached what is kept is sound, and no round looks   *)
(* back from there.                                                        *)
(***************************************************************************)
LEMMA StepFine ==
    ASSUME IInv, Step, Closed' => Sound(out, pos)'
    PROVE  (\A n \in DOMAIN out : Fine(out[n]))'
<1>1. TInv /\ text \in Texts[language] /\ \A n \in DOMAIN out : Fine(out[n])
  BY DEF IInv
<1>2. UNCHANGED input
  BY <1>1, GoesOn
<1>3. text' = text
  BY <1>2 DEF input
<1>4. CLike(text) /\ text \in Seq(Character) /\ DOMAIN text = 1..Len(text) /\ Len(text) \in Nat
  BY <1>1, TextFacts
<1>5. OpenAt(text) \in Nat
  BY <1>4, OpenNat
<1>6. PICK p, new : p = pos' /\ new = out'
  OBVIOUS
<1> SUFFICES ASSUME NEW n \in DOMAIN new
             PROVE  Fine(new[n])
  BY <1>3, <1>6 DEF Fine
<1>7. /\ \/ \E m \in DOMAIN out : new[n] = out[m]
         \/ new[n] \in DOMAIN text /\ (Char(new[n]) = "slash" \/ p = new[n] + 1)
  BY <1>1, <1>6, StepAdds
<1>8. CASE \E m \in DOMAIN out : new[n] = out[m]
  BY <1>1, <1>8
<1>9. CASE new[n] \in DOMAIN text /\ Char(new[n]) = "slash"
  BY <1>9 DEF Fine, Char, Letters
<1>10. CASE ClosedAt(p)
  <2>1. Sound(new, p)
    <3>1. Closed'
      BY <1>3, <1>6, <1>10 DEF Closed, ClosedAt
    <3> QED
      BY <1>3, <1>6, <3>1 DEF Sound, Found, Clean, Apart
  <2> QED
    BY <2>1 DEF Sound, Clean, Fine
<1>11. CASE new[n] \in DOMAIN text /\ p = new[n] + 1 /\ ~ ClosedAt(p)
  <2>1. OpenAt(text) < p \/ ~ (p \in Nat)
    BY <1>5, <1>11 DEF ClosedAt
  <2>2. new[n] \in Nat
    BY <1>4, <1>11
  <2>3. ~ (new[n] < OpenAt(text))
    BY <1>5, <1>11, <2>1, <2>2
  <2> QED
    BY <2>3 DEF Fine
<1> QED
  BY <1>7, <1>8, <1>9, <1>10, <1>11

LEMMA StepInv == IInv /\ [Next]_vars => IInv'
<1> SUFFICES ASSUME IInv, [Next]_vars
             PROVE  IInv'
  OBVIOUS
<1>1. TInv /\ TInv'
  BY StepType DEF IInv
<1>2. CASE Step
  <2>1. pc = "run" /\ UNCHANGED input /\ pos <= pos'
    BY <1>1, <1>2, GoesOn
  <2>2. text' \in Texts[language']
    BY <2>1 DEF IInv, input
  <2>3. SUFFICES ASSUME Closed'
                 PROVE  Sound(out, pos)' /\ (pc' = "run" => Synced')
    <3>1. (Closed' => Sound(out, pos)') => (\A n \in DOMAIN out : Fine(out[n]))'
      BY <1>2, StepFine
    <3> QED
      BY <1>1, <2>2, <3>1 DEF IInv
  <2>4. Closed
    <3>1. PICK p : p = pos'
      OBVIOUS
    <3>2. ClosedAt(p)
      BY <2>1, <2>3, <3>1, NextClosed
    <3>3. p \in Nat /\ pos \in Nat /\ DOMAIN text \subseteq Nat
      <4>1. text \in Seq(Character)
        BY <1>1 DEF TInv, TypeOK
      <4>2. pos \in Nat
        BY <1>1, <4>1 DEF TInv, TypeOK
      <4>3. (text \in Seq(Character) /\ pos \in 1..(Len(text) + 2))'
        BY <1>1 DEF TInv, TypeOK
      <4>4. p \in Nat
        BY <3>1, <4>3
      <4> QED
        BY <4>1, <4>2, <4>4
    <3> QED
      BY <2>1, <3>1, <3>2, <3>3 DEF ClosedAt, Closed
  <2>5. Round
    BY <1>1, <2>1, <2>4 DEF IInv, Round
  <2> QED
    BY <1>2, <2>3, <2>5, StepSound
<1>3. CASE Stopped \/ UNCHANGED vars
  <2>1. UNCHANGED <<language, text, pos, out, quote, slash, escape, header, space, pc>>
    BY <1>3 DEF Stopped, vars, input
  <2>2. text' \in Texts[language'] /\ (Closed' => Closed)
    BY <2>1 DEF IInv, Closed
  <2>3. (Closed => Sound(out, pos)') /\ (\A n \in DOMAIN out : Fine(out[n]))'
    BY <2>1, NextSound DEF IInv, input, Fine
  <2>4. Synced => Synced'
    BY <2>1 DEF Synced, Outside, InString, Begun, Ending, Joined, SlashMeans, Behind, LineMeans,
                NewlineKept, Stuck, SpaceMeans, WordMeans, Leading, AfterBlank, IsBlank,
                EndsInWord, Cut, LastOf, LastChar, Char, Shorter
  <2> QED
    BY <1>1, <2>1, <2>2, <2>3, <2>4 DEF IInv
<1> QED
  BY <1>2, <1>3 DEF Next

LEMMA InitInv == Init => IInv
<1> SUFFICES ASSUME Init
             PROVE  IInv
  OBVIOUS
<1>1. TInv /\ text \in Texts[language]
  BY InitType DEF Init
<1>2. CLike(text) /\ text \in Seq(Character) /\ DOMAIN text = 1..Len(text)
  BY <1>1, TextFacts
<1>3. pos = 1 /\ out = <<>> /\ quote = "none" /\ space = 0
  BY DEF Init
<1>4. slash = FALSE /\ escape = FALSE /\ header = FALSE
  BY DEF Init
<1>5. Sound(out, pos)
  <2>1. \A w \in DOMAIN text : ~ (w < 1)
    BY <1>2
  <2>2. DOMAIN out = {} /\ 1..(Len(out) - 1) = {}
    BY <1>3
  <2> QED
    BY <1>3, <2>1, <2>2 DEF Sound, Found, Clean, Apart
<1>6. 1 \in DOMAIN text => text[1].first = 1
  <2>1. 1 \in DOMAIN text => text[1].first \in Nat /\ 1 <= text[1].first /\ text[1].first <= 1
    BY <1>2, PieceFacts
  <2> QED
    BY <2>1
<1>7. ~ Joined(pos)
  BY <1>3, <1>6 DEF Joined
<1>8. Behind(out, pos, space)
  <2>1. Leading(pos)
    BY <1>3 DEF Leading
  <2>2. ~ EndsInWord(out)
    BY <1>3 DEF EndsInWord
  <2>3. ~ BehindNewline(text, 1)
    BY DEF BehindNewline
  <2> QED
    BY <1>3, <2>1, <2>2, <2>3 DEF Behind, LineMeans, NewlineKept, SpaceMeans, WordMeans
<1>9. Outside
  BY <1>3, <1>4, <1>7, <1>8 DEF Outside
<1>10. Synced
  BY <1>3, <1>6, <1>9 DEF Synced
<1>11. \A n \in DOMAIN out : Fine(out[n])
  BY <1>3
<1> QED
  BY <1>1, <1>5, <1>10, <1>11 DEF IInv

LEMMA Invariance == Spec => []IInv
BY InitInv, StepInv, PTL DEF Spec

(* What the invariant says of what is kept. *)
LEMMA KeptFacts ==
    ASSUME IInv
    PROVE  /\ Closed => Sound(out, pos)
           /\ \A n \in DOMAIN out : Fine(out[n])
           /\ text \in Seq(Character)
           /\ \A w \in DOMAIN text : Char(w) = text[w].ch
           /\ \A n \in DOMAIN out : out[n] \in DOMAIN text
           /\ DOMAIN out = 1..Len(out) /\ Len(out) \in Nat
<1>1. text \in Seq(Character) /\ out \in Seq(DOMAIN text) /\ (Closed => Sound(out, pos))
  BY DEF IInv, TInv, TypeOK, Ordered
<1>2. \A n \in DOMAIN out : Fine(out[n])
  BY DEF IInv
<1> QED
  BY <1>1, <1>2 DEF Char

(***************************************************************************)
(* Every word of the code of any C-like text that neither implementation   *)
(* is known to misread is kept, until the text ends in what it does not    *)
(* end (strip.c:36-39).                                                    *)
(***************************************************************************)
THEOREM NothingIsLost == Spec => []NothingLost
<1>1. IInv => NothingLost
  <2>1. SUFFICES ASSUME IInv, Closed, NEW w \in Words({"code"}), w < pos
                 PROVE  w \in Kept
    BY DEF NothingLost
  <2>2. w \in DOMAIN text /\ text[w].kind = "code" /\ text[w].ch \in Letters
    BY <2>1, KeptFacts DEF Words
  <2>3. PICK n \in DOMAIN out : out[n] = w
    BY <2>1, <2>2, KeptFacts DEF Sound, Found
  <2> QED
    BY <2>3 DEF Kept
<1> QED
  BY <1>1, Invariance, PTL

(***************************************************************************)
(* No word of their comments, strings and include directives is left, from *)
(* which a highlight would be made (strip.c:38), but for those of a last   *)
(* one that the text does not end (strip.c:133-136).                       *)
(***************************************************************************)
THEOREM NothingIsLeft == Spec => []NothingLeft
<1>1. IInv => NothingLeft
  <2>1. SUFFICES ASSUME IInv, NEW n \in DOMAIN out, out[n] \in Words(Kinds \ {"code"})
                 PROVE  out[n] >= OpenAt(text)
    BY DEF NothingLeft, Kept
  <2>2. text[out[n]].kind # "code" /\ text[out[n]].ch \in Letters /\ out[n] \in DOMAIN text
    BY <2>1, KeptFacts DEF Words
  <2>3. ~ (out[n] < OpenAt(text))
    BY <2>1, <2>2, KeptFacts DEF Fine
  <2>4. CLike(text)
    BY <2>1, TextFacts DEF IInv
  <2>5. OpenAt(text) \in Nat /\ out[n] \in Nat
    BY <2>2, <2>4, KeptFacts, <2>1, OpenNat
  <2> QED
    BY <2>3, <2>5
<1> QED
  BY <1>1, Invariance, PTL

(***************************************************************************)
(* Words that are apart in the text are apart in what is kept of it, but   *)
(* for those that a string or a block comment is between (tok.c:58-74).    *)
(***************************************************************************)
THEOREM WordsStayApart == Spec => []WordsApart
<1>1. IInv => WordsApart
  <2>1. SUFFICES ASSUME IInv, Closed, NEW n \in 1..(Len(out) - 1),
                        {Char(out[n]), Char(out[n + 1])} \subseteq Letters
                 PROVE  out[n + 1] = out[n] + 1 \/ text[out[n] + 1].kind \in {"string", "block"}
    BY DEF WordsApart
  <2>2. n \in DOMAIN out /\ n + 1 \in DOMAIN out
    BY <2>1, KeptFacts
  <2>3. text[out[n]].ch \in Letters /\ text[out[n + 1]].ch \in Letters
    BY <2>1, <2>2, KeptFacts
  <2> QED
    BY <2>1, <2>3, KeptFacts DEF Sound, Apart
<1> QED
  BY <1>1, Invariance, PTL


=============================================================================
