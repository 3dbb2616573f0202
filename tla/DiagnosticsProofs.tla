------------------------- MODULE DiagnosticsProofs -------------------------
(***************************************************************************)
(* Proofs about Diagnostics, for any number of handlers and keys.          *)
(***************************************************************************)
EXTENDS Diagnostics, SequenceTheorems, TLAPS

(***************************************************************************)
(* What the list operations of python do to the stack.                     *)
(***************************************************************************)
LEMMA Push ==
  ASSUME stack \in Seq(Entry), verbose, NEW h \in Handlers, NEW s \in Sections,
         DebugStart(h, s)
  PROVE  /\ stack' \in Seq(Entry)
         /\ Len(stack') = Len(stack) + 1
         /\ \A k \in 1..Len(stack) : stack'[k] = stack[k]
         /\ stack'[Len(stack) + 1] = [by |-> h, of |-> s]
  <1>1. [by |-> h, of |-> s] \in Entry
    BY DEF Entry
  <1>. QED
    BY <1>1 DEF DebugStart

LEMMA Pop ==
  ASSUME stack \in Seq(Entry), stack # <<>>
  PROVE  /\ Popped \in Seq(Entry)
         /\ Len(Popped) = Len(stack) - 1
         /\ \A k \in 1..(Len(stack) - 1) : Popped[k] = stack[k]
         /\ Len(stack) \in Nat \ {0}
  <1>1. Len(stack) \in Nat \ {0}
    OBVIOUS
  <1>2. 1 \in 1..(Len(stack) + 1) /\ Len(stack) - 1 \in (1 - 1)..Len(stack)
    BY <1>1
  <1>. DEFINE m == Len(stack) - 1
  <1>3. /\ SubSeq(stack, 1, m) \in Seq(Entry)
        /\ Len(SubSeq(stack, 1, m)) = IF 1 <= m THEN m - 1 + 1 ELSE 0
        /\ \A k \in 1..(m - 1 + 1) : SubSeq(stack, 1, m)[k] = stack[1 + k - 1]
    BY <1>2, SubSeqProperties
  <1>4. m \in Nat /\ Popped = SubSeq(stack, 1, m)
    BY <1>1 DEF Popped
  <1>. HIDE DEF m
  <1>5. /\ Len(SubSeq(stack, 1, m)) = m
        /\ \A k \in 1..m : SubSeq(stack, 1, m)[k] = stack[k]
    BY <1>3, <1>4
  <1>. QED
    BY <1>1, <1>3, <1>4, <1>5 DEF m

-----------------------------------------------------------------------------
(* The type invariant.                                                      *)

LEMMA InitTypeOK == Init => TypeOK
  <1>. SUFFICES ASSUME Init
                PROVE  TypeOK
    OBVIOUS
  <1>1. acts \in 0..MaxActs /\ n \in [Handlers -> 0..MaxKeys]
    BY DiagnosticsAssumption DEF Init
  <1>2. pc \in [Handlers -> Labels]
    BY DEF Init, Labels
  <1>3. stack \in Seq(Entry)
    BY DEF Init
  <1>. QED
    BY <1>1, <1>2, <1>3 DEF Init, TypeOK

LEMMA StartType ==
  ASSUME TypeOK, NEW h \in Handlers, NEW s \in Sections, DebugStart(h, s)
  PROVE  stack' \in Seq(Entry)
  BY Push DEF TypeOK, DebugStart

LEMMA EndType ==
  ASSUME TypeOK, NEW h \in Handlers, NEW l \in Labels, DebugEnd(h, l)
  PROVE  stack' \in Seq(Entry) /\ pc' \in [Handlers -> Labels]
  BY Pop DEF TypeOK, DebugEnd, Goto, Labels

LEMMA WindType ==
  ASSUME TypeOK, NEW h \in Handlers, Wind(h)
  PROVE  /\ stack' \in Seq(Entry)
         /\ isRunning' \in BOOLEAN
         /\ pc' \in [Handlers -> Labels]
         /\ n' \in [Handlers -> 0..MaxKeys]
  <1>1. stack' \in Seq(Entry)
    BY DEF Wind
  <1>2. isRunning' \in BOOLEAN
    BY DEF Wind, TypeOK
  <1>3. pc' \in [Handlers -> Labels]
    BY DEF Wind, Goto, TypeOK, Labels, Working
  <1>4. 0 \in 0..MaxKeys
    BY DiagnosticsAssumption
  <1>5. n' \in [Handlers -> 0..MaxKeys]
    BY <1>4 DEF Wind, TypeOK
  <1>. QED
    BY <1>1, <1>2, <1>3, <1>5

LEMMA StepTypeOK == TypeOK /\ [Next]_vars => TypeOK'
  <1>. SUFFICES ASSUME TypeOK, [Next]_vars
                PROVE  TypeOK'
    OBVIOUS
  <1>. USE DEF TypeOK
  <1>1. ASSUME NEW h \in Handlers, Step(h)
        PROVE  TypeOK'
    <2>. /\ {"update", "files", "ctags", "compress", "parse", "key"} \subseteq Sections
         /\ Working \subseteq Labels
         /\ {"idle", "guard", "toggle", "switch", "dead", "files", "listed"}
                \subseteq Labels
      BY DEF Sections, Labels, Working
    <2>1. CASE Drop(h)
      BY <2>1 DEF Drop, Goto, rest
    <2>2. CASE Enter(h)
      <3>1. stack' \in Seq(Entry)
        BY <2>2, StartType DEF Enter
      <3>. QED
        BY <2>2, <3>1 DEF Enter, Goto, rest, Working
    <2>3. CASE Select(h)
      BY <2>3 DEF Select, Goto, rest, Working
    <2>4. CASE RunCtags(h)
      <3>1. stack' \in Seq(Entry)
        BY <2>4, StartType DEF RunCtags
      <3>. QED
        BY <2>4, <3>1 DEF RunCtags, Goto, Inside, rest, Working
    <2>5. CASE NoCommand(h)
      BY <2>5, EndType DEF NoCommand, Inside, rest
    <2>6. CASE Command(h)
      BY <2>6 DEF Command, Goto, Inside, rest, Working
    <2>7. CASE Compress(h)
      <3>1. stack' \in Seq(Entry)
        BY <2>7, StartType DEF Compress
      <3>. QED
        BY <2>7, <3>1 DEF Compress, Goto, Inside, rest, Working
    <2>8. CASE Compressed(h)
      BY <2>8, EndType DEF Compressed, Inside, rest, Working
    <2>9. CASE CtagsEnd(h)
      BY <2>9, EndType DEF CtagsEnd, Inside, rest
    <2>10. CASE Files(h)
      <3>1. stack' \in Seq(Entry)
        BY <2>10, StartType DEF Files
      <3>. QED
        BY <2>10, <3>1 DEF Files, Goto, Inside, rest, Working
    <2>11. CASE Listing(h)
      BY <2>11 DEF Listing, Goto, rest, Working
    <2>12. CASE Listed(h)
      BY <2>12, EndType DEF Listed, Inside, rest, Working
    <2>13. CASE Tags(h)
      <3>1. stack' \in Seq(Entry)
        BY <2>13, StartType DEF Tags
      <3>. QED
        BY <2>13, <3>1 DEF Tags, Goto, Inside, rest, Working
    <2>14. CASE Parsed(h)
      BY <2>14, EndType DEF Parsed, Inside, rest, Working
    <2>15. CASE Skip(h)
      BY <2>15, EndType, WindType DEF Skip, rest, Working
    <2>16. CASE Keys(h)
      <3>1. stack' \in Seq(Entry)
        BY <2>16, StartType DEF Keys
      <3>2. n' \in [Handlers -> 0..MaxKeys]
        <4>1. n[h] \in Nat /\ MaxKeys \in Nat
          BY DiagnosticsAssumption
        <4>2. n[h] < MaxKeys => n[h] + 1 \in 0..MaxKeys
          BY <4>1
        <4>. QED
          BY <2>16, <4>2 DEF Keys
      <3>. QED
        BY <2>16, <3>1, <3>2 DEF Keys, Goto, rest, Working
    <2>17. CASE KeyLeft(h)
      BY <2>17 DEF KeyLeft, Goto, Inside, rest, Working
    <2>18. CASE KeyDone(h)
      <3>1. PICK l \in {"keys", "end"} : DebugEnd(h, l)
        BY <2>18 DEF KeyDone
      <3>. QED
        BY <2>18, <3>1, EndType DEF KeyDone, Inside, rest, Working
    <2>19. CASE End(h)
      BY <2>19, EndType, WindType DEF End, rest, Working
    <2>20. CASE Clear(h)
      BY <2>20, WindType DEF Clear, rest
    <2>21. CASE Last(h)
      BY <2>21 DEF Last, Goto, rest
    <2>22. CASE Toggle(h)
      BY <2>22 DEF Toggle, Goto, rest
    <2>23. CASE Switch(h)
      BY <2>23 DEF Switch, Goto, rest
    <2>. QED
      BY <1>1, <2>1, <2>2, <2>3, <2>4, <2>5, <2>6, <2>7, <2>8, <2>9, <2>10, <2>11,
         <2>12, <2>13, <2>14, <2>15, <2>16, <2>17, <2>18, <2>19, <2>20, <2>21, <2>22,
         <2>23 DEF Step
  <1>2. ASSUME NEW h \in Handlers, Event(h) \/ NeotagsVerbosity(h)
        PROVE  TypeOK'
    <2>1. PICK l \in {"guard", "toggle"} : Start(h, l)
      BY <1>2 DEF Event, NeotagsVerbosity
    <2>. QED
      BY <2>1, DiagnosticsAssumption DEF Start, Goto, Labels
  <1>3. CASE UNCHANGED vars
    BY <1>3 DEF vars
  <1>. QED
    BY <1>1, <1>2, <1>3 DEF Next, Done

(* Every variable keeps its type, at any verbosity and with any switches.   *)
THEOREM TypeCorrect == Spec => []TypeOK
  BY InitTypeOK, StepTypeOK, PTL DEF Spec

-----------------------------------------------------------------------------
(***************************************************************************)
(* Nothing is kept.  The invariant: as long as the stack is not empty, a   *)
(* handler that has not cleared it yet is under way, or has been stopped.  *)
(***************************************************************************)
Unfinished(h) == pc[h] \in (Working \ {"last"}) \cup {"dead"}

Watched == stack # <<>> => \E h \in Handlers : Unfinished(h)

LEMMA StepWatched ==
  ASSUME TypeOK, Watched, [Next]_vars
  PROVE  Watched'
  <1>. USE DEF TypeOK
  <1>1. ASSUME NEW h \in Handlers, Step(h)
        PROVE  Watched'
    <2>1. \A g \in Handlers \ {h} : pc'[g] = pc[g]
      BY <1>1 DEF Step, Drop, Enter, Select, RunCtags, NoCommand, Command, Compress,
           Compressed, CtagsEnd, Files, Listing, Listed, Tags, Parsed, Skip, Keys,
           KeyLeft, KeyDone, End, Clear, Last, Toggle, Switch, Wind, DebugEnd, Goto
    <2>2. CASE Unfinished(h)'
      BY <2>2 DEF Watched
    <2>3. CASE ~ Unfinished(h)'
      <3>1. \/ stack' = <<>>
            \/ stack' = stack /\ ~ Unfinished(h)
        BY <1>1, <2>3 DEF Step, Drop, Enter, Select, RunCtags, NoCommand, Command,
             Compress, Compressed, CtagsEnd, Files, Listing, Listed, Tags, Parsed, Skip,
             Keys, KeyLeft, KeyDone, End, Clear, Last, Toggle, Switch, Wind, DebugEnd,
             Goto, Unfinished, Working
      <3>. QED
        BY <2>1, <3>1 DEF Watched, Unfinished
    <2>. QED
      BY <2>2, <2>3
  <1>2. ASSUME NEW h \in Handlers, Event(h) \/ NeotagsVerbosity(h)
        PROVE  Watched'
    <2>1. /\ \A g \in Handlers \ {h} : pc'[g] = pc[g]
          /\ stack' = stack
          /\ ~ Unfinished(h)
      BY <1>2 DEF Event, NeotagsVerbosity, Start, Goto, Unfinished, Working
    <2>. QED
      BY <2>1 DEF Watched, Unfinished
  <1>3. CASE UNCHANGED vars
    BY <1>3 DEF vars, Watched, Unfinished
  <1>. QED
    BY <1>1, <1>2, <1>3 DEF Next, Done

(***************************************************************************)
(* However the verbosity is switched while updates run, none of their      *)
(* times is left when all have ended.                                      *)
(***************************************************************************)
THEOREM StackReleased == Spec => []NothingKept
  <1>1. Init => Watched
    BY DEF Init, Watched
  <1>2. TypeOK /\ Watched /\ [Next]_vars => Watched'
    BY StepWatched
  <1>3. Watched => NothingKept
    BY DEF Watched, NothingKept, AtRest, Unfinished, Working
  <1>. QED
    BY <1>1, <1>2, <1>3, TypeCorrect, PTL DEF Spec

-----------------------------------------------------------------------------
(***************************************************************************)
(* Steady use.  The invariant: the handler at work is alone, and the stack *)
(* holds the sections it has begun, the innermost on top; in the loop over *)
(* the keys also those that were passed over.                              *)
(***************************************************************************)
InCtags == {"ctags", "command", "compress", "compressed", "ctagsEnd"}

(* How many sections are open when _run_ctags is called. *)
Caller(h) == IF back[h] = "listed" THEN 2 ELSE 1

Shape(h) ==
    /\ \A k \in 1..Len(stack) : stack[k].by = h
    /\ pc[h] \in {"select", "files", "tags"} => Len(stack) = 1
    /\ pc[h] \in {"listing", "listed"} => Len(stack) = 2 /\ stack[2].of = "files"
    /\ pc[h] \in InCtags /\ back[h] = "listed" => stack[2].of = "files"
    /\ pc[h] = "ctags" => Len(stack) = Caller(h)
    /\ pc[h] \in InCtags \ {"ctags"} => stack[Caller(h) + 1].of = "ctags"
    /\ pc[h] \in {"command", "compress", "ctagsEnd"} => Len(stack) = Caller(h) + 1
    /\ pc[h] = "compressed" => /\ Len(stack) = Caller(h) + 2
                               /\ stack[Caller(h) + 2].of = "compress"
    /\ pc[h] = "parsed" => Len(stack) = 2 /\ stack[2].of = "parse"
    /\ pc[h] \in {"keys", "key", "end"} => Len(stack) >= 1
    /\ pc[h] = "key" => Len(stack) >= 2 /\ stack[Len(stack)].of = "key"
    /\ pc[h] \in Working \ {"clear", "last"} =>
          \A k \in 1..Len(stack) : stack[k].of = "update" <=> k = 1
    /\ pc[h] \in {"keys", "key", "end"} =>
          \A k \in 1..Len(stack) : stack[k].of \in {"update", "key"}
    /\ pc[h] = "last" => stack = <<>>

Undisturbed ==
    /\ \A h \in Handlers : pc[h] \notin {"dead", "skip"}
    /\ \A g, h \in Handlers :
          pc[g] \in Working /\ pc[h] \in Working => g = h /\ isRunning
    /\ \A h \in Handlers :
          pc[h] \in {"toggle", "switch"} =>
              \A g \in Handlers : pc[g] \notin Working \cup {"guard"}
    /\ (\A h \in Handlers : pc[h] \notin Working) => stack = <<>>

Steady ==
    steady => /\ Undisturbed
              /\ ~ verbose => stack = <<>>
              /\ verbose => \A h \in Handlers : pc[h] \in Working => Shape(h)

(* A step of the handler at work that stays at work. *)
LEMMA AtWork ==
  ASSUME TypeOK, Undisturbed, NEW h \in Handlers,
         pc[h] \in Working, NEW l \in Working \ {"skip"}, Goto(h, l), l = pc'[h],
         isRunning' = isRunning, verbose' = verbose,
         verbose => Shape(h)', ~ verbose => stack' = <<>>
  PROVE  /\ Undisturbed'
         /\ ~ verbose' => stack' = <<>>
         /\ verbose' => \A g \in Handlers : pc'[g] \in Working => Shape(g)'
  <1>1. \A g \in Handlers \ {h} : pc'[g] = pc[g] /\ pc[g] \notin Working
    BY DEF TypeOK, Undisturbed, Goto
  <1>2. pc'[h] \in Working /\ pc'[h] \notin {"skip", "dead", "toggle", "switch"}
    BY DEF Working
  <1>3. Undisturbed'
    BY <1>1, <1>2 DEF Undisturbed
  <1>. HIDE DEF Undisturbed, Shape
  <1>. QED
    BY <1>1, <1>3

(* A step of the handler at work that ends it, with an empty stack. *)
LEMMA AtEnd ==
  ASSUME TypeOK, Undisturbed, NEW h \in Handlers,
         pc[h] \in Working, Goto(h, "idle"), verbose' = verbose, stack' = <<>>
  PROVE  /\ Undisturbed'
         /\ ~ verbose' => stack' = <<>>
         /\ verbose' => \A g \in Handlers : pc'[g] \in Working => Shape(g)'
  <1>1. \A g \in Handlers \ {h} : pc'[g] = pc[g] /\ pc[g] \notin Working
    BY DEF TypeOK, Undisturbed, Goto
  <1>2. pc'[h] = "idle" /\ "idle" \notin Working
    BY DEF TypeOK, Goto, Working
  <1>3. \A g \in Handlers : pc'[g] \notin Working
    BY <1>1, <1>2
  <1>. HIDE DEF Shape
  <1>. QED
    BY <1>1, <1>2, <1>3 DEF Undisturbed

(* What a section that begins adds to the stack. *)
Added(h, s) ==
    /\ Len(stack') = Len(stack) + 1
    /\ \A k \in 1..Len(stack) : stack'[k] = stack[k]
    /\ stack'[Len(stack) + 1].by = h
    /\ stack'[Len(stack) + 1].of = s
    /\ \A k \in 1..Len(stack') : k \in 1..Len(stack) \/ k = Len(stack) + 1

LEMMA StartAdds ==
  ASSUME TypeOK, verbose, NEW h \in Handlers, NEW s \in Sections, DebugStart(h, s)
  PROVE  Added(h, s)
  <1>1. /\ Len(stack') = Len(stack) + 1
        /\ \A k \in 1..Len(stack) : stack'[k] = stack[k]
        /\ stack'[Len(stack) + 1] = [by |-> h, of |-> s]
    BY Push DEF TypeOK
  <1>2. Len(stack) \in Nat
    BY DEF TypeOK
  <1>. QED
    BY <1>1, <1>2 DEF Added

(* The steps of the handler at work that begin a section. *)
LEMMA Begins ==
  ASSUME TypeOK, NEW h \in Handlers, verbose, Shape(h),
         RunCtags(h) \/ Compress(h) \/ Files(h) \/ Keys(h)
  PROVE  Shape(h)'
  <1>0. Len(stack) \in Nat /\ pc \in [Handlers -> Labels]
    BY DEF TypeOK
  <1>1. CASE RunCtags(h)
    <2>1. pc[h] = "ctags" /\ pc'[h] = "command" /\ back' = back
      BY <1>0, <1>1 DEF RunCtags, Goto, Inside
    <2>2. Added(h, "ctags")
      BY <1>1, StartAdds DEF RunCtags, Sections
    <2>. QED
      BY <1>0, <2>1, <2>2 DEF Added, Shape, InCtags, Caller, Working
  <1>2. CASE Compress(h)
    <2>1. pc[h] = "compress" /\ pc'[h] = "compressed" /\ back' = back
      BY <1>0, <1>2 DEF Compress, Goto, Inside
    <2>2. Added(h, "compress")
      BY <1>2, StartAdds DEF Compress, Sections
    <2>. QED
      BY <1>0, <2>1, <2>2 DEF Added, Shape, InCtags, Caller, Working
  <1>3. CASE Files(h)
    <2>1. pc[h] = "files" /\ pc'[h] = "listing"
      BY <1>0, <1>3 DEF Files, Goto
    <2>2. Added(h, "files")
      BY <1>3, StartAdds DEF Files, Sections
    <2>3. Len(stack) = 1
      BY <2>1 DEF Shape
    <2>4. /\ Len(stack') = 2
          /\ stack'[1] = stack[1]
          /\ stack'[2].by = h /\ stack'[2].of = "files"
      BY <2>2, <2>3 DEF Added
    <2>5. stack[1].by = h /\ stack[1].of = "update"
      BY <2>1, <2>3 DEF Shape, Working
    <2>. QED
      BY <2>1, <2>4, <2>5 DEF Shape, InCtags, Working
  <1>4. CASE Keys(h) /\ pc'[h] = "key"
    <2>1. pc[h] = "keys" /\ DebugStart(h, "key")
      BY <1>0, <1>4 DEF Keys, Goto
    <2>2. Added(h, "key")
      BY <2>1, StartAdds DEF Sections
    <2>. QED
      BY <1>0, <1>4, <2>1, <2>2 DEF Added, Shape, InCtags, Working
  <1>5. CASE Keys(h) /\ pc'[h] # "key"
    <2>1. pc[h] = "keys" /\ pc'[h] = "end" /\ stack' = stack
      BY <1>0, <1>5 DEF Keys, Goto
    <2>. QED
      BY <2>1 DEF Shape, InCtags, Working
  <1>. QED
    BY <1>1, <1>2, <1>3, <1>4, <1>5

(* The labels at which the handler at work pops, and what it goes on to. *)
Pops(h, l) ==
    \/ pc[h] \in {"command", "ctagsEnd"} /\ l = back[h]
    \/ pc[h] = "compressed" /\ l = "ctagsEnd"
    \/ pc[h] = "listed" /\ l = "tags"
    \/ pc[h] = "parsed" /\ l = "keys"
    \/ pc[h] = "key" /\ l \in {"keys", "end"}
    \/ pc[h] = "end" /\ l = "clear"

LEMMA TopIsThere ==
  ASSUME TypeOK, NEW h \in Handlers, verbose, Shape(h), NEW l, Pops(h, l)
  PROVE  stack # <<>>
  <1>1. Len(stack) > 0
    BY DEF TypeOK, Pops, Shape, Caller, InCtags
  <1>. QED
    BY <1>1

(* The steps of the handler at work that end a section. *)
LEMMA EndsOne ==
  ASSUME TypeOK, NEW h \in Handlers, verbose, Shape(h), NEW l, Pops(h, l),
         DebugEnd(h, l), back' = back
  PROVE  pc'[h] = l /\ Goto(h, l) /\ Shape(h)'
  <1>. USE DEF TypeOK
  <1>1. stack # <<>>
    BY TopIsThere
  <1>2. stack' = Popped /\ Goto(h, l) /\ pc'[h] = l
    BY <1>1 DEF DebugEnd, Goto
  <1>3. /\ Len(stack') = Len(stack) - 1
        /\ \A k \in 1..(Len(stack) - 1) : stack'[k] = stack[k]
        /\ Len(stack) \in Nat \ {0}
    BY <1>1, <1>2, Pop
  <1>4. CASE pc[h] \in {"command", "ctagsEnd"}
    BY <1>2, <1>3, <1>4 DEF Pops, Shape, InCtags, Caller, Working
  <1>5. CASE pc[h] = "compressed"
    BY <1>2, <1>3, <1>5 DEF Pops, Shape, InCtags, Caller, Working
  <1>6. CASE pc[h] \in {"listed", "parsed"}
    BY <1>2, <1>3, <1>6 DEF Pops, Shape, InCtags, Working
  <1>7. CASE pc[h] \in {"key", "end"}
    BY <1>2, <1>3, <1>7 DEF Pops, Shape, InCtags, Working
  <1>. QED
    BY <1>2, <1>4, <1>5, <1>6, <1>7 DEF Pops

(***************************************************************************)
(* Every step of steady use keeps the invariant.                           *)
(***************************************************************************)
Shaped(h) == (verbose => Shape(h)) /\ (~ verbose => stack = <<>>)

(* The steps of the handler at work. *)
LEMMA WorkStep ==
  ASSUME TypeOK, steady, Undisturbed, NEW h \in Handlers, pc[h] \in Working, Shaped(h),
         Step(h)
  PROVE  /\ Undisturbed'
         /\ ~ verbose' => stack' = <<>>
         /\ verbose' => \A g \in Handlers : pc'[g] \in Working => Shape(g)'
  <1>0. /\ pc \in [Handlers -> Labels] /\ back \in [Handlers -> {"files", "listed"}]
        /\ pc[h] \notin {"idle", "guard", "toggle", "switch", "dead", "skip"}
    BY DEF TypeOK, Undisturbed, Working
  <1>1. CASE RunCtags(h) \/ Compress(h) \/ Files(h) \/ Keys(h)
    <2>1. PICK l \in Working \ {"skip"} :
             Goto(h, l) /\ l = pc'[h] /\ isRunning' = isRunning /\ verbose' = verbose
      BY <1>0, <1>1 DEF RunCtags, Compress, Files, Keys, Goto, Inside, Working
    <2>2. verbose => Shape(h)'
      BY <1>1, Begins DEF Shaped
    <2>3. ~ verbose => stack' = <<>>
      BY <1>1 DEF Shaped, RunCtags, Compress, Files, Keys, DebugStart
    <2>. QED
      BY <2>1, <2>2, <2>3, AtWork
  <1>2. CASE Tags(h)
    <2>1. PICK l \in {"keys", "parsed"} :
             /\ Goto(h, l) /\ l = pc'[h] /\ isRunning' = isRunning /\ verbose' = verbose
             /\ IF l = "keys" THEN stack' = stack ELSE DebugStart(h, "parse")
      BY <1>0, <1>2 DEF Tags, Goto, Inside
    <2>2. ASSUME verbose
          PROVE  Shape(h)'
      <3>1. pc[h] = "tags" /\ Shape(h) /\ Len(stack) = 1
        BY <1>2, <2>2 DEF Tags, Shaped, Shape
      <3>2. stack[1].by = h /\ stack[1].of = "update"
        BY <3>1 DEF Shape, Working
      <3>3. CASE l = "keys"
        <4>1. /\ Len(stack') = 1
              /\ \A k \in 1..1 : stack'[k].by = h /\ stack'[k].of = "update"
          BY <2>1, <3>1, <3>2, <3>3
        <4>. QED
          BY <2>1, <3>3, <4>1 DEF Shape, InCtags, Working
      <3>4. CASE l = "parsed"
        <4>1. Added(h, "parse")
          BY <2>1, <2>2, <3>4, StartAdds DEF Sections
        <4>2. /\ Len(stack') = 2
              /\ stack'[1] = stack[1]
              /\ stack'[2].by = h /\ stack'[2].of = "parse"
          BY <3>1, <4>1 DEF Added
        <4>. QED
          BY <2>1, <3>2, <3>4, <4>2 DEF Shape, InCtags, Working
      <3>. QED
        BY <3>3, <3>4
    <2>3. ~ verbose => stack' = <<>>
      BY <2>1 DEF Shaped, DebugStart
    <2>. QED
      BY <2>1, <2>2, <2>3, AtWork DEF Working
  <1>3. CASE NoCommand(h) \/ Compressed(h) \/ CtagsEnd(h) \/ Listed(h) \/ Parsed(h)
             \/ KeyDone(h)
    <2>1. PICK l : /\ Pops(h, l) /\ DebugEnd(h, l)
                   /\ isRunning' = isRunning /\ verbose' = verbose /\ back' = back
      BY <1>3 DEF NoCommand, Compressed, CtagsEnd, Listed, Parsed, KeyDone, Pops, Inside
    <2>2. l \in Working \ {"skip"}
      BY <1>0, <1>3, <2>1 DEF Pops, Working, NoCommand, Compressed, CtagsEnd, Listed,
           Parsed, KeyDone
    <2>3. verbose => pc'[h] = l /\ Goto(h, l) /\ Shape(h)'
      BY <2>1, EndsOne DEF Shaped
    <2>4. ~ verbose => pc'[h] = l /\ Goto(h, l) /\ stack' = <<>>
      BY <1>0, <2>1 DEF Shaped, DebugEnd, Goto
    <2>. QED
      BY <2>1, <2>2, <2>3, <2>4, AtWork
  <1>4. CASE Select(h) \/ Listing(h) \/ Command(h) \/ KeyLeft(h)
    <2>1. PICK l \in Working \ {"skip"} :
             /\ Goto(h, l) /\ l = pc'[h] /\ isRunning' = isRunning /\ verbose' = verbose
             /\ stack' = stack
      BY <1>0, <1>4 DEF Select, Listing, Command, KeyLeft, Goto, Inside, Working
    <2>2. ASSUME Shape(h)
          PROVE  Shape(h)'
      <3>1. CASE Select(h)
        <4>1. /\ pc[h] = "select" /\ stack' = stack
              /\ pc'[h] \in {"ctags", "files", "keys"} /\ back'[h] = "files"
          BY <1>0, <3>1 DEF Select, Goto
        <4>2. /\ Len(stack') = 1
              /\ \A k \in 1..1 : stack'[k].by = h /\ stack'[k].of = "update"
          BY <2>2, <4>1 DEF Shape, Working
        <4>. QED
          BY <4>1, <4>2 DEF Shape, InCtags, Caller, Working
      <3>2. CASE Listing(h)
        BY <1>0, <2>2, <3>2 DEF Listing, Goto, Shape, InCtags, Caller, Working
      <3>3. CASE Command(h)
        BY <1>0, <2>2, <3>3 DEF Command, Inside, Goto, Shape, InCtags, Caller, Working
      <3>4. CASE KeyLeft(h)
        BY <1>0, <2>2, <3>4 DEF KeyLeft, Inside, Goto, Shape, InCtags, Working
      <3>. QED
        BY <1>4, <3>1, <3>2, <3>3, <3>4
    <2>. QED
      BY <2>1, <2>2, AtWork DEF Shaped
  <1>5. CASE End(h)
    <2>1. CASE verbose
      <3>1. Pops(h, "clear") /\ DebugEnd(h, "clear") /\ back' = back
        BY <1>5, <2>1 DEF End, Pops
      <3>2. pc'[h] = "clear" /\ Goto(h, "clear") /\ Shape(h)'
        BY <2>1, <3>1, EndsOne DEF Shaped
      <3>. QED
        BY <1>5, <2>1, <3>2, AtWork DEF End, Working
    <2>2. CASE ~ verbose
      BY <1>5, <2>2, AtEnd DEF End, Wind
    <2>. QED
      BY <2>1, <2>2
  <1>6. CASE Clear(h)
    <2>1. CASE verbose
      <3>1. Goto(h, "last") /\ pc'[h] = "last" /\ stack' = <<>>
        BY <1>0, <1>6, <2>1 DEF Clear, Wind, Goto
      <3>2. Shape(h)'
        BY <3>1 DEF Shape, InCtags, Working
      <3>. QED
        BY <1>6, <2>1, <3>1, <3>2, AtWork DEF Clear, Wind, Working, TypeOK
    <2>2. CASE ~ verbose
      BY <1>6, <2>2, AtEnd DEF Clear, Wind
    <2>. QED
      BY <2>1, <2>2
  <1>7. CASE Last(h)
    <2>1. stack = <<>>
      BY <1>7 DEF Last, Shaped, Shape
    <2>. QED
      BY <1>7, <2>1, AtEnd DEF Last
  <1>. QED
    BY <1>0, <1>1, <1>2, <1>3, <1>4, <1>5, <1>6, <1>7
    DEF Step, Drop, Enter, Skip, Toggle, Switch

LEMMA StepSteady ==
  ASSUME TypeOK, Steady, [Next]_vars
  PROVE  Steady'
  <1>. SUFFICES ASSUME steady'
                PROVE  /\ Undisturbed'
                       /\ ~ verbose' => stack' = <<>>
                       /\ verbose' => \A g \in Handlers : pc'[g] \in Working => Shape(g)'
    BY DEF Steady
  <1>0. steady /\ Undisturbed /\ (~ verbose => stack = <<>>)
    BY DEF Steady, Next, Step, Drop, Enter, Select, RunCtags, NoCommand, Command, Compress,
       Compressed, CtagsEnd, Files, Listing, Listed, Tags, Parsed, Skip, Keys, KeyLeft,
       KeyDone, End, Clear, Last, Toggle, Switch, Event, NeotagsVerbosity, Start, Done,
       Inside, rest, vars
  <1>1. ASSUME NEW h \in Handlers, Step(h), pc[h] \in Working
        PROVE  /\ Undisturbed'
               /\ ~ verbose' => stack' = <<>>
               /\ verbose' => \A g \in Handlers : pc'[g] \in Working => Shape(g)'
    <2>1. Shaped(h)
      BY <1>0, <1>1 DEF Steady, Shaped
    <2>. QED
      BY <1>0, <1>1, <2>1, WorkStep
  <1>2. ASSUME NEW h \in Handlers, Enter(h)
        PROVE  /\ Undisturbed'
               /\ ~ verbose' => stack' = <<>>
               /\ verbose' => \A g \in Handlers : pc'[g] \in Working => Shape(g)'
    <2>1. /\ pc[h] = "guard" /\ pc'[h] = "select" /\ isRunning' = TRUE /\ verbose' = verbose
          /\ \A g \in Handlers \ {h} : pc'[g] = pc[g]
          /\ DebugStart(h, "update")
      BY <1>2 DEF Enter, Goto, TypeOK
    <2>2. \A g \in Handlers : pc[g] \notin Working
      BY <1>0, <1>2 DEF Undisturbed, Enter
    <2>3. stack = <<>>
      BY <1>0, <2>2 DEF Undisturbed
    <2>4. Undisturbed'
      BY <1>0, <2>1, <2>2 DEF Undisturbed, Working
    <2>5. ASSUME verbose
          PROVE  Shape(h)'
      <3>1. Added(h, "update")
        BY <2>1, <2>5, StartAdds DEF Sections
      <3>2. /\ Len(stack') = 1
            /\ \A k \in 1..1 : stack'[k].by = h /\ stack'[k].of = "update"
        BY <2>3, <3>1 DEF Added
      <3>. QED
        BY <2>1, <3>2 DEF Shape, InCtags, Working
    <2>6. ~ verbose => stack' = <<>>
      BY <2>1, <2>3 DEF DebugStart
    <2>. QED
      BY <2>1, <2>2, <2>4, <2>5, <2>6
  <1>3. ASSUME NEW h \in Handlers,
               Drop(h) \/ Toggle(h) \/ Switch(h) \/ Event(h) \/ NeotagsVerbosity(h)
        PROVE  /\ Undisturbed'
               /\ ~ verbose' => stack' = <<>>
               /\ verbose' => \A g \in Handlers : pc'[g] \in Working => Shape(g)'
    <2>1. /\ pc'[h] \notin Working \cup {"dead", "skip"}
          /\ pc[h] \notin Working
          /\ \A g \in Handlers \ {h} : pc'[g] = pc[g]
          /\ stack' = stack /\ isRunning' = isRunning /\ back' = back
      BY <1>3 DEF Drop, Toggle, Switch, Event, NeotagsVerbosity, Start, Goto, TypeOK,
           Working
    <2>2. CASE Toggle(h) \/ Switch(h)
      <3>1. pc[h] \in {"toggle", "switch"} /\ pc'[h] \in {"idle", "switch"}
        BY <2>2 DEF Toggle, Switch, Goto, TypeOK
      <3>2. \A g \in Handlers : pc[g] \notin Working \cup {"guard"}
        BY <1>0, <3>1 DEF Undisturbed
      <3>3. stack = <<>>
        BY <1>0, <3>2 DEF Undisturbed
      <3>4. \A g \in Handlers : pc'[g] \notin Working \cup {"guard"}
        BY <2>1, <3>1, <3>2
      <3>5. Undisturbed'
        BY <1>0, <2>1, <3>3, <3>4 DEF Undisturbed
      <3>. QED
        BY <2>1, <3>3, <3>4, <3>5
    <2>3. CASE Drop(h) \/ Event(h)
      <3>1. /\ verbose' = verbose /\ pc'[h] \in {"idle", "guard"}
            /\ pc'[h] = "guard" => \A g \in Handlers : pc[g] \notin {"toggle", "switch"}
        BY <1>0, <2>3 DEF Drop, Event, Start, Goto, TypeOK
      <3>2. Undisturbed'
        BY <1>0, <2>1, <3>1 DEF Undisturbed
      <3>3. \A g \in Handlers : pc'[g] \in Working => pc[g] \in Working /\ pc'[g] = pc[g]
        BY <2>1
      <3>4. verbose => \A g \in Handlers : pc'[g] \in Working => Shape(g)'
        BY <1>0, <2>1, <3>3 DEF Steady, Shape, Caller
      <3>. QED
        BY <1>0, <2>1, <3>1, <3>2, <3>4
    <2>4. CASE NeotagsVerbosity(h)
      <3>1. /\ verbose' = verbose /\ pc'[h] = "toggle" /\ AtRest
        BY <1>0, <2>4 DEF NeotagsVerbosity, Start, Goto, TypeOK
      <3>2. \A g \in Handlers : pc[g] \notin Working \cup {"guard"}
        BY <3>1 DEF AtRest, Working
      <3>3. \A g \in Handlers : pc'[g] \notin Working \cup {"guard"}
        BY <2>1, <3>1, <3>2
      <3>4. stack = <<>>
        BY <1>0, <3>2 DEF Undisturbed
      <3>5. Undisturbed'
        BY <1>0, <2>1, <3>3, <3>4 DEF Undisturbed
      <3>. QED
        BY <2>1, <3>3, <3>4, <3>5
    <2>. QED
      BY <1>3, <2>2, <2>3, <2>4
  <1>4. CASE UNCHANGED vars
    <2>1. \A g \in Handlers : Shape(g)' <=> Shape(g)
      BY <1>4 DEF vars, Shape, Caller
    <2>. QED
      BY <1>0, <1>4, <2>1 DEF vars, Steady, Undisturbed
  <1>5. ASSUME NEW h \in Handlers, Step(h)
        PROVE  Drop(h) \/ Enter(h) \/ Toggle(h) \/ Switch(h) \/ pc[h] \in Working
    BY <1>5 DEF Step, Select, RunCtags, NoCommand, Command, Compress, Compressed, CtagsEnd,
       Files, Listing, Listed, Tags, Parsed, Skip, Keys, KeyLeft, KeyDone, End, Clear, Last,
       Working
  <1>. QED
    BY <1>1, <1>2, <1>3, <1>4, <1>5 DEF Next, Done

LEMMA SteadyInvariant == Spec => []Steady
  <1>1. Init => Steady
    BY DEF Init, Steady, Undisturbed, Working
  <1>2. TypeOK /\ Steady /\ [Next]_vars => Steady'
    BY StepSteady
  <1>. QED
    BY <1>1, <1>2, TypeCorrect, PTL DEF Spec

(***************************************************************************)
(* With steady use no pop of an update finds the stack empty.              *)
(***************************************************************************)
THEOREM NeverRaised == Spec => []NothingRaised
  <1>1. Steady => NothingRaised
    BY DEF Steady, Undisturbed, NothingRaised
  <1>. QED
    BY <1>1, SteadyInvariant, PTL

(***************************************************************************)
(* With steady use one update at most is at work, in verbose mode too.     *)
(***************************************************************************)
THEOREM AloneAtWork == Spec => []OneAtWork
  <1>1. Steady => OneAtWork
    BY DEF Steady, Undisturbed, OneAtWork
  <1>. QED
    BY <1>1, SteadyInvariant, PTL

(***************************************************************************)
(* With steady use every section pops the time it pushed.                  *)
(***************************************************************************)
THEOREM TimesMatch == Spec => []TimesItsOwn
  <1>1. ASSUME TypeOK, Steady, steady, verbose, NEW h \in Handlers, Ends(h) # {}
        PROVE  stack # <<>> /\ Top.by = h /\ Top.of \in Ends(h)
    <2>0. pc[h] \in {"command", "ctagsEnd", "compressed", "listed", "parsed", "key", "end"}
      BY <1>1 DEF Ends
    <2>1. Shape(h)
      BY <1>1, <2>0 DEF Steady, Working
    <2>2. Len(stack) \in Nat /\ Len(stack) >= 1
      BY <1>1, <2>0, <2>1 DEF Shape, TypeOK, Caller, InCtags
    <2>3. stack # <<>> /\ Top.by = h
      BY <2>1, <2>2 DEF Shape, Top
    <2>4. CASE pc[h] \in {"command", "ctagsEnd"}
      BY <2>1, <2>4 DEF Shape, Top, Ends, InCtags, Caller
    <2>5. CASE pc[h] = "compressed"
      BY <2>1, <2>5 DEF Shape, Top, Ends, InCtags, Caller
    <2>6. CASE pc[h] \in {"listed", "parsed"}
      BY <2>1, <2>6 DEF Shape, Top, Ends
    <2>7. CASE pc[h] \in {"key", "end"}
      BY <2>1, <2>2, <2>7 DEF Shape, Top, Ends
    <2>. QED
      BY <2>0, <2>3, <2>4, <2>5, <2>6, <2>7
  <1>2. TypeOK /\ Steady => TimesItsOwn
    BY <1>1 DEF TimesItsOwn
  <1>. QED
    BY <1>2, TypeCorrect, SteadyInvariant, PTL

=============================================================================
