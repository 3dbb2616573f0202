--------------------------- MODULE NeotagsProofs ---------------------------
(***************************************************************************)
(* Proofs about Neotags, for any set of buffers, filetypes, orders and     *)
(* handlers and any bound on the user: first whatever the user does, then  *)
(* with a user who waits for the updates he has started.                   *)
(***************************************************************************)
EXTENDS Neotags, TLAPS

(* Initially every variable has its type. *)
LEMMA InitType == Init => TypeOK
  <1> USE NeotagsAssumption
  <1> SUFFICES ASSUME Init PROVE TypeOK
    OBVIOUS
  <1>1. NoEntries \in Table
    BY DEF NoEntries, Table, Entry
  <1>2. Local(FALSE) \in LocalType
    BY DEF Local, LocalType, Entry
  <1>3. pc \in [Handlers -> Labels] /\ \A h \in Handlers : pc[h] \in {"start", "idle"}
    BY DEF Init, Labels
  <1>4. hl \in [Handlers -> LocalType] /\ \A h \in Handlers : hl[h].i = 1
    BY <1>2 DEF Init, Local
  <1>5. EditorOK
    BY <1>1 DEF Init, EditorOK
  <1>6. ObjectOK
    BY <1>1 DEF Init, ObjectOK, Entry
  <1>7. LocalsOK
    BY <1>3, <1>4 DEF LocalsOK, LocalsReady, Section
  <1> QED
    BY <1>5, <1>6, <1>7 DEF TypeOK

(* What is ready stays ready for the handlers that do not move, provided   *)
(* that __cur keeps a buffer and that only the owner changes the groups.   *)
LEMMA OthersReady ==
  ASSUME TypeOK, NEW g \in Handlers, pc'[g] = pc[g], hl'[g] = hl[g],
         cur' = cur \/ cur' \in Buffers,
         Owner(g) => groups' = groups
  PROVE  LocalsReady(g)'
  <1>1. LocalsReady(g)
    BY DEF TypeOK, LocalsOK
  <1>2. pc[g] \in {"decide", "ftcheck", "apply"} => groups' = groups
    BY DEF Owner, Section
  <1> QED
    BY <1>1, <1>2 DEF LocalsReady, Section

(* The move of one handler to label l with locals r keeps LocalsOK when it *)
(* is ready there.                                                         *)
LEMMA MoveLocals ==
  ASSUME TypeOK, NEW h \in Handlers, NEW l \in Labels, NEW r \in LocalType,
         pc' = [pc EXCEPT ![h] = l], hl' = [hl EXCEPT ![h] = r],
         LocalsReady(h)',
         cur' = cur \/ cur' \in Buffers,
         groups' = groups \/ (AtMostOneOwner /\ Owner(h))
  PROVE  LocalsOK'
  <1>1. pc' \in [Handlers -> Labels] /\ hl' \in [Handlers -> LocalType]
    BY DEF TypeOK, LocalsOK
  <1>2. ASSUME NEW g \in Handlers, g # h PROVE LocalsReady(g)'
    <2>1. pc'[g] = pc[g] /\ hl'[g] = hl[g]
      BY <1>2 DEF TypeOK, LocalsOK
    <2>2. Owner(g) => groups' = groups
      BY <1>2 DEF AtMostOneOwner
    <2> QED
      BY <2>1, <2>2, OthersReady
  <1> QED
    BY <1>1, <1>2 DEF LocalsOK

(* A handler that returns or raises an exception is ready for anything.    *)
LEMMA EndLocals ==
  ASSUME TypeOK, NEW h \in Handlers, Return(h) \/ \E e \in Dead : Raise(h, e),
         cur' = cur \/ cur' \in Buffers,
         groups' = groups
  PROVE  LocalsOK'
  <1>1. Local(FALSE) \in LocalType /\ Local(FALSE).i = 1
    BY DEF Local, LocalType, Entry
  <1>2. PICK l \in {"idle"} \cup Dead : pc' = [pc EXCEPT ![h] = l]
    BY DEF Return, Raise, Goto
  <1>3. hl' = [hl EXCEPT ![h] = Local(FALSE)]
    BY DEF Return, Raise, SetLocal
  <1>4. pc'[h] = l /\ hl'[h] = Local(FALSE)
    BY <1>2, <1>3 DEF TypeOK, LocalsOK
  <1>5. LocalsReady(h)'
    BY <1>1, <1>2, <1>4 DEF LocalsReady, Section, Dead, Stale
  <1>6. l \in Labels
    BY <1>2 DEF Labels
  <1> QED
    BY <1>1, <1>2, <1>3, <1>5, <1>6, MoveLocals

(* The same for a move that leaves the locals alone. *)
LEMMA MoveLabel ==
  ASSUME TypeOK, NEW h \in Handlers, NEW l \in Labels,
         pc' = [pc EXCEPT ![h] = l], hl' = hl,
         LocalsReady(h)',
         cur' = cur \/ cur' \in Buffers,
         groups' = groups \/ (AtMostOneOwner /\ Owner(h))
  PROVE  LocalsOK'
  <1>1. hl[h] \in LocalType /\ hl' = [hl EXCEPT ![h] = hl[h]]
    BY DEF TypeOK, LocalsOK
  <1> QED
    BY <1>1, MoveLocals

(* The steps of update up to the loop over the keys. *)
LEMMA TypeBefore ==
  ASSUME TypeOK, NEW h \in Handlers,
         \/ ReadFiletype(h) \/ CheckEnabled(h) \/ Clear(h) \/ Skip(h) \/ Drop(h)
         \/ Enter(h) \/ Select(h),
         UNCHANGED listening
  PROVE  TypeOK'
  <1> USE NeotagsAssumption
  <1>0. hl[h] \in LocalType /\ LocalsReady(h) /\ pc[h] \in Labels
    BY DEF TypeOK, LocalsOK
  <1>1. CASE ReadFiletype(h)
    <2>1. EditorOK' /\ ObjectOK'
      BY <1>1 DEF ReadFiletype, TypeOK, EditorOK, ObjectOK, editor, object, caches
    <2> DEFINE r == [hl[h] EXCEPT !.ft = ft[curBuf]]
    <2>2. r \in LocalType /\ r.ft \in Filetypes /\ r.i = 1
      BY <1>0, <1>1 DEF ReadFiletype, At, TypeOK, EditorOK, LocalType, LocalsReady
    <2>3. pc'[h] = "enabled" /\ hl'[h] = r
      BY <1>1 DEF ReadFiletype, Goto, SetLocal, TypeOK, LocalsOK
    <2>4. LocalsReady(h)'
      BY <2>2, <2>3 DEF LocalsReady, Section
    <2> QED
      BY <1>1, <2>1, <2>2, <2>4, MoveLocals
         DEF ReadFiletype, Goto, SetLocal, TypeOK, Labels, object, editor, caches
  <1>2. CASE CheckEnabled(h)
    <2>1. EditorOK' /\ ObjectOK'
      BY <1>2 DEF CheckEnabled, TypeOK, EditorOK, ObjectOK, editor, object, caches
    <2>2. PICK l \in {"guard", "clear"} : pc' = [pc EXCEPT ![h] = l]
      BY <1>2 DEF CheckEnabled, Goto
    <2>3. pc'[h] = l /\ hl'[h] = hl[h]
      BY <1>2, <2>2 DEF CheckEnabled, TypeOK, LocalsOK
    <2>4. LocalsReady(h)'
      BY <1>0, <1>2, <2>2, <2>3 DEF CheckEnabled, At, LocalsReady, Section
    <2> QED
      BY <1>2, <2>1, <2>2, <2>4, MoveLabel
         DEF CheckEnabled, TypeOK, Labels, object, editor, caches
  <1>3. CASE Clear(h)
    <2>1. [op |-> "clear", ft |-> hl[h].ft] \in Message
      BY <1>0, <1>3 DEF Clear, At, LocalsReady, Message
    <2>2. EditorOK' /\ ObjectOK'
      BY <1>3, <2>1
         DEF Clear, Send, EditorUnchanged, TypeOK, EditorOK, ObjectOK, object, caches
    <2> QED
      BY <1>3, <2>2, EndLocals DEF Clear, TypeOK, object
  <1>4. CASE Skip(h) \/ Drop(h)
    <2>1. EditorOK' /\ ObjectOK'
      BY <1>4 DEF Skip, Drop, TypeOK, EditorOK, ObjectOK, editor, object, caches
    <2> QED
      BY <1>4, <2>1, EndLocals DEF Skip, Drop, TypeOK, object
  <1>5. CASE Enter(h)
    <2>1. EditorOK' /\ ObjectOK'
      BY <1>5 DEF Enter, TypeOK, EditorOK, ObjectOK, editor, caches
    <2>2. pc'[h] = "select" /\ hl'[h] = hl[h]
      BY <1>5 DEF Enter, Goto, TypeOK, LocalsOK
    <2>3. LocalsReady(h)'
      BY <1>0, <1>5, <2>2 DEF Enter, At, LocalsReady, Section
    <2> QED
      BY <1>5, <2>1, <2>3, MoveLabel DEF Enter, Goto, TypeOK, Labels
  <1>6. CASE Select(h)
    <2>0. curBuf \in Buffers
      BY DEF TypeOK, EditorOK
    <2>1. EditorOK' /\ ObjectOK'
      BY <1>6, <2>0 DEF Select, TypeOK, EditorOK, ObjectOK, editor
    <2> DEFINE r == [hl[h] EXCEPT !.number = curBuf]
    <2>2. /\ r \in LocalType /\ r.ft = hl[h].ft /\ r.number \in Buffers
          /\ r.i = hl[h].i
      BY <1>0, <2>0 DEF LocalType
    <2>3. PICK l \in {"parse", "begin"} : pc' = [pc EXCEPT ![h] = l]
      BY <1>6 DEF Select, Goto
    <2>4. pc'[h] = l /\ hl'[h] = r
      BY <1>6, <2>3 DEF Select, SetLocal, TypeOK, LocalsOK
    <2>5. LocalsReady(h)'
      BY <1>0, <1>6, <2>0, <2>2, <2>3, <2>4 DEF Select, At, LocalsReady, Section
    <2> QED
      BY <1>6, <2>0, <2>1, <2>2, <2>3, <2>5, MoveLocals
         DEF Select, SetLocal, TypeOK, Labels
  <1> QED
    BY <1>1, <1>2, <1>3, <1>4, <1>5, <1>6

(* An entry of a table of buffers and keys replaced by an entry. *)
LEMMA TableUpdate ==
  ASSUME NEW t \in Table, NEW b \in Buffers, NEW k \in Keys, NEW v \in Entry
  PROVE  [t EXCEPT ![b][k] = v] \in Table
  <1>1. [t[b] EXCEPT ![k] = v] \in [Keys -> Entry]
    BY DEF Table
  <1> QED
    BY <1>1 DEF Table

(* The end of an iteration: the next key of the same filetype, or the end. *)
LEMMA TypeAdvance ==
  ASSUME TypeOK, NEW h \in Handlers, Advance(h), pc[h] \in {"decide", "apply"},
         UNCHANGED <<groups, cur>>
  PROVE  LocalsOK' /\ isRunning' \in BOOLEAN /\ hlbuf' \in Buffers
  <1> USE NeotagsAssumption
  <1>0. hl[h] \in LocalType /\ LocalsReady(h) /\ hl[h].ft \in Filetypes
    BY DEF TypeOK, LocalsOK, LocalsReady, Section
  <1>1. CASE hl[h].i < Len(Order[hl[h].ft])
    <2> DEFINE r == [hl[h] EXCEPT !.i = @ + 1, !.val = Absent]
    <2>1. Order[hl[h].ft] \in Seq(Keys) /\ hl[h].i \in Nat \ {0}
      BY <1>0 DEF LocalType
    <2>2. hl[h].i + 1 \in DOMAIN Order[hl[h].ft]
      BY <1>1, <2>1
    <2>3. /\ r \in LocalType /\ r.ft = hl[h].ft /\ r.number = hl[h].number
          /\ r.i \in DOMAIN Order[r.ft]
      <3>1. hl[h].i + 1 \in Nat \ {0} /\ Absent \in Entry
        BY <2>1 DEF Entry
      <3>2. r.ft = hl[h].ft /\ r.number = hl[h].number /\ r.i = hl[h].i + 1
        BY <1>0 DEF LocalType
      <3>3. r \in LocalType
        BY <1>0, <3>1 DEF LocalType
      <3> QED
        BY <2>2, <3>2, <3>3
    <2>4. hl' = [hl EXCEPT ![h] = r] /\ pc' = [pc EXCEPT ![h] = "decide"]
      BY <1>1 DEF Advance, SetLocal, Goto
    <2>5. pc'[h] = "decide" /\ hl'[h] = r
      BY <2>4 DEF TypeOK, LocalsOK
    <2>6. LocalsReady(h)'
      BY <1>0, <2>3, <2>5 DEF LocalsReady, Section
    <2>7. LocalsOK'
      BY <2>3, <2>4, <2>6, MoveLocals DEF Labels
    <2> QED
      BY <1>1, <2>7 DEF Advance, TypeOK, ObjectOK
  <1>2. CASE ~(hl[h].i < Len(Order[hl[h].ft]))
    <2>1. Finish(h)
      BY <1>2 DEF Advance
    <2>2. LocalsOK'
      BY <2>1, EndLocals DEF Finish
    <2>3. cur \in Buffers
      BY <1>0 DEF LocalsReady, Section
    <2> QED
      BY <2>1, <2>2, <2>3 DEF Finish
  <1> QED
    BY <1>1, <1>2

(* _parseTags and the beginning of highlight. *)
LEMMA TypeParse ==
  ASSUME TypeOK, AtMostOneOwner, NEW h \in Handlers, Parse(h) \/ BeginHighlight(h),
         UNCHANGED listening
  PROVE  TypeOK'
  <1> USE NeotagsAssumption
  <1>0. /\ hl[h] \in LocalType /\ LocalsReady(h)
        /\ hl[h].ft \in Filetypes /\ cur \in Buffers
    BY DEF TypeOK, LocalsOK, LocalsReady, Section, Parse, BeginHighlight, At
  <1>1. CASE Parse(h)
    <2>1. [buf |-> cur, ver |-> ver[cur]] \in Value
      BY <1>0 DEF TypeOK, EditorOK, Value
    <2>2. \/ groups' = groups
          \/ \E v \in Value \cup {NoGroups} :
                /\ groups' = [groups EXCEPT ![hl[h].ft] = v]
                /\ v \in Value => Order[hl[h].ft] # <<>>
      BY <1>1, <2>1 DEF Parse
    <2>3. /\ groups' \in [Filetypes -> Entry \cup {NoGroups}]
          /\ \A f \in Filetypes : groups'[f] \in Value => Order[f] # <<>>
      BY <1>0, <2>2 DEF TypeOK, ObjectOK, Entry
    <2>4. EditorOK' /\ ObjectOK'
      BY <1>1, <2>3 DEF Parse, TypeOK, EditorOK, ObjectOK, editor, caches
    <2>5. CASE \E e \in Dead : Raise(h, e) /\ UNCHANGED groups
      BY <1>1, <2>4, <2>5, EndLocals DEF Parse, TypeOK
    <2>6. CASE ~\E e \in Dead : Raise(h, e) /\ UNCHANGED groups
      <3>1. pc' = [pc EXCEPT ![h] = "begin"] /\ hl' = hl /\ cur' = cur
        BY <1>1, <2>6 DEF Parse, Goto, Dead, Stale
      <3>2. LocalsReady(h)'
        BY <1>0, <1>1, <3>1 DEF TypeOK, LocalsOK, LocalsReady, Section, Parse, At
      <3>3. Owner(h)
        BY <1>1 DEF Parse, At, Owner, Section
      <3> QED
        BY <2>4, <3>1, <3>2, <3>3, MoveLabel DEF TypeOK, Labels
    <2> QED
      BY <2>5, <2>6
  <1>2. CASE BeginHighlight(h)
    <2>1. EditorOK' /\ ObjectOK'
      BY <1>2 DEF BeginHighlight, TypeOK, EditorOK, ObjectOK, editor, caches
    <2>2. CASE groups[hl[h].ft] \in {Absent, NoGroups}
      BY <1>2, <2>1, <2>2, EndLocals DEF BeginHighlight, TypeOK, Dead, Stale
    <2>3. CASE groups[hl[h].ft] \notin {Absent, NoGroups}
      <3>1. pc' = [pc EXCEPT ![h] = "decide"] /\ hl' = hl /\ UNCHANGED <<cur, groups>>
        BY <1>2, <2>3 DEF BeginHighlight, Goto
      <3>2. groups[hl[h].ft] \in Value
        BY <1>0, <2>3 DEF TypeOK, ObjectOK, Entry
      <3>3. Order[hl[h].ft] # <<>> /\ Order[hl[h].ft] \in Seq(Keys)
        BY <1>0, <3>2 DEF TypeOK, ObjectOK
      <3>4. hl[h].i \in DOMAIN Order[hl[h].ft]
        BY <1>0, <1>2, <3>3 DEF LocalsReady, BeginHighlight, At
      <3>5. LocalsReady(h)'
        BY <1>0, <1>2, <3>1, <3>2, <3>4
           DEF TypeOK, LocalsOK, LocalsReady, Section, BeginHighlight, At
      <3> QED
        BY <2>1, <3>1, <3>5, MoveLabel DEF TypeOK, Labels
    <2> QED
      BY <2>2, <2>3
  <1> QED
    BY <1>1, <1>2

(* _highlight: the decision, the check of the filetype and the stores. *)
LEMMA TypeHighlight ==
  ASSUME TypeOK, NEW h \in Handlers, Decide(h) \/ CheckFiletype(h) \/ Apply(h),
         UNCHANGED listening
  PROVE  TypeOK'
  <1> USE NeotagsAssumption
  <1>0. /\ hl[h] \in LocalType /\ LocalsReady(h)
        /\ hl[h].ft \in Filetypes /\ hl[h].number \in Buffers /\ cur \in Buffers
        /\ groups[hl[h].ft] \in Value /\ Key(h) \in Keys
        /\ hl[h].i \in DOMAIN Order[hl[h].ft]
    <2>1. pc[h] \in {"decide", "ftcheck", "apply"}
      BY DEF Decide, CheckFiletype, Apply, At
    <2>2. hl[h] \in LocalType /\ LocalsReady(h)
      BY DEF TypeOK, LocalsOK
    <2>3. /\ hl[h].ft \in Filetypes /\ hl[h].number \in Buffers /\ cur \in Buffers
          /\ groups[hl[h].ft] \in Value /\ hl[h].i \in DOMAIN Order[hl[h].ft]
      BY <2>1, <2>2 DEF LocalsReady, Section
    <2>4. Key(h) \in Keys
      BY <2>3 DEF Key
    <2> QED
      BY <2>2, <2>3, <2>4
  <1>1. CASE Decide(h)
    <2> DEFINE b == hl[h].number
               k == Key(h)
               v == groups[hl[h].ft]
    <2>1. EditorOK' /\ UNCHANGED <<groups, cur, seen, md5, cmd>> /\ md5Bufs' \subseteq Buffers
      BY <1>0, <1>1 DEF Decide, TypeOK, EditorOK, ObjectOK, editor
    <2>2. cmd[b][k] \in Entry
      BY <1>0 DEF TypeOK, ObjectOK, Table
    <2>3. CASE cmd[b][k] = Absent /\ Advance(h)
      <3>1. LocalsOK' /\ isRunning' \in BOOLEAN /\ hlbuf' \in Buffers
        BY <1>1, <2>1, <2>3, TypeAdvance DEF Decide, At
      <3> QED
        BY <2>1, <3>1 DEF TypeOK, ObjectOK
    <2>4. ASSUME NEW l \in {"apply", "ftcheck"}, NEW w \in Value,
                 SetLocal(h, [hl[h] EXCEPT !.val = w]), Goto(h, l),
                 UNCHANGED <<isRunning, hlbuf>>
          PROVE  TypeOK'
      <3> DEFINE r == [hl[h] EXCEPT !.val = w]
      <3>1. /\ r \in LocalType /\ r.ft = hl[h].ft /\ r.number = hl[h].number
            /\ r.i = hl[h].i /\ r.val = w
        BY <1>0 DEF LocalType, Entry
      <3>2. hl' = [hl EXCEPT ![h] = r] /\ pc' = [pc EXCEPT ![h] = l]
        BY <2>4 DEF SetLocal, Goto
      <3>3. hl'[h] = r /\ pc'[h] = l
        BY <3>2 DEF TypeOK, LocalsOK
      <3>4. LocalsReady(h)'
        BY <1>0, <2>1, <3>1, <3>3 DEF LocalsReady, Section
      <3>5. LocalsOK'
        BY <2>1, <3>1, <3>2, <3>4, MoveLocals DEF Labels
      <3> QED
        BY <2>1, <2>4, <3>5 DEF TypeOK, ObjectOK
    <2>5. \/ cmd[b][k] = Absent /\ Advance(h)
          \/ /\ cmd[b][k] # Absent
             /\ SetLocal(h, [hl[h] EXCEPT !.val = cmd[b][k]]) /\ Goto(h, "apply")
             /\ UNCHANGED <<isRunning, hlbuf>>
          \/ /\ SetLocal(h, [hl[h] EXCEPT !.val = v]) /\ Goto(h, "ftcheck")
             /\ UNCHANGED <<isRunning, hlbuf>>
          \/ /\ \E e \in Dead : Raise(h, e)
             /\ UNCHANGED <<isRunning, hlbuf>>
      BY <1>1 DEF Decide, Dead
    <2>6. CASE /\ cmd[b][k] # Absent
               /\ SetLocal(h, [hl[h] EXCEPT !.val = cmd[b][k]]) /\ Goto(h, "apply")
               /\ UNCHANGED <<isRunning, hlbuf>>
      <3>1. cmd[b][k] \in Value
        BY <2>2, <2>6 DEF Entry
      <3> QED
        BY <2>4, <2>6, <3>1
    <2>7. CASE /\ SetLocal(h, [hl[h] EXCEPT !.val = v]) /\ Goto(h, "ftcheck")
               /\ UNCHANGED <<isRunning, hlbuf>>
      BY <1>0, <2>4, <2>7
    <2>8. CASE /\ \E e \in Dead : Raise(h, e)
               /\ UNCHANGED <<isRunning, hlbuf>>
      BY <2>1, <2>8, EndLocals DEF TypeOK, ObjectOK
    <2> QED
      BY <2>3, <2>5, <2>6, <2>7, <2>8
  <1>2. CASE CheckFiletype(h)
    <2>1. EditorOK' /\ UNCHANGED <<groups, cur, seen, md5Bufs, cmd>>
      BY <1>2 DEF CheckFiletype, TypeOK, EditorOK, editor
    <2>2. hl[h].val \in Value
      BY <1>0, <1>2 DEF CheckFiletype, At, LocalsReady
    <2>3. md5' \in Table
      BY <1>0, <1>2, <2>2, TableUpdate DEF CheckFiletype, TypeOK, ObjectOK, Entry
    <2>4. isRunning' \in BOOLEAN /\ hlbuf' \in Buffers
      BY <1>0, <1>2 DEF CheckFiletype, Finish, TypeOK, ObjectOK
    <2>5. ObjectOK'
      BY <2>1, <2>3, <2>4 DEF TypeOK, ObjectOK
    <2>6. CASE Return(h) \/ Raise(h, "nodict")
      BY <2>1, <2>5, <2>6, EndLocals DEF TypeOK, Dead, Stale
    <2>7. CASE Goto(h, "apply") /\ UNCHANGED hl
      <3>1. pc' = [pc EXCEPT ![h] = "apply"] /\ pc'[h] = "apply" /\ hl'[h] = hl[h]
        BY <2>7 DEF Goto, TypeOK, LocalsOK
      <3>2. LocalsReady(h)'
        BY <1>0, <2>1, <2>2, <3>1 DEF LocalsReady, Section
      <3> QED
        BY <2>1, <2>5, <2>7, <3>1, <3>2, MoveLabel DEF TypeOK, Labels
    <2> QED
      BY <1>2, <2>6, <2>7 DEF CheckFiletype, Finish
  <1>3. CASE Apply(h)
    <2> DEFINE c == [op |-> "set", number |-> hl[h].number, key |-> Key(h),
                     val |-> hl[h].val]
    <2>1. hl[h].val \in Value
      BY <1>0, <1>3 DEF Apply, At, LocalsReady
    <2>2. c \in Message
      BY <1>0, <2>1 DEF Message
    <2>3. toVim' = toVim \/ toVim' = Append(toVim, c)
      BY <1>3 DEF Apply, Send
    <2> HIDE DEF c
    <2>4. toVim' \in Seq(Message)
      <3>1. toVim \in Seq(Message)
        BY DEF TypeOK, EditorOK
      <3>2. Append(toVim, c) \in Seq(Message)
        BY <2>2, <3>1
      <3> QED
        BY <2>3, <3>1, <3>2
    <2>5. EditorOK'
      BY <1>3, <2>4 DEF Apply, EditorUnchanged, TypeOK, EditorOK
    <2>6. cmd' \in Table
      BY <1>0, <1>3, <2>1, TableUpdate DEF Apply, TypeOK, ObjectOK, Entry
    <2>7. LocalsOK' /\ isRunning' \in BOOLEAN /\ hlbuf' \in Buffers
      BY <1>3, TypeAdvance DEF Apply, At
    <2> QED
      BY <1>3, <2>5, <2>6, <2>7 DEF Apply, TypeOK, ObjectOK
  <1> QED
    BY <1>1, <1>2, <1>3

(* toggle. *)
LEMMA TypeToggle ==
  ASSUME TypeOK, NEW h \in Handlers, ToggleRead(h) \/ Enable(h) \/ Disable(h),
         UNCHANGED listening
  PROVE  TypeOK'
  <1>0. hl[h] \in LocalType /\ LocalsReady(h) /\ hl[h].i = 1
    BY DEF TypeOK, LocalsOK, LocalsReady, ToggleRead, Enable, Disable, At
  <1>1. NoEntries \in Table
    BY DEF NoEntries, Table, Entry
  <1>2. EditorOK'
    BY DEF ToggleRead, Enable, Disable, TypeOK, EditorOK, editor
  <1>3. ObjectOK' /\ UNCHANGED <<groups, cur>>
    BY <1>1 DEF ToggleRead, Enable, Disable, TypeOK, ObjectOK, object, caches
  <1>4. PICK l \in {"enable", "disable", "start"} : pc' = [pc EXCEPT ![h] = l]
    BY DEF ToggleRead, Enable, Disable, Goto
  <1>5. pc'[h] = l /\ hl'[h] = hl[h] /\ hl' = hl
    BY <1>4 DEF ToggleRead, Enable, Disable, TypeOK, LocalsOK
  <1>6. LocalsReady(h)'
    BY <1>0, <1>4, <1>5 DEF LocalsReady, Section
  <1>7. l \in Labels
    BY <1>4 DEF Labels
  <1> QED
    BY <1>2, <1>3, <1>4, <1>5, <1>6, <1>7, MoveLabel DEF TypeOK

(* The editor executes a notification. *)
LEMMA TypeExec == ASSUME TypeOK, ExecCommand PROVE TypeOK'
  <1> USE NeotagsAssumption
  <1>1. Head(toVim) \in Message /\ Tail(toVim) \in Seq(Message)
    BY DEF ExecCommand, TypeOK, EditorOK
  <1>2. curBuf \in Buffers /\ syn[curBuf] \in [Keys -> Entry]
    BY DEF TypeOK, EditorOK, Table
  <1> DEFINE c == Head(toVim)
             cleared == [k \in Keys |->
                           IF \E i \in DOMAIN Order[c.ft] : Order[c.ft][i] = k
                           THEN Absent ELSE syn[curBuf][k]]
             stored == [syn[curBuf] EXCEPT ![c.key] = c.val]
             rules == IF c.op = "set" THEN stored ELSE cleared
  <1>3. cleared \in [Keys -> Entry]
    BY <1>2 DEF Entry
  <1>4. c.op = "set" => c.val \in Entry
    BY <1>1 DEF Message, Entry
  <1>5. c.op = "set" => stored \in [Keys -> Entry]
    BY <1>2, <1>4
  <1>6. rules \in [Keys -> Entry]
    BY <1>3, <1>5
  <1>7. syn' = [syn EXCEPT ![curBuf] = rules]
    BY <1>2 DEF ExecCommand
  <1> HIDE DEF rules
  <1>8. syn' \in Table
    BY <1>6, <1>7 DEF TypeOK, EditorOK, Table
  <1>9. EditorOK'
    BY <1>1, <1>8 DEF ExecCommand, TypeOK, EditorOK
  <1>10. ObjectOK'
    BY DEF ExecCommand, TypeOK, ObjectOK, object, caches
  <1>11. LocalsOK'
    BY DEF ExecCommand, TypeOK, LocalsOK, LocalsReady, Section, object
  <1> QED
    BY <1>9, <1>10, <1>11 DEF TypeOK

(* A greenlet begins at toggle. *)
LEMMA TypeStart ==
  ASSUME TypeOK, Start("toggle", FALSE), UNCHANGED <<groups, cur>>
  PROVE  LocalsOK'
  <1>1. PICK h \in Handlers : Goto(h, "toggle") /\ SetLocal(h, Local(FALSE))
    BY DEF Start
  <1>2. Local(FALSE) \in LocalType /\ Local(FALSE).i = 1
    BY DEF Local, LocalType, Entry
  <1>3. pc' = [pc EXCEPT ![h] = "toggle"] /\ hl' = [hl EXCEPT ![h] = Local(FALSE)]
    BY <1>1 DEF Goto, SetLocal
  <1>4. pc'[h] = "toggle" /\ hl'[h] = Local(FALSE)
    BY <1>3 DEF TypeOK, LocalsOK
  <1>5. LocalsReady(h)'
    BY <1>2, <1>4 DEF LocalsReady, Section
  <1> QED
    BY <1>2, <1>3, <1>5, MoveLocals DEF Labels

(* The handlers that events start begin at update; the others stay.        *)
LEMMA Notified ==
  ASSUME TypeOK, NEW events, Notify(events), NEW h \in Handlers
  PROVE  \/ pc'[h] = pc[h] /\ hl'[h] = hl[h]
         \/ /\ listening /\ pc[h] = "idle" /\ pc'[h] = "start"
            /\ hl'[h] \in {Local(TRUE), Local(FALSE)}
            /\ events \subseteq Forcing => hl'[h] = Local(TRUE)
  <1>1. CASE ~listening
    BY <1>1 DEF Notify
  <1>2. CASE listening
    <2>1. PICK w \in [events -> {g \in Handlers : pc[g] = "idle"}] :
             /\ pc' = [g \in Handlers |->
                          IF \E e \in events : w[e] = g THEN "start" ELSE pc[g]]
             /\ hl' = [g \in Handlers |->
                          IF \E e \in events : w[e] = g
                          THEN Local(\E e \in events \cap Forcing : w[e] = g) ELSE hl[g]]
      BY <1>2 DEF Notify
    <2>2. CASE \E e \in events : w[e] = h
      <3> DEFINE f == \E e \in events \cap Forcing : w[e] = h
      <3>1. pc[h] = "idle" /\ pc'[h] = "start" /\ hl'[h] = Local(f)
        BY <2>1, <2>2
      <3>2. events \subseteq Forcing => f
        BY <2>2
      <3>3. Local(f) \in {Local(TRUE), Local(FALSE)}
        <4>1. f = TRUE \/ f = FALSE
          OBVIOUS
        <4> QED
          BY <4>1
      <3>4. f => Local(f) = Local(TRUE)
        <4>1. f => f = TRUE
          OBVIOUS
        <4> QED
          BY <4>1
      <3> QED
        BY <1>2, <3>1, <3>2, <3>3, <3>4
    <2>3. CASE ~\E e \in events : w[e] = h
      BY <2>1, <2>3
    <2> QED
      BY <2>2, <2>3
  <1> QED
    BY <1>1, <1>2

(* Every event wakes a handler. *)
LEMMA NotifiesOne ==
  ASSUME TypeOK, NEW events, NEW e \in events, Notify(events), listening
  PROVE  \E h \in Handlers : pc'[h] = "start"
  <1>1. PICK w \in [events -> {g \in Handlers : pc[g] = "idle"}] :
           pc' = [g \in Handlers |->
                    IF \E d \in events : w[d] = g THEN "start" ELSE pc[g]]
    BY DEF Notify
  <1>2. w[e] \in Handlers /\ pc'[w[e]] = "start"
    BY <1>1
  <1> QED
    BY <1>2

(* Its functions are again functions on the handlers. *)
LEMMA TypeNotify ==
  ASSUME TypeOK, NEW events, Notify(events), UNCHANGED <<groups, cur>>
  PROVE  LocalsOK'
  <1>1. \A f \in BOOLEAN : Local(f) \in LocalType /\ Local(f).i = 1
    BY DEF Local, LocalType, Entry
  <1>2. ASSUME NEW h \in Handlers
        PROVE  pc'[h] \in Labels /\ hl'[h] \in LocalType /\ LocalsReady(h)'
    <2>1. CASE pc'[h] = pc[h] /\ hl'[h] = hl[h]
      BY <2>1, OthersReady DEF TypeOK, LocalsOK
    <2>2. CASE ~(pc'[h] = pc[h] /\ hl'[h] = hl[h])
      <3>1. pc'[h] = "start" /\ hl'[h] \in {Local(TRUE), Local(FALSE)}
        BY <2>2, Notified
      <3> QED
        BY <1>1, <3>1 DEF Labels, LocalsReady, Section
    <2> QED
      BY <2>1, <2>2
  <1>3. \/ pc' = pc /\ hl' = hl
        \/ /\ pc' = [h \in Handlers |-> pc'[h]]
           /\ hl' = [h \in Handlers |-> hl'[h]]
    BY DEF Notify
  <1>4. pc' = [h \in Handlers |-> pc'[h]] /\ hl' = [h \in Handlers |-> hl'[h]]
    BY <1>3 DEF TypeOK, LocalsOK
  <1>5. pc' \in [Handlers -> Labels] /\ hl' \in [Handlers -> LocalType]
    BY <1>2, <1>4
  <1> QED
    BY <1>2, <1>5 DEF LocalsOK

(* The user. *)
LEMMA TypeUser == ASSUME TypeOK, User PROVE TypeOK'
  <1> USE NeotagsAssumption
  <1>0. ObjectOK' /\ UNCHANGED <<groups, cur>>
    BY DEF User, EnterBuffer, ReloadBuffer, SaveBuffer, SetFiletype, CallToggle,
           WipeBuffer, TypeOK, ObjectOK, object, caches
  <1>1. acts' \in 0..MaxActs /\ enabled' \in BOOLEAN /\ toVim' \in Seq(Message)
    <2>1. acts' = acts + 1 /\ acts < MaxActs
      BY DEF User, UserMay, EnterBuffer, ReloadBuffer, SaveBuffer, SetFiletype,
             CallToggle, WipeBuffer
    <2>2. UNCHANGED <<enabled, toVim>>
      BY DEF User, EnterBuffer, ReloadBuffer, SaveBuffer, SetFiletype,
             CallToggle, WipeBuffer
    <2>3. acts \in 0..MaxActs /\ enabled \in BOOLEAN /\ toVim \in Seq(Message)
      BY DEF TypeOK, EditorOK
    <2>4. acts' \in 0..MaxActs
      BY <2>1, <2>3
    <2> QED
      BY <2>2, <2>3, <2>4
  <1>2. curBuf' \in Buffers /\ wiped' \subseteq Buffers
    BY DEF User, EnterBuffer, ReloadBuffer, SaveBuffer, SetFiletype,
           CallToggle, WipeBuffer, TypeOK, EditorOK
  <1>3. ver' \in [Buffers -> 0..MaxVersion]
    <2>1. ver \in [Buffers -> 0..MaxVersion] /\ curBuf \in Buffers
      BY DEF TypeOK, EditorOK
    <2>2. CASE SaveBuffer
      <3>1. ver[curBuf] + 1 \in 0..MaxVersion
        BY <2>1, <2>2 DEF SaveBuffer
      <3>2. ver' = [ver EXCEPT ![curBuf] = ver[curBuf] + 1]
        BY <2>1, <2>2 DEF SaveBuffer
      <3> QED
        BY <2>1, <3>1, <3>2
    <2>3. CASE ReloadBuffer
      <3>1. PICK b \in Buffers : \E n \in {ver[b], ver[b] + 1} :
               n <= MaxVersion /\ ver' = [ver EXCEPT ![b] = n]
        BY <2>3 DEF ReloadBuffer
      <3>2. PICK n \in {ver[b], ver[b] + 1} :
               n <= MaxVersion /\ ver' = [ver EXCEPT ![b] = n]
        BY <3>1
      <3>3. n \in 0..MaxVersion
        BY <2>1, <3>2
      <3> QED
        BY <2>1, <3>2, <3>3
    <2>4. CASE UNCHANGED ver
      BY <2>1, <2>4
    <2> QED
      BY <2>2, <2>3, <2>4 DEF User, EnterBuffer, SetFiletype, CallToggle, WipeBuffer
  <1>4. ft' \in [Buffers -> Filetypes]
    BY DEF User, EnterBuffer, ReloadBuffer, SaveBuffer, SetFiletype,
           CallToggle, WipeBuffer, TypeOK, EditorOK
  <1>5. syn' \in Table
    <2>1. [k \in Keys |-> Absent] \in [Keys -> Entry]
      BY DEF Entry
    <2>2. \/ syn' = syn
          \/ \E b \in Buffers : syn' = [syn EXCEPT ![b] = [k \in Keys |-> Absent]]
      BY DEF User, EnterBuffer, ReloadBuffer, SaveBuffer, SetFiletype,
             CallToggle, WipeBuffer, TypeOK, EditorOK
    <2> QED
      BY <2>1, <2>2 DEF TypeOK, EditorOK, Table
  <1>6. EditorOK'
    <2>1. listening' \in BOOLEAN
      BY DEF User, UserMay, EnterBuffer, ReloadBuffer, SaveBuffer, SetFiletype,
             CallToggle, WipeBuffer, TypeOK, EditorOK
    <2> QED
      BY <1>1, <1>2, <1>3, <1>4, <1>5, <2>1 DEF EditorOK
  <1>7. LocalsOK'
    <2>1. CASE UNCHANGED <<pc, hl>>
      BY <1>0, <2>1 DEF TypeOK, LocalsOK, LocalsReady
    <2>2. CASE Start("toggle", FALSE)
      BY <1>0, <2>2, TypeStart
    <2>3. CASE \E events : Notify(events)
      BY <1>0, <2>3, TypeNotify
    <2> QED
      BY <2>1, <2>2, <2>3 DEF User, EnterBuffer, ReloadBuffer, SaveBuffer, SetFiletype,
         CallToggle, WipeBuffer
  <1> QED
    BY <1>0, <1>6, <1>7 DEF TypeOK

(* Every step keeps the types while there is one owner. *)
LEMMA NextType == TypeOK /\ AtMostOneOwner /\ [Next]_vars => TypeOK'
  <1> SUFFICES ASSUME TypeOK, AtMostOneOwner, [Next]_vars PROVE TypeOK'
    OBVIOUS
  <1>1. CASE \E h \in Handlers : Step(h)
    BY <1>1, TypeBefore, TypeParse, TypeHighlight, TypeToggle DEF Step
  <1>2. CASE ExecCommand
    BY <1>2, TypeExec
  <1>3. CASE User
    BY <1>3, TypeUser
  <1>4. CASE UNCHANGED vars
    BY <1>4 DEF vars, editor, object, caches, TypeOK, EditorOK, ObjectOK, LocalsOK,
                LocalsReady
  <1> QED
    BY <1>1, <1>2, <1>3, <1>4 DEF Next, Done

-----------------------------------------------------------------------------
(* The guard of update.                                                     *)

(* The user only wakes idle handlers. *)
LEMMA UserWakes ==
  ASSUME TypeOK, User, NEW h \in Handlers
  PROVE  \/ pc'[h] = pc[h] /\ hl'[h] = hl[h]
         \/ pc[h] = "idle" /\ pc'[h] \in {"start", "toggle"}
  <1>1. CASE UNCHANGED <<pc, hl>>
    BY <1>1
  <1>2. CASE Start("toggle", FALSE)
    BY <1>2 DEF Start, Goto, SetLocal, TypeOK, LocalsOK
  <1>3. CASE \E events : Notify(events)
    BY <1>3, Notified
  <1> QED
    BY <1>1, <1>2, <1>3 DEF User, EnterBuffer, ReloadBuffer, SaveBuffer, SetFiletype,
       CallToggle, WipeBuffer

(* How one handler may move without a second owner appearing. *)
LEMMA OwnerMove ==
  ASSUME TypeOK, AtMostOneOwner, NEW h \in Handlers, NEW l \in Labels,
         pc' = [pc EXCEPT ![h] = l],
         \/ ~Owner(h) /\ l \notin Section \cup Dead /\ isRunning' = isRunning
         \/ Owner(h) /\ l \in Section \cup Dead /\ isRunning' = isRunning
         \/ Owner(h) /\ l \notin Section \cup Dead
         \/ ~isRunning /\ isRunning' = TRUE
  PROVE  AtMostOneOwner'
  <1>1. pc'[h] = l /\ \A g \in Handlers \ {h} : pc'[g] = pc[g]
    BY DEF TypeOK, LocalsOK
  <1> QED
    BY <1>1 DEF AtMostOneOwner, Owner

(* A step of a handler keeps the owner unique. *)
LEMMA OwnerStep ==
  ASSUME TypeOK, AtMostOneOwner, NEW h \in Handlers, Step(h)
  PROVE  AtMostOneOwner'
  <1> USE DEF At, Goto, Return, Raise, Owner, Section, Dead, Stale, Labels
  <1>1. CASE \/ ReadFiletype(h) \/ CheckEnabled(h) \/ Clear(h) \/ Skip(h) \/ Drop(h)
             \/ ToggleRead(h) \/ Enable(h) \/ Disable(h)
    <2>1. PICK l \in Labels \ (Section \cup Dead) : pc' = [pc EXCEPT ![h] = l]
      BY <1>1 DEF ReadFiletype, CheckEnabled, Clear, Skip, Drop, ToggleRead, Enable,
                  Disable
    <2>2. isRunning' = isRunning /\ pc[h] \notin Section \cup Dead
      BY <1>1 DEF ReadFiletype, CheckEnabled, Clear, Skip, Drop, ToggleRead, Enable,
                  Disable, object
    <2> QED
      BY <2>1, <2>2, OwnerMove
  <1>2. CASE Enter(h)
    BY <1>2, OwnerMove DEF Enter
  <1>3. CASE Select(h)
    <2>1. PICK l \in {"parse", "begin"} : pc' = [pc EXCEPT ![h] = l]
      BY <1>3 DEF Select
    <2> QED
      BY <1>3, <2>1, OwnerMove DEF Select
  <1>4. CASE Parse(h)
    <2>1. PICK l \in Dead \cup {"begin"} : pc' = [pc EXCEPT ![h] = l]
      BY <1>4 DEF Parse
    <2> QED
      BY <1>4, <2>1, OwnerMove DEF Parse
  <1>5. CASE BeginHighlight(h)
    <2>1. \/ /\ pc' = [pc EXCEPT ![h] = "nogroups"] \/ pc' = [pc EXCEPT ![h] = "decide"]
             /\ isRunning' = isRunning
          \/ pc' = [pc EXCEPT ![h] = "idle"]
      BY <1>5 DEF BeginHighlight
    <2> QED
      BY <1>5, <2>1, OwnerMove DEF BeginHighlight
  <1>6. CASE Decide(h) \/ CheckFiletype(h) \/ Apply(h)
    <2>1. PICK l \in Dead \cup {"idle", "decide", "ftcheck", "apply"} :
             /\ pc' = [pc EXCEPT ![h] = l]
             /\ isRunning' = isRunning \/ l = "idle"
      BY <1>6 DEF Decide, CheckFiletype, Apply, Advance, Finish
    <2>2. Owner(h)
      BY <1>6 DEF Decide, CheckFiletype, Apply
    <2> QED
      BY <2>1, <2>2, OwnerMove
  <1> QED
    BY <1>1, <1>2, <1>3, <1>4, <1>5, <1>6 DEF Step

(* Every step keeps the owner unique; the user only wakes idle handlers. *)
LEMMA OwnerNext ==
  TypeOK /\ AtMostOneOwner /\ [Next]_vars => AtMostOneOwner'
  <1> SUFFICES ASSUME TypeOK, AtMostOneOwner, [Next]_vars PROVE AtMostOneOwner'
    OBVIOUS
  <1>1. CASE \E h \in Handlers : Step(h)
    BY <1>1, OwnerStep
  <1>2. CASE ExecCommand \/ UNCHANGED vars
    BY <1>2 DEF ExecCommand, vars, object, AtMostOneOwner, Owner
  <1>3. CASE User
    <2>1. isRunning' = isRunning
      BY <1>3 DEF User, EnterBuffer, ReloadBuffer, SaveBuffer, SetFiletype,
                  CallToggle, WipeBuffer, object
    <2>2. \A h \in Handlers : pc'[h] = pc[h] \/ pc'[h] \in {"start", "toggle"}
      BY <1>3, UserWakes
    <2> QED
      BY <2>1, <2>2 DEF AtMostOneOwner, Owner, Section, Dead, Stale
  <1> QED
    BY <1>1, <1>2, <1>3 DEF Next, Done

(* The two hold together. *)
LEMMA OwnerInvariant == Spec => [](TypeOK /\ AtMostOneOwner)
  <1>1. Init => TypeOK /\ AtMostOneOwner
    BY InitType DEF Init, AtMostOneOwner, Owner, Section, Dead, Stale
  <1>2. TypeOK /\ AtMostOneOwner /\ [Next]_vars => (TypeOK /\ AtMostOneOwner)'
    BY NextType, OwnerNext
  <1> QED
    BY <1>1, <1>2, PTL DEF Spec

(***************************************************************************)
(* In every reachable state every variable has its type and no handler is  *)
(* at a label of update, highlight or _highlight whose locals are not set. *)
(* The groups a handler works with are there because no other may set      *)
(* them, so this, too, rests on the guard.                                 *)
(***************************************************************************)
THEOREM TypeCorrect == Spec => []TypeOK
  <1> QED
    BY OwnerInvariant, PTL

(***************************************************************************)
(* At most one handler is in the guarded part of update, and the flag is   *)
(* set while one is: __is_running is a lock, although the greenlets give   *)
(* way at every request.                                                   *)
(***************************************************************************)
THEOREM MutualExclusion == Spec => []AtMostOneOwner
  <1> QED
    BY OwnerInvariant, PTL

-----------------------------------------------------------------------------
(* The two caches.                                                          *)

CacheInv == TypeOK /\ AtMostOneOwner /\ CacheCoherent /\ StoreReady

(* A handler at a label outside apply keeps the coherence when neither the  *)
(* caches nor its place among the owners of a store change.                 *)
LEMMA CacheFrame ==
  ASSUME CacheInv, UNCHANGED <<md5, cmd>>, TypeOK', AtMostOneOwner',
         \A h \in Handlers : pc[h] = "apply" \/ pc'[h] = "apply" =>
                                pc'[h] = pc[h] /\ hl'[h] = hl[h]
  PROVE  CacheCoherent' /\ StoreReady'
  <1>1. \A h \in Handlers : \A b \in Buffers : \A k \in Keys :
           Storing(h, b, k) => Storing(h, b, k)'
    BY DEF Storing, Key
  <1>2. CacheCoherent'
    BY <1>1 DEF CacheInv, CacheCoherent
  <1>3. StoreReady'
    BY DEF CacheInv, StoreReady, Key
  <1> QED
    BY <1>2, <1>3

(* The steps that leave both caches alone and do not lead to a store. *)
LEMMA CacheOtherSteps ==
  ASSUME CacheInv, TypeOK', AtMostOneOwner', NEW h \in Handlers,
         \/ ReadFiletype(h) \/ CheckEnabled(h) \/ Clear(h) \/ Skip(h) \/ Drop(h)
         \/ Enter(h) \/ Select(h) \/ Parse(h) \/ BeginHighlight(h)
         \/ ToggleRead(h) \/ Enable(h)
  PROVE  CacheCoherent' /\ StoreReady'
  <1>1. UNCHANGED <<md5, cmd>>
    BY DEF ReadFiletype, CheckEnabled, Clear, Skip, Drop, Enter, Select, Parse,
           BeginHighlight, ToggleRead, Enable, object, caches
  <1>2. PICK l \in Labels \ {"apply"} : pc' = [pc EXCEPT ![h] = l]
    BY DEF ReadFiletype, CheckEnabled, Clear, Skip, Drop, Enter, Select, Parse,
           BeginHighlight, ToggleRead, Enable, Goto, Return, Raise, Labels, Dead, Stale
  <1>3. pc[h] # "apply"
    BY DEF ReadFiletype, CheckEnabled, Clear, Skip, Drop, Enter, Select, Parse,
           BeginHighlight, ToggleRead, Enable, At
  <1>4. hl' = hl \/ \E r : hl' = [hl EXCEPT ![h] = r]
    BY DEF ReadFiletype, CheckEnabled, Clear, Skip, Drop, Enter, Select, Parse,
           BeginHighlight, ToggleRead, Enable, Return, Raise, SetLocal
  <1>5. /\ pc'[h] # "apply"
        /\ \A g \in Handlers \ {h} : pc'[g] = pc[g] /\ hl'[g] = hl[g]
    BY <1>2, <1>4 DEF CacheInv, TypeOK, LocalsOK
  <1> QED
    BY <1>1, <1>3, <1>5, CacheFrame

(* A toggle empties both caches. *)
LEMMA CacheDisable ==
  ASSUME CacheInv, TypeOK', NEW h \in Handlers, Disable(h)
  PROVE  CacheCoherent' /\ StoreReady'
  <1>1. \A b \in Buffers : \A k \in Keys : md5'[b][k] = Absent
    BY DEF Disable, NoEntries
  <1>2. \A g \in Handlers : pc'[g] = "apply" => hl'[g].number \in Buffers /\ Key(g)' \in Keys
    <2> SUFFICES ASSUME NEW g \in Handlers, pc'[g] = "apply"
                 PROVE  hl'[g].number \in Buffers /\ Key(g)' \in Keys
      OBVIOUS
    <2>1. LocalsReady(g)'
      BY DEF TypeOK, LocalsOK
    <2>2. /\ hl'[g].ft \in Filetypes /\ hl'[g].number \in Buffers
          /\ hl'[g].i \in DOMAIN Order[hl'[g].ft]
      BY <2>1 DEF LocalsReady, Section
    <2> QED
      BY <2>2, NeotagsAssumption DEF Key
  <1> QED
    BY <1>1, <1>2 DEF CacheCoherent, StoreReady

(* What a handler inside the loop over the keys knows. *)
LEMMA InLoop ==
  ASSUME CacheInv, NEW h \in Handlers, pc[h] \in {"decide", "ftcheck", "apply"}
  PROVE  /\ hl[h].ft \in Filetypes /\ hl[h].number \in Buffers /\ Key(h) \in Keys
         /\ groups[hl[h].ft] \in Value
         /\ \A g \in Handlers \ {h} : pc[g] # "apply"
         /\ pc[h] # "apply" =>
               \A b \in Buffers : \A k \in Keys : md5[b][k] \in {Absent, cmd[b][k]}
  <1>1. LocalsReady(h)
    BY DEF CacheInv, TypeOK, LocalsOK
  <1>2. /\ hl[h].ft \in Filetypes /\ hl[h].number \in Buffers
        /\ groups[hl[h].ft] \in Value /\ Key(h) \in Keys
    BY <1>1, NeotagsAssumption DEF LocalsReady, Section, Key
  <1>3. \A g \in Handlers \ {h} : pc[g] # "apply"
    BY DEF CacheInv, AtMostOneOwner, Owner, Section
  <1>4. pc[h] # "apply" =>
           \A b \in Buffers : \A k \in Keys : md5[b][k] \in {Absent, cmd[b][k]}
    BY <1>3 DEF CacheInv, CacheCoherent, Storing
  <1> QED
    BY <1>2, <1>3, <1>4

(* The decision: a hit takes the commands that the md5 sum describes. *)
LEMMA CacheDecide ==
  ASSUME CacheInv, TypeOK', NEW h \in Handlers, Decide(h)
  PROVE  CacheCoherent' /\ StoreReady'
  <1> DEFINE b == hl[h].number
             k == Key(h)
  <1>1. pc[h] = "decide"
    BY DEF Decide, At
  <1>2. \A c \in Buffers : \A j \in Keys : md5[c][j] \in {Absent, cmd[c][j]}
    BY <1>1, InLoop
  <1>3. UNCHANGED <<md5, cmd>>
    BY DEF Decide
  <1>4. CacheCoherent'
    BY <1>2, <1>3 DEF CacheCoherent
  <1>5. b \in Buffers /\ k \in Keys /\ \A g \in Handlers \ {h} : pc[g] # "apply"
    BY <1>1, InLoop
  <1>6. PICK l \in Labels : pc' = [pc EXCEPT ![h] = l]
    BY DEF Decide, Advance, Finish, Return, Raise, Goto, Labels, Dead
  <1>7. pc'[h] = l /\ \A g \in Handlers \ {h} : pc'[g] # "apply"
    BY <1>5, <1>6 DEF CacheInv, TypeOK, LocalsOK
  <1>8. l = "apply" => hl' = [hl EXCEPT ![h] = [hl[h] EXCEPT !.val = cmd[b][k]]]
    <2>1. pc \in [Handlers -> Labels]
      BY DEF CacheInv, TypeOK, LocalsOK
    <2>2. \/ SetLocal(h, [hl[h] EXCEPT !.val = cmd[b][k]])
          \/ \E m \in {"idle", "decide", "ftcheck", "nolength", "notascii"} :
                pc' = [pc EXCEPT ![h] = m]
      BY DEF Decide, Advance, Finish, Return, Raise, Goto
    <2> QED
      BY <1>7, <2>1, <2>2 DEF SetLocal
  <1>9. ASSUME l = "apply" PROVE md5'[hl'[h].number][Key(h)'] \in {Absent, hl'[h].val}
    <2>1. hl[h] \in LocalType /\ hl \in [Handlers -> LocalType]
      BY DEF CacheInv, TypeOK, LocalsOK
    <2>2. hl'[h] = [hl[h] EXCEPT !.val = cmd[b][k]]
      BY <1>8, <1>9, <2>1
    <2>3. /\ hl'[h].number = b /\ hl'[h].val = cmd[b][k]
          /\ hl'[h].ft = hl[h].ft /\ hl'[h].i = hl[h].i
      BY <2>1, <2>2 DEF LocalType
    <2>4. Key(h)' = k
      BY <2>3 DEF Key
    <2> QED
      BY <1>2, <1>3, <1>5, <2>3, <2>4
  <1>10. StoreReady'
    BY <1>7, <1>9 DEF StoreReady
  <1> QED
    BY <1>4, <1>10

(* The md5 sum is stored, and its key is about to be stored in the other.   *)
LEMMA CacheCheckFiletype ==
  ASSUME CacheInv, TypeOK', AtMostOneOwner', NEW h \in Handlers, CheckFiletype(h)
  PROVE  CacheCoherent' /\ StoreReady'
  <1> DEFINE b == hl[h].number
             k == Key(h)
  <1>1. pc[h] = "ftcheck" /\ cmd' = cmd
    BY DEF CheckFiletype, At
  <1>2. /\ b \in Buffers /\ k \in Keys /\ \A g \in Handlers \ {h} : pc[g] # "apply"
        /\ \A c \in Buffers : \A j \in Keys : md5[c][j] \in {Absent, cmd[c][j]}
    BY <1>1, InLoop
  <1>3. CASE md5' = md5 /\ (Return(h) \/ Raise(h, "nodict"))
    <2>1. PICK l \in {"idle", "nodict"} : pc' = [pc EXCEPT ![h] = l]
      BY <1>3 DEF Return, Raise, Goto
    <2>2. \A g \in Handlers : pc'[g] # "apply"
      BY <1>2, <2>1 DEF CacheInv, TypeOK, LocalsOK
    <2> QED
      BY <1>1, <1>2, <1>3, <2>2 DEF CacheCoherent, StoreReady
  <1>4. CASE md5' = [md5 EXCEPT ![b][k] = hl[h].val] /\ Goto(h, "apply") /\ hl' = hl
    <2>1. md5 \in Table /\ pc \in [Handlers -> Labels]
      BY DEF CacheInv, TypeOK, ObjectOK, LocalsOK
    <2>2. pc'[h] = "apply" /\ \A g \in Handlers \ {h} : pc'[g] # "apply"
      BY <1>2, <1>4, <2>1 DEF Goto
    <2>3. hl'[h].number = b /\ Key(h)' = k /\ hl'[h].val = hl[h].val
      BY <1>4 DEF Key
    <2>4. md5'[b][k] = hl[h].val
      BY <1>2, <1>4, <2>1 DEF Table
    <2>5. \A c \in Buffers : \A j \in Keys :
             c # b \/ j # k => md5'[c][j] = md5[c][j]
      BY <1>2, <1>4, <2>1 DEF Table
    <2>6. ASSUME NEW c \in Buffers, NEW j \in Keys
          PROVE  \/ md5'[c][j] \in {Absent, cmd'[c][j]}
                 \/ Storing(h, c, j)'
      <3>1. CASE c = b /\ j = k
        BY <2>2, <2>3, <3>1 DEF Storing
      <3>2. CASE c # b \/ j # k
        BY <1>1, <1>2, <2>5, <3>2
      <3> QED
        BY <3>1, <3>2
    <2>7. CacheCoherent'
      BY <2>6 DEF CacheCoherent
    <2>8. StoreReady'
      BY <2>2, <2>3, <2>4 DEF StoreReady
    <2> QED
      BY <2>7, <2>8
  <1> QED
    BY <1>3, <1>4 DEF CheckFiletype, Finish

(* The commands are stored: the two caches agree on the key again. *)
LEMMA CacheApply ==
  ASSUME CacheInv, TypeOK', NEW h \in Handlers, Apply(h)
  PROVE  CacheCoherent' /\ StoreReady'
  <1> DEFINE b == hl[h].number
             k == Key(h)
  <1>1. pc[h] = "apply" /\ md5' = md5 /\ cmd' = [cmd EXCEPT ![b][k] = hl[h].val]
    BY DEF Apply, At
  <1>2. b \in Buffers /\ k \in Keys /\ \A g \in Handlers \ {h} : pc[g] # "apply"
    BY <1>1, InLoop
  <1>3. PICK l \in {"idle", "decide"} : pc' = [pc EXCEPT ![h] = l]
    BY DEF Apply, Advance, Finish, Return, Goto
  <1>4. \A g \in Handlers : pc'[g] # "apply"
    BY <1>2, <1>3 DEF CacheInv, TypeOK, LocalsOK
  <1>5. cmd \in Table
    BY DEF CacheInv, TypeOK, ObjectOK
  <1>6. cmd'[b][k] = hl[h].val /\ md5[b][k] \in {Absent, hl[h].val}
    BY <1>1, <1>2, <1>5 DEF Table, CacheInv, StoreReady
  <1>7. ASSUME NEW c \in Buffers, NEW j \in Keys, c # b \/ j # k
        PROVE  md5[c][j] \in {Absent, cmd'[c][j]}
    <2>1. cmd'[c][j] = cmd[c][j]
      BY <1>1, <1>2, <1>5, <1>7 DEF Table
    <2>2. \A g \in Handlers : ~Storing(g, c, j)
      BY <1>2, <1>7 DEF Storing
    <2> QED
      BY <2>1, <2>2 DEF CacheInv, CacheCoherent
  <1>8. CacheCoherent'
    BY <1>1, <1>6, <1>7 DEF CacheCoherent
  <1> QED
    BY <1>4, <1>8 DEF StoreReady

(* Every step keeps the caches coherent. *)
LEMMA CacheNext == CacheInv /\ [Next]_vars => CacheInv'
  <1> SUFFICES ASSUME CacheInv, [Next]_vars PROVE CacheInv'
    OBVIOUS
  <1>1. TypeOK' /\ AtMostOneOwner'
    BY NextType, OwnerNext DEF CacheInv
  <1>2. CASE \E h \in Handlers : Step(h)
    <2>1. CacheCoherent' /\ StoreReady'
      BY <1>1, <1>2, CacheOtherSteps, CacheDisable, CacheDecide, CacheCheckFiletype,
         CacheApply DEF Step
    <2> QED
      BY <1>1, <2>1 DEF CacheInv
  <1>3. CASE ExecCommand \/ UNCHANGED vars
    <2>1. CacheCoherent' /\ StoreReady'
      BY <1>1, <1>3, CacheFrame DEF ExecCommand, vars, object, caches
    <2> QED
      BY <1>1, <2>1 DEF CacheInv
  <1>4. CASE User
    <2>1. UNCHANGED <<md5, cmd>>
      BY <1>4 DEF User, EnterBuffer, ReloadBuffer, SaveBuffer, SetFiletype,
                  CallToggle, WipeBuffer, object, caches
    <2>2. ASSUME NEW h \in Handlers, pc[h] = "apply" \/ pc'[h] = "apply"
          PROVE  pc'[h] = pc[h] /\ hl'[h] = hl[h]
      BY <1>4, <2>2, UserWakes DEF CacheInv
    <2>3. CacheCoherent' /\ StoreReady'
      BY <1>1, <2>1, <2>2, CacheFrame
    <2> QED
      BY <1>1, <2>3 DEF CacheInv
  <1> QED
    BY <1>2, <1>3, <1>4 DEF Next, Done

(* The invariant of the caches holds in every reachable state. *)
LEMMA CacheInvariant == Spec => []CacheInv
  <1>1. Init => CacheInv
    <2> SUFFICES ASSUME Init PROVE CacheInv
      OBVIOUS
    <2>1. TypeOK
      BY InitType
    <2>2. \A h \in Handlers : pc[h] \in {"start", "idle"}
      BY DEF Init
    <2>3. md5 = NoEntries
      BY DEF Init
    <2>4. AtMostOneOwner /\ StoreReady
      BY <2>2 DEF AtMostOneOwner, Owner, Section, Dead, Stale, StoreReady
    <2>5. CacheCoherent
      BY <2>3 DEF CacheCoherent, NoEntries
    <2> QED
      BY <2>1, <2>4, <2>5 DEF CacheInv
  <1>2. CacheInv /\ [Next]_vars => CacheInv'
    BY CacheNext
  <1> QED
    BY <1>1, <1>2, PTL DEF Spec

(***************************************************************************)
(* Outside a store, a key with a md5 sum has the commands of the group     *)
(* with that sum, whatever toggles and other updates run in between.       *)
(***************************************************************************)
THEOREM CachesAgree == Spec => []CacheCoherent
  <1>1. CacheInv => CacheCoherent
    BY DEF CacheInv
  <1> QED
    BY <1>1, CacheInvariant, PTL

(* Of a md5 sum that matches, and of commands that are there, the commands  *)
(* can be taken.                                                            *)
LEMMA CacheFinds == CacheInv => NoKeyError
  <1> SUFFICES ASSUME CacheInv, NEW h \in Handlers, pc[h] = "decide",
                      UseCache(hl[h].force, hl[h].number, Key(h), groups[hl[h].ft])
               PROVE  cmd[hl[h].number][Key(h)] # Absent
    BY DEF NoKeyError
  <1>1. /\ hl[h].number \in Buffers /\ Key(h) \in Keys /\ groups[hl[h].ft] \in Value
        /\ md5[hl[h].number][Key(h)] \in {Absent, cmd[hl[h].number][Key(h)]}
    BY InLoop
  <1>2. groups[hl[h].ft] # Absent
    BY <1>1, NeotagsAssumption
  <1> QED
    BY <1>1, <1>2 DEF UseCache

(***************************************************************************)
(* The KeyError branch of _highlight is dead code: when either disjunct of *)
(* the condition holds, the commands of the key are in __cmd_cache.        *)
(***************************************************************************)
THEOREM KeyErrorUnreachable == Spec => []NoKeyError
  <1> QED
    BY CacheFinds, CacheInvariant, PTL

-----------------------------------------------------------------------------
(***************************************************************************)
(* A user who waits for the updates he has started before he acts again:   *)
(* every theorem from here on assumes Patient.                             *)
(***************************************************************************)

(* The parts of the inductive invariant.                                    *)

Active(h) == pc[h] \notin {"idle"} \cup Dead

(* Two handlers are alive at a time only after events, not after a toggle. *)
Company ==
    \A g, h \in Handlers :
        Active(g) /\ Active(h) /\ g # h =>
            listening /\ pc[g] \notin {"toggle", "enable", "disable"}

(* What a handler has read of g:neotags_enabled still holds. *)
Switched ==
    \A h \in Handlers :
        /\ pc[h] \in {"guard", "disable"} \cup Section => enabled
        /\ pc[h] \in {"clear", "enable"} => ~enabled

(* __is_running is set by somebody. *)
FlagOwned == isRunning => \E h \in Handlers : Owner(h)

Control == Company /\ Switched /\ FlagOwned

(* What a handler has read of the current buffer still holds. *)
AtHome(h) ==
    /\ pc[h] \in {"enabled", "clear", "guard"} \cup Section => hl[h].ft = ft[curBuf]
    /\ pc[h] \in Section => ft[curBuf] \notin Ignored /\ curBuf \notin Preview
    /\ pc[h] \in Section \ {"select"} =>
           cur = curBuf /\ hl[h].number = curBuf /\ curBuf \in md5Bufs

Current == curBuf \notin wiped /\ \A h \in Handlers : AtHome(h)

(* Of handlers that are all forced, the first at the guard is going to      *)
(* parse the current buffer; this is one of them, or the one that parses.   *)
Parsing(h) ==
    \/ pc[h] = "parse"
    \/ /\ pc[h] \in {"start", "enabled", "guard", "select"}
       /\ \A g \in Handlers : Active(g) => hl[g].force

(* The filetype of a buffer that was seen has been parsed, unless the buffer *)
(* is current and is about to be parsed.                                     *)
SeenParsed ==
    /\ ~enabled => seen = {}
    /\ seen \cap Preview = {}
    /\ ~listening =>
          \A h \in Handlers : pc[h] \in {"start", "enabled", "guard", "select"} => seen = {}
    /\ listening =>
          \A b \in seen :
              \/ ft[b] \in Ignored
              \/ groups[ft[b]] # Absent
              \/ b = curBuf /\ \E h \in Handlers : Parsing(h)
    /\ \A h \in Handlers : pc[h] = "begin" => groups[hl[h].ft] # Absent

-----------------------------------------------------------------------------
(* What the steps have in common.                                           *)

(* A handler's step finds the channel empty, moves this handler only, and   *)
(* changes nothing the user sees but enabled and the channel.               *)
LEMMA StepFrame ==
  ASSUME TypeOK, NEW h \in Handlers, Step(h)
  PROVE  /\ toVim = <<>> /\ Active(h)
         /\ UNCHANGED <<curBuf, ft, ver, wiped, syn, acts, listening>>
         /\ \A g \in Handlers \ {h} : pc'[g] = pc[g] /\ hl'[g] = hl[g]
  <1>1. toVim = <<>> /\ Active(h)
    BY DEF Step, ReadFiletype, CheckEnabled, Clear, Skip, Drop, Enter, Select, Parse,
           BeginHighlight, Decide, CheckFiletype, Apply, ToggleRead, Enable, Disable,
           At, Active, Dead, Stale
  <1>2. UNCHANGED <<curBuf, ft, ver, wiped, syn, acts, listening>>
    BY DEF Step, ReadFiletype, CheckEnabled, Clear, Skip, Drop, Enter, Select, Parse,
           BeginHighlight, Decide, CheckFiletype, Apply, ToggleRead, Enable, Disable,
           editor, EditorUnchanged
  <1>3. /\ \E l : pc' = [pc EXCEPT ![h] = l]
        /\ hl' = hl \/ \E r : hl' = [hl EXCEPT ![h] = r]
    <2> USE DEF Goto, SetLocal, Return, Raise
    <2>1. CASE \/ ReadFiletype(h) \/ CheckEnabled(h) \/ Clear(h) \/ Skip(h) \/ Drop(h)
               \/ Enter(h) \/ ToggleRead(h) \/ Enable(h) \/ Disable(h)
      BY <2>1 DEF ReadFiletype, CheckEnabled, Clear, Skip, Drop, Enter, ToggleRead,
                  Enable, Disable
    <2>2. CASE Select(h) \/ Parse(h) \/ BeginHighlight(h)
      BY <2>2 DEF Select, Parse, BeginHighlight
    <2>3. CASE Decide(h) \/ CheckFiletype(h) \/ Apply(h)
      BY <2>3 DEF Decide, CheckFiletype, Apply, Advance, Finish
    <2> QED
      BY <2>1, <2>2, <2>3 DEF Step
  <1> QED
    BY <1>1, <1>2, <1>3 DEF TypeOK, LocalsOK

(* A patient user acts when no handler is alive and the channel is empty;   *)
(* he leaves the attributes alone and wakes handlers at start or toggle,    *)
(* several of them only where the autocommands are registered.              *)
LEMMA UserFrame ==
  ASSUME TypeOK, Patient, User
  PROVE  /\ toVim = <<>> /\ \A h \in Handlers : ~Active(h)
         /\ UNCHANGED <<enabled, listening, toVim, isRunning, seen, md5Bufs, md5, cmd,
                        groups, hlbuf, cur>>
         /\ \A h \in Handlers : pc'[h] = pc[h] \/ pc'[h] \in {"start", "toggle"}
         /\ \A g, h \in Handlers :
               Active(g)' /\ Active(h)' /\ g # h => listening /\ pc'[g] = "start"
  <1>1. Quiet
    BY DEF User, EnterBuffer, ReloadBuffer, SaveBuffer, SetFiletype, CallToggle,
           WipeBuffer, UserMay
  <1>2. UNCHANGED <<enabled, listening, toVim, isRunning, seen, md5Bufs, md5, cmd,
                    groups, hlbuf, cur>>
    BY DEF User, EnterBuffer, ReloadBuffer, SaveBuffer, SetFiletype, CallToggle,
           WipeBuffer, UserMay, object, caches
  <1>3. ASSUME NEW h \in Handlers
        PROVE  \/ pc'[h] = pc[h]
               \/ pc[h] = "idle" /\ pc'[h] \in {"start", "toggle"}
    BY UserWakes
  <1>4. \A h \in Handlers : ~Active(h)
    BY <1>1 DEF Quiet, Active
  <1>5. ASSUME NEW g \in Handlers, NEW h \in Handlers, Active(g)', Active(h)', g # h
        PROVE  listening /\ pc'[g] = "start"
    <2>1. CASE UNCHANGED <<pc, hl>>
      BY <1>4, <1>5, <2>1 DEF Active
    <2>2. CASE Start("toggle", FALSE)
      BY <1>4, <1>5, <2>2 DEF Start, Goto, Active, TypeOK, LocalsOK
    <2>3. CASE \E events : Notify(events)
      <3>1. pc'[g] = pc[g] \/ (listening /\ pc'[g] = "start")
        BY <2>3, Notified
      <3> QED
        BY <1>4, <1>5, <3>1 DEF Active
    <2> QED
      BY <2>1, <2>2, <2>3 DEF User, EnterBuffer, ReloadBuffer, SaveBuffer, SetFiletype,
         CallToggle, WipeBuffer
  <1> QED
    BY <1>1, <1>2, <1>3, <1>4, <1>5 DEF Quiet

-----------------------------------------------------------------------------
(* Who is where.                                                            *)

(* No step gives a handler company it did not have. *)
LEMMA CompanyNext ==
  ASSUME TypeOK, Patient, Company, [Next]_vars
  PROVE  Company'
  <1>1. ASSUME NEW h \in Handlers, Step(h) PROVE Company'
    <2>1. /\ Active(h) /\ listening' = listening
          /\ \A g \in Handlers \ {h} : pc'[g] = pc[g]
      BY <1>1, StepFrame
    <2>2. pc'[h] \in {"toggle", "enable", "disable"} => pc[h] = "toggle"
      <3> pc \in [Handlers -> Labels]
        BY DEF TypeOK, LocalsOK
      <3> USE DEF Goto, Return, Raise, Dead, Stale
      <3>1. CASE \/ ReadFiletype(h) \/ CheckEnabled(h) \/ Clear(h) \/ Skip(h) \/ Drop(h)
                 \/ Enter(h) \/ ToggleRead(h) \/ Enable(h) \/ Disable(h)
        BY <3>1 DEF ReadFiletype, CheckEnabled, Clear, Skip, Drop, Enter, ToggleRead,
                    Enable, Disable, At
      <3>2. CASE Select(h) \/ Parse(h) \/ BeginHighlight(h)
        BY <3>2 DEF Select, Parse, BeginHighlight
      <3>3. CASE Decide(h) \/ CheckFiletype(h) \/ Apply(h)
        BY <3>3 DEF Decide, CheckFiletype, Apply, Advance, Finish
      <3> QED
        BY <1>1, <3>1, <3>2, <3>3 DEF Step
    <2> QED
      BY <2>1, <2>2 DEF Company, Active, Dead, Stale
  <1>2. CASE ExecCommand \/ UNCHANGED vars
    BY <1>2 DEF ExecCommand, vars, Company, Active
  <1>3. CASE User
    <2>1. /\ listening' = listening
          /\ \A g, h \in Handlers :
                Active(g)' /\ Active(h)' /\ g # h => listening /\ pc'[g] = "start"
      BY <1>3, UserFrame
    <2> QED
      BY <2>1 DEF Company
  <1> QED
    BY <1>1, <1>2, <1>3 DEF Next, Done

(* enabled changes only while its handler is alone. *)
LEMMA SwitchedNext ==
  ASSUME TypeOK, Patient, Company, Switched, [Next]_vars
  PROVE  Switched'
  <1>1. ASSUME NEW h \in Handlers, Step(h) PROVE Switched'
    <2> USE DEF Goto, Return, Raise, At
    <2>0. pc \in [Handlers -> Labels] /\ \A g \in Handlers \ {h} : pc'[g] = pc[g]
      BY <1>1, StepFrame DEF TypeOK, LocalsOK
    <2>1. CASE Enable(h) \/ Disable(h)
      <3>1. pc'[h] = "start" /\ pc[h] \in {"enable", "disable"}
        BY <2>0, <2>1 DEF Enable, Disable
      <3>2. \A g \in Handlers \ {h} : pc'[g] \in {"idle"} \cup Dead
        BY <2>0, <3>1 DEF Company, Active, Dead, Stale
      <3> QED
        BY <3>1, <3>2 DEF Switched, Section, Dead, Stale
    <2>2. CASE ~(Enable(h) \/ Disable(h))
      <3>1. enabled' = enabled
        BY <1>1, <2>2 DEF Step, ReadFiletype, CheckEnabled, Clear, Skip, Drop, Enter,
           Select, Parse, BeginHighlight, Decide, CheckFiletype, Apply, ToggleRead,
           editor, EditorUnchanged
      <3>2. /\ pc'[h] \in {"guard", "disable"} \cup Section =>
                  enabled \/ pc[h] \in {"guard", "disable"} \cup Section
            /\ pc'[h] \in {"clear", "enable"} => ~enabled
        <4>1. CASE \/ ReadFiletype(h) \/ CheckEnabled(h) \/ Clear(h) \/ Skip(h)
                   \/ Drop(h) \/ Enter(h) \/ ToggleRead(h)
          BY <2>0, <4>1 DEF ReadFiletype, CheckEnabled, Clear, Skip, Drop, Enter,
                            ToggleRead, Section
        <4>2. CASE Select(h) \/ Parse(h) \/ BeginHighlight(h)
          BY <2>0, <4>2 DEF Select, Parse, BeginHighlight, Section
        <4>3. CASE Decide(h) \/ CheckFiletype(h) \/ Apply(h)
          BY <2>0, <4>3 DEF Decide, CheckFiletype, Apply, Advance, Finish, Section
        <4> QED
          BY <1>1, <2>2, <4>1, <4>2, <4>3 DEF Step
      <3> QED
        BY <2>0, <3>1, <3>2 DEF Switched
    <2> QED
      BY <2>1, <2>2
  <1>2. CASE ExecCommand \/ UNCHANGED vars
    BY <1>2 DEF ExecCommand, vars, editor, Switched
  <1>3. CASE User
    <2>1. /\ enabled' = enabled
          /\ \A h \in Handlers : pc'[h] = pc[h] \/ pc'[h] \in {"start", "toggle"}
      BY <1>3, UserFrame
    <2> QED
      BY <2>1 DEF Switched, Section
  <1> QED
    BY <1>1, <1>2, <1>3 DEF Next, Done

(* Only the owner resets the flag, and only Enter sets it. *)
LEMMA FlagNext ==
  ASSUME TypeOK, AtMostOneOwner, FlagOwned, Patient, [Next]_vars
  PROVE  FlagOwned'
  <1>1. ASSUME NEW h \in Handlers, Step(h), isRunning' PROVE \E g \in Handlers : Owner(g)'
    <2> USE DEF Goto, Return, Raise, At, Owner, Section, Dead, Stale
    <2>0. pc \in [Handlers -> Labels] /\ \A g \in Handlers \ {h} : pc'[g] = pc[g]
      BY <1>1, StepFrame DEF TypeOK, LocalsOK
    <2>1. Owner(h)' \/ (~Owner(h) /\ isRunning)
      <3>1. CASE \/ ReadFiletype(h) \/ CheckEnabled(h) \/ Clear(h) \/ Skip(h)
                 \/ Drop(h) \/ Enter(h) \/ ToggleRead(h) \/ Enable(h) \/ Disable(h)
        BY <1>1, <2>0, <3>1 DEF ReadFiletype, CheckEnabled, Clear, Skip, Drop, Enter,
                                ToggleRead, Enable, Disable, object
      <3>2. CASE Select(h) \/ Parse(h) \/ BeginHighlight(h)
        BY <1>1, <2>0, <3>2 DEF Select, Parse, BeginHighlight
      <3>3. CASE Decide(h) \/ CheckFiletype(h) \/ Apply(h)
        BY <1>1, <2>0, <3>3 DEF Decide, CheckFiletype, Apply, Advance, Finish
      <3> QED
        BY <1>1, <3>1, <3>2, <3>3 DEF Step
    <2> QED
      BY <2>0, <2>1 DEF FlagOwned
  <1>2. CASE ExecCommand \/ UNCHANGED vars
    BY <1>2 DEF ExecCommand, vars, object, FlagOwned, Owner
  <1>3. CASE User
    <2>1. isRunning' = isRunning /\ \A h \in Handlers : ~Active(h)
      BY <1>3, UserFrame
    <2>2. ASSUME NEW h \in Handlers, Owner(h) PROVE Owner(h)'
      <3>1. pc[h] # "idle"
        BY <2>2 DEF Owner, Section, Dead, Stale
      <3>2. pc'[h] = pc[h]
        BY <1>3, <3>1, UserWakes
      <3> QED
        BY <2>2, <3>2 DEF Owner
    <2> QED
      BY <2>1, <2>2 DEF FlagOwned
  <1> QED
    BY <1>1, <1>2, <1>3 DEF Next, Done, FlagOwned

-----------------------------------------------------------------------------
(* The current buffer.                                                      *)

(* The loop over the keys goes on with the same buffer and filetype, or ends. *)
LEMMA AdvanceKeeps ==
  ASSUME TypeOK, NEW h \in Handlers, Advance(h)
  PROVE  \/ /\ pc'[h] = "decide" /\ hl[h].i < Len(Order[hl[h].ft])
            /\ hl'[h] = [hl[h] EXCEPT !.i = @ + 1, !.val = Absent]
            /\ hl'[h].ft = hl[h].ft /\ hl'[h].number = hl[h].number
            /\ hl'[h].force = hl[h].force /\ hl'[h].i = hl[h].i + 1
            /\ UNCHANGED <<isRunning, hlbuf>>
         \/ /\ pc'[h] = "idle" /\ ~(hl[h].i < Len(Order[hl[h].ft]))
            /\ hlbuf' = cur /\ isRunning' = FALSE
  <1>0. pc \in [Handlers -> Labels] /\ hl \in [Handlers -> LocalType] /\ hl[h] \in LocalType
    BY DEF TypeOK, LocalsOK
  <1>1. CASE hl[h].i < Len(Order[hl[h].ft])
    <2> DEFINE r == [hl[h] EXCEPT !.i = @ + 1, !.val = Absent]
    <2>1. /\ pc'[h] = "decide" /\ hl' = [hl EXCEPT ![h] = r]
          /\ UNCHANGED <<isRunning, hlbuf>>
      BY <1>0, <1>1 DEF Advance, SetLocal, Goto
    <2>2. hl'[h] = r
      BY <1>0, <2>1
    <2>3. /\ r.ft = hl[h].ft /\ r.number = hl[h].number
          /\ r.force = hl[h].force /\ r.i = hl[h].i + 1
      BY <1>0 DEF LocalType
    <2> QED
      BY <1>1, <2>1, <2>2, <2>3
  <1>2. CASE ~(hl[h].i < Len(Order[hl[h].ft]))
    BY <1>0, <1>2 DEF Advance, Finish, Return, Goto
  <1> QED
    BY <1>1, <1>2

(* A handler that moves keeps what it has read of the current buffer. *)
LEMMA AtHomeStep ==
  ASSUME TypeOK, NEW h \in Handlers, AtHome(h), Step(h), UNCHANGED <<curBuf, ft>>
  PROVE  AtHome(h)'
  <1> USE DEF Goto, SetLocal, Return, Raise, At, AtHome, Section
  <1>0. /\ pc \in [Handlers -> Labels] /\ hl \in [Handlers -> LocalType]
        /\ hl[h] \in LocalType
    BY DEF TypeOK, LocalsOK
  <1>1. CASE \/ ReadFiletype(h) \/ CheckEnabled(h) \/ Clear(h) \/ Skip(h)
             \/ Drop(h) \/ ToggleRead(h) \/ Enable(h) \/ Disable(h)
    BY <1>0, <1>1 DEF ReadFiletype, CheckEnabled, Clear, Skip, Drop, ToggleRead, Enable,
                      Disable, LocalType
  <1>2. CASE Enter(h)
    BY <1>0, <1>2 DEF Enter
  <1>3. CASE Select(h)
    BY <1>0, <1>3 DEF Select, LocalType
  <1>4. CASE Parse(h) \/ BeginHighlight(h)
    BY <1>0, <1>4 DEF Parse, BeginHighlight, caches
  <1>5. CASE Decide(h)
    <2>1. pc[h] = "decide" /\ cur' = cur /\ md5Bufs \subseteq md5Bufs'
      BY <1>5 DEF Decide
    <2>2. \/ pc'[h] \in {"ftcheck", "apply"} /\ \E v : hl'[h] = [hl[h] EXCEPT !.val = v]
          \/ Advance(h)
          \/ pc'[h] \in {"nolength", "notascii"}
      BY <1>0, <1>5 DEF Decide
    <2>3. \/ pc'[h] \in {"idle", "nolength", "notascii"}
          \/ /\ pc'[h] \in {"decide", "ftcheck", "apply"}
             /\ hl'[h].ft = hl[h].ft /\ hl'[h].number = hl[h].number
      BY <1>0, <2>2, AdvanceKeeps DEF LocalType
    <2> QED
      BY <2>1, <2>3
  <1>6. CASE CheckFiletype(h) \/ Apply(h)
    <2>1. pc[h] \in {"ftcheck", "apply"} /\ cur' = cur /\ md5Bufs' = md5Bufs
      BY <1>6 DEF CheckFiletype, Apply
    <2>2. \/ pc'[h] \in {"idle", "nodict"}
          \/ pc'[h] = "apply" /\ hl'[h] = hl[h]
          \/ Advance(h)
      BY <1>0, <1>6 DEF CheckFiletype, Apply, Finish
    <2>3. \/ pc'[h] \in {"idle", "nodict"}
          \/ /\ pc'[h] \in {"decide", "apply"}
             /\ hl'[h].ft = hl[h].ft /\ hl'[h].number = hl[h].number
      BY <2>2, AdvanceKeeps
    <2> QED
      BY <2>1, <2>3
  <1> QED
    BY <1>1, <1>2, <1>3, <1>4, <1>5, <1>6 DEF Step

(* The buffer the handlers have read is still the current one: the owner    *)
(* alone sets __cur, and a toggle finds nobody who needs the dictionary.    *)
LEMMA CurrentNext ==
  ASSUME TypeOK, AtMostOneOwner, Control, Current, Patient, [Next]_vars
  PROVE  Current'
  <1>1. ASSUME NEW h \in Handlers, Step(h) PROVE Current'
    <2>1. /\ UNCHANGED <<curBuf, ft, wiped>> /\ Active(h)
          /\ \A g \in Handlers \ {h} : pc'[g] = pc[g] /\ hl'[g] = hl[g]
      BY <1>1, StepFrame
    <2>2. AtHome(h)'
      BY <1>1, <2>1, AtHomeStep DEF Current
    <2>3. ASSUME NEW g \in Handlers \ {h} PROVE AtHome(g)'
      <3>1. AtHome(g)
        BY DEF Current
      <3>2. cur' = cur \/ pc[h] = "select"
        BY <1>1 DEF Step, ReadFiletype, CheckEnabled, Clear, Skip, Drop, Enter, Select,
           Parse, BeginHighlight, Decide, CheckFiletype, Apply, ToggleRead, Enable,
           Disable, At, object
      <3>3. md5Bufs \subseteq md5Bufs' \/ pc[h] = "disable"
        BY <1>1 DEF Step, ReadFiletype, CheckEnabled, Clear, Skip, Drop, Enter, Select,
           Parse, BeginHighlight, Decide, CheckFiletype, Apply, ToggleRead, Enable,
           Disable, At, object, caches
      <3>4. pc[g] \in Section \ {"select"} => cur' = cur /\ md5Bufs \subseteq md5Bufs'
        BY <3>2, <3>3, <2>1
           DEF AtMostOneOwner, Owner, Section, Control, Company, Active, Dead, Stale
      <3> QED
        BY <2>1, <3>1, <3>4 DEF AtHome
    <2> QED
      BY <2>1, <2>2, <2>3 DEF Current
  <1>2. CASE ExecCommand \/ UNCHANGED vars
    BY <1>2 DEF ExecCommand, vars, editor, object, caches, Current, AtHome
  <1>3. CASE User
    <2>1. \A h \in Handlers : pc'[h] \in {"idle", "start", "toggle"} \cup Dead
      BY <1>3, UserFrame DEF Active
    <2>2. curBuf' \notin wiped'
      <3>1. CASE EnterBuffer \/ ReloadBuffer
        BY <3>1 DEF EnterBuffer, ReloadBuffer
      <3>2. CASE SaveBuffer \/ SetFiletype \/ CallToggle
        <4>1. curBuf' = curBuf /\ wiped' = wiped
          BY <3>2 DEF SaveBuffer, SetFiletype, CallToggle
        <4> QED
          BY <4>1 DEF Current
      <3>3. CASE WipeBuffer
        BY <3>3 DEF WipeBuffer, Current
      <3> QED
        BY <1>3, <3>1, <3>2, <3>3 DEF User
    <2> QED
      BY <2>1, <2>2 DEF Current, AtHome, Section, Dead, Stale
  <1> QED
    BY <1>1, <1>2, <1>3 DEF Next, Done

-----------------------------------------------------------------------------
(* The groups of the buffers that were seen.                                *)

Waiting == /\ TypeOK /\ AtMostOneOwner /\ Control /\ Current
           /\ Wedged \/ SeenParsed
           /\ NeverWedged

(* Where an update is under way no exception has ended one before. *)
LEMMA AwakeOwner ==
  ASSUME Waiting, NEW h \in Handlers, pc[h] \in Section
  PROVE  ~Wedged /\ SeenParsed
  <1>1. ~Wedged
    BY DEF Wedged, Waiting, AtMostOneOwner, Owner, Section, Dead, Stale
  <1> QED
    BY <1>1 DEF Waiting

(* An exception stays. *)
LEMMA WedgedStays ==
  ASSUME TypeOK, [Next]_vars, Wedged
  PROVE  Wedged'
  <1>1. PICK d \in Handlers : pc[d] \in Dead
    BY DEF Wedged
  <1>2. ASSUME NEW h \in Handlers, Step(h) PROVE pc'[d] = pc[d]
    BY <1>1, <1>2, StepFrame DEF Active
  <1>3. CASE ExecCommand \/ UNCHANGED vars
    BY <1>1, <1>3 DEF ExecCommand, vars, Wedged
  <1>4. CASE User
    <2>1. pc'[d] = pc[d]
      BY <1>1, <1>4, UserWakes DEF Dead, Stale
    <2> QED
      BY <1>1, <2>1 DEF Wedged
  <1>5. CASE \E h \in Handlers : Step(h)
    BY <1>1, <1>2, <1>5 DEF Wedged
  <1> QED
    BY <1>3, <1>4, <1>5 DEF Next, Done

(* A handler stays forced, or not, while it is alive. *)
LEMMA ForceKept ==
  ASSUME TypeOK, NEW h \in Handlers, Step(h), Active(h)'
  PROVE  hl'[h].force = hl[h].force
  <1> USE DEF Goto, SetLocal, Return, Raise, At, Active, Dead, Stale
  <1>0. /\ pc \in [Handlers -> Labels] /\ hl \in [Handlers -> LocalType]
        /\ hl[h] \in LocalType
    BY DEF TypeOK, LocalsOK
  <1>1. CASE \/ ReadFiletype(h) \/ CheckEnabled(h) \/ Clear(h) \/ Skip(h) \/ Drop(h)
             \/ Enter(h) \/ Select(h) \/ ToggleRead(h) \/ Enable(h) \/ Disable(h)
    <2>1. CASE ReadFiletype(h)
      BY <1>0, <2>1 DEF ReadFiletype, LocalType
    <2>2. CASE Select(h)
      BY <1>0, <2>2 DEF Select, LocalType
    <2>3. CASE Clear(h) \/ Skip(h) \/ Drop(h)
      BY <1>0, <2>3 DEF Clear, Skip, Drop
    <2>4. CASE CheckEnabled(h) \/ Enter(h) \/ ToggleRead(h) \/ Enable(h) \/ Disable(h)
      BY <2>4 DEF CheckEnabled, Enter, ToggleRead, Enable, Disable
    <2> QED
      BY <1>1, <2>1, <2>2, <2>3, <2>4
  <1>2. CASE Parse(h) \/ BeginHighlight(h)
    BY <1>0, <1>2 DEF Parse, BeginHighlight
  <1>3. CASE Decide(h)
    <2>1. \/ \E v : hl'[h] = [hl[h] EXCEPT !.val = v]
          \/ Advance(h)
      BY <1>0, <1>3 DEF Decide
    <2> QED
      BY <1>0, <2>1, AdvanceKeeps DEF LocalType
  <1>4. CASE CheckFiletype(h) \/ Apply(h)
    <2>1. hl'[h] = hl[h] \/ Advance(h)
      BY <1>0, <1>4 DEF CheckFiletype, Apply, Finish
    <2> QED
      BY <2>1, AdvanceKeeps
  <1> QED
    BY <1>1, <1>2, <1>3, <1>4 DEF Step

(* Groups that were parsed stay parsed. *)
LEMMA GroupsGrow ==
  ASSUME TypeOK, NEW h \in Handlers, Step(h), NEW f \in Filetypes, groups[f] # Absent
  PROVE  groups'[f] # Absent
  <1>1. CASE Parse(h)
    <2>1. cur \in Buffers /\ groups \in [Filetypes -> Entry \cup {NoGroups}]
      BY <1>1 DEF Parse, At, TypeOK, LocalsOK, LocalsReady, Section, ObjectOK
    <2>2. [buf |-> cur, ver |-> ver[cur]] \in Value
      BY <2>1 DEF TypeOK, EditorOK, Value
    <2> QED
      BY <1>1, <2>1, <2>2, NeotagsAssumption DEF Parse
  <1>2. CASE ~Parse(h)
    BY <1>2 DEF Step, ReadFiletype, CheckEnabled, Clear, Skip, Drop, Enter, Select,
       BeginHighlight, Decide, CheckFiletype, Apply, ToggleRead, Enable, Disable, object
  <1> QED
    BY <1>1, <1>2

(* After Parse the filetype of its handler is parsed. *)
LEMMA ParseSets ==
  ASSUME TypeOK, NEW h \in Handlers, Parse(h), pc'[h] \notin Dead
  PROVE  hl' = hl /\ pc'[h] = "begin" /\ groups'[hl[h].ft] # Absent
  <1>0. pc[h] = "parse" /\ pc \in [Handlers -> Labels]
    BY DEF Parse, At, TypeOK, LocalsOK
  <1>1. cur \in Buffers /\ groups \in [Filetypes -> Entry \cup {NoGroups}]
        /\ hl[h].ft \in Filetypes
    BY <1>0 DEF TypeOK, LocalsOK, LocalsReady, Section, ObjectOK
  <1>2. [buf |-> cur, ver |-> ver[cur]] \in Value
    BY <1>1 DEF TypeOK, EditorOK, Value
  <1>3. hl' = hl /\ pc'[h] = "begin"
    BY <1>0 DEF Parse, Raise, Goto, Dead, Stale
  <1>4. \E v \in Value \cup {NoGroups} : groups' = [groups EXCEPT ![hl[h].ft] = v]
    BY <1>0, <1>2, <1>3 DEF Parse, Raise, Goto
  <1> QED
    BY <1>1, <1>3, <1>4, NeotagsAssumption

(* An update that does not parse finds the groups of its filetype. *)
LEMMA SelectFinds ==
  ASSUME Waiting, NEW h \in Handlers, Select(h), pc'[h] # "parse"
  PROVE  groups[hl[h].ft] # Absent
  <1>0. pc[h] = "select" /\ pc \in [Handlers -> Labels]
    BY DEF Select, At, Waiting, TypeOK, LocalsOK
  <1>1. ~hl[h].force /\ curBuf \in seen
    BY <1>0 DEF Select, MustParse, Goto
  <1>2. SeenParsed
    BY <1>0, AwakeOwner DEF Section
  <1>3. listening
    BY <1>0, <1>1, <1>2 DEF SeenParsed
  <1>4. ~\E g \in Handlers : Parsing(g)
    <2> SUFFICES ASSUME NEW g \in Handlers, Parsing(g) PROVE FALSE
      OBVIOUS
    <2>1. Active(h) /\ Owner(h)
      BY <1>0 DEF Active, Owner, Section, Dead, Stale
    <2> QED
      BY <1>0, <1>1, <2>1 DEF Parsing, Waiting, AtMostOneOwner, Owner, Section
  <1>5. hl[h].ft = ft[curBuf] /\ ft[curBuf] \notin Ignored
    BY <1>0 DEF Waiting, Current, AtHome, Section
  <1> QED
    BY <1>1, <1>2, <1>3, <1>4, <1>5 DEF SeenParsed

(* What a step of an update needs is there. *)
LEMMA WedgeStep ==
  ASSUME Waiting, NEW h \in Handlers, Step(h)
  PROVE  pc'[h] \notin Stale
  <1> USE DEF Goto, Return, Raise, At, Stale
  <1>0. pc \in [Handlers -> Labels]
    BY DEF Waiting, TypeOK, LocalsOK
  <1>1. CASE \/ ReadFiletype(h) \/ CheckEnabled(h) \/ Clear(h) \/ Skip(h) \/ Drop(h)
             \/ Enter(h) \/ Select(h) \/ ToggleRead(h) \/ Enable(h) \/ Disable(h)
    BY <1>0, <1>1 DEF ReadFiletype, CheckEnabled, Clear, Skip, Drop, Enter, Select,
                      ToggleRead, Enable, Disable
  <1>2. CASE Parse(h)
    <2>1. cur = curBuf /\ curBuf \notin wiped
      BY <1>2 DEF Parse, Waiting, Current, AtHome, Section
    <2> QED
      BY <1>0, <1>2, <2>1 DEF Parse
  <1>3. CASE BeginHighlight(h)
    <2>1. pc[h] = "begin" /\ SeenParsed
      BY <1>3, AwakeOwner DEF BeginHighlight, Section
    <2> QED
      BY <1>0, <1>3, <2>1 DEF BeginHighlight, SeenParsed
  <1>4. CASE CheckFiletype(h)
    <2>1. hl[h].number \in md5Bufs
      BY <1>4 DEF CheckFiletype, Waiting, Current, AtHome, Section
    <2> QED
      BY <1>0, <1>4, <2>1 DEF CheckFiletype, Finish
  <1>5. CASE Decide(h) \/ Apply(h)
    BY <1>0, <1>5 DEF Decide, Apply, Advance, Finish
  <1> QED
    BY <1>1, <1>2, <1>3, <1>4, <1>5 DEF Step

(* How a step changes __seen. *)
LEMMA SeenStep ==
  ASSUME Waiting, SeenParsed, NEW h \in Handlers, Step(h)
  PROVE  \/ /\ seen' = seen
            /\ enabled' = enabled \/ seen = {}
         \/ seen' = {}
         \/ /\ Select(h) /\ enabled' = enabled /\ enabled
            /\ seen' = seen \cup {curBuf} /\ curBuf \notin Preview
  <1>1. CASE Select(h)
    <2>1. pc[h] = "select" /\ enabled' = enabled
      BY <1>1 DEF Select, At, editor
    <2>2. enabled /\ curBuf \notin Preview
      BY <2>1 DEF Waiting, Control, Switched, Current, AtHome, Section
    <2> QED
      BY <1>1, <2>1, <2>2 DEF Select
  <1>2. CASE Enable(h)
    BY <1>2 DEF Enable, At, object, caches, Waiting, Control, Switched, SeenParsed
  <1>3. CASE Disable(h)
    BY <1>3 DEF Disable
  <1>4. CASE ~(Select(h) \/ Enable(h) \/ Disable(h))
    BY <1>4 DEF Step, ReadFiletype, CheckEnabled, Clear, Skip, Drop, Enter, Parse,
       BeginHighlight, Decide, CheckFiletype, Apply, ToggleRead, editor,
       EditorUnchanged, object, caches
  <1> QED
    BY <1>1, <1>2, <1>3, <1>4

(* Handlers that are going to parse go on to do so, or one has parsed, or   *)
(* the filetype is ignored, or the plugin is disabled and nothing was seen. *)
LEMMA ParsingStep ==
  ASSUME Waiting, SeenParsed, ~Wedged, ~Wedged', NEW h \in Handlers, Step(h),
         NEW w \in Handlers, Parsing(w)
  PROVE  \/ \E g \in Handlers : Parsing(g)'
         \/ groups'[ft[curBuf]] # Absent
         \/ ft[curBuf] \in Ignored \/ curBuf \in Preview
         \/ seen = {}
  <1> USE DEF Goto, SetLocal, Return, Raise, At
  <1>0. /\ pc \in [Handlers -> Labels] /\ hl \in [Handlers -> LocalType]
        /\ hl[h] \in LocalType
    BY DEF Waiting, TypeOK, LocalsOK
  <1>1. /\ Active(h)
        /\ \A g \in Handlers \ {h} : pc'[g] = pc[g] /\ hl'[g] = hl[g]
    BY StepFrame DEF Waiting
  <1>2. CASE w # h /\ pc[w] = "parse"
    BY <1>1, <1>2 DEF Parsing
  <1>3. CASE pc[h] = "parse"
    <2>1. Parse(h)
      BY <1>3 DEF Step, ReadFiletype, CheckEnabled, Clear, Skip, Drop, Enter, Select,
         BeginHighlight, Decide, CheckFiletype, Apply, ToggleRead, Enable, Disable
    <2>2. groups'[hl[h].ft] # Absent
      BY <2>1, ParseSets DEF Wedged, Waiting
    <2> QED
      BY <1>3, <2>2 DEF Waiting, Current, AtHome, Section
  <1>4. CASE /\ pc[w] \in {"start", "enabled", "guard", "select"}
             /\ \A g \in Handlers : Active(g) => hl[g].force
    <2>1. \A g \in Handlers : Active(g)' => hl'[g].force
      <3>1. ASSUME NEW g \in Handlers, Active(g)', g # h PROVE hl'[g].force
        BY <1>1, <1>4, <3>1 DEF Active
      <3>2. ASSUME Active(h)' PROVE hl'[h].force
        BY <1>1, <1>4, <3>2, ForceKept DEF Waiting
      <3> QED
        BY <3>1, <3>2
    <2>2. CASE w # h
      BY <1>1, <1>4, <2>1, <2>2 DEF Parsing
    <2>3. CASE w = h
      <3>1. CASE ReadFiletype(h) \/ Enter(h)
        BY <1>0, <2>1, <3>1 DEF ReadFiletype, Enter, Parsing
      <3>2. CASE CheckEnabled(h)
        <4>1. pc'[h] = "guard" \/ ~enabled
          BY <1>0, <3>2 DEF CheckEnabled
        <4>2. ~enabled => seen = {}
          BY DEF SeenParsed
        <4> QED
          BY <2>1, <4>1, <4>2 DEF Parsing
      <3>3. CASE Skip(h)
        <4>1. hl[h].ft = ft[curBuf]
          BY <3>3 DEF Skip, Waiting, Current, AtHome
        <4> QED
          BY <3>3, <4>1 DEF Skip
      <3>4. CASE Drop(h)
        <4>1. PICK g \in Handlers : Owner(g)
          BY <3>4 DEF Drop, Waiting, Control, FlagOwned
        <4>2. pc[g] \in Section /\ g # h /\ pc'[g] = pc[g]
          BY <1>1, <3>4, <4>1 DEF Drop, Owner, Section, Wedged, Dead, Stale
        <4>3. CASE pc[g] \in {"select", "parse"}
          BY <2>1, <4>2, <4>3 DEF Parsing
        <4>4. CASE pc[g] \notin {"select", "parse"}
          <5>1. hl[g].ft = ft[curBuf] /\ LocalsReady(g) /\ groups' = groups
            BY <3>4, <4>2
               DEF Drop, Waiting, Current, AtHome, TypeOK, LocalsOK, object, Section
          <5>2. groups[hl[g].ft] # Absent
            BY <4>2, <4>4, <5>1, NeotagsAssumption DEF SeenParsed, LocalsReady, Section
          <5> QED
            BY <5>1, <5>2
        <4> QED
          BY <4>3, <4>4
      <3>5. CASE Select(h)
        <4>1. hl[h].force
          BY <1>1, <1>4
        <4>2. pc'[h] = "parse"
          BY <1>0, <4>1, <3>5 DEF Select, MustParse
        <4> QED
          BY <4>2 DEF Parsing
      <3> QED
        BY <1>4, <2>3, <3>1, <3>2, <3>3, <3>4, <3>5
           DEF Step, Clear, Parse, BeginHighlight, Decide, CheckFiletype, Apply,
               ToggleRead, Enable, Disable
    <2> QED
      BY <2>2, <2>3
  <1> QED
    BY <1>2, <1>3, <1>4 DEF Parsing

(* A step of a handler. *)
LEMMA SeenParsedStep ==
  ASSUME Waiting, SeenParsed, ~Wedged, ~Wedged', NEW h \in Handlers, Step(h)
  PROVE  SeenParsed'
  <1>0. /\ pc \in [Handlers -> Labels] /\ hl \in [Handlers -> LocalType]
        /\ hl[h] \in LocalType /\ ft \in [Buffers -> Filetypes] /\ curBuf \in Buffers
        /\ seen \subseteq Buffers
    BY DEF Waiting, TypeOK, LocalsOK, EditorOK, ObjectOK
  <1>1. /\ Active(h) /\ UNCHANGED <<curBuf, ft, listening>>
        /\ \A g \in Handlers \ {h} : pc'[g] = pc[g] /\ hl'[g] = hl[g]
    BY StepFrame DEF Waiting
  <1>2. (~enabled' => seen' = {}) /\ seen' \cap Preview = {}
    BY SeenStep DEF SeenParsed
  <1>3. ASSUME ~listening', NEW g \in Handlers,
               pc'[g] \in {"start", "enabled", "guard", "select"}
        PROVE  seen' = {}
    <2>1. g = h
      BY <1>1, <1>3 DEF Waiting, Control, Company, Active, Dead, Stale
    <2>2. \/ seen' = {}
          \/ seen' = seen /\ pc[h] \in {"start", "enabled", "guard", "enable"}
      <3> USE DEF Goto, Return, Raise, At, Dead, Stale
      <3>1. CASE \/ ReadFiletype(h) \/ CheckEnabled(h) \/ Clear(h) \/ Skip(h) \/ Drop(h)
                 \/ Enter(h) \/ ToggleRead(h) \/ Enable(h) \/ Disable(h)
        BY <1>0, <1>3, <2>1, <3>1 DEF ReadFiletype, CheckEnabled, Clear, Skip, Drop,
           Enter, ToggleRead, Enable, Disable, object, caches
      <3>2. CASE Select(h) \/ Parse(h) \/ BeginHighlight(h)
        BY <1>0, <1>3, <2>1, <3>2 DEF Select, Parse, BeginHighlight
      <3>3. CASE Decide(h) \/ CheckFiletype(h) \/ Apply(h)
        BY <1>0, <1>3, <2>1, <3>3 DEF Decide, CheckFiletype, Apply, Advance, Finish
      <3> QED
        BY <3>1, <3>2, <3>3 DEF Step
    <2> QED
      BY <1>1, <1>3, <2>2 DEF Waiting, SeenParsed, Control, Switched
  <1>4. ASSUME listening', NEW b \in seen'
        PROVE  \/ ft'[b] \in Ignored
               \/ groups'[ft'[b]] # Absent
               \/ b = curBuf' /\ \E g \in Handlers : Parsing(g)'
    <2>1. CASE b \in seen
      <3>1. ft[b] \in Filetypes /\ b \notin Preview
        BY <1>0, <2>1 DEF Waiting, SeenParsed
      <3>2. \/ ft[b] \in Ignored \/ groups[ft[b]] # Absent
            \/ b = curBuf /\ \E g \in Handlers : Parsing(g)
        BY <1>1, <1>4, <2>1 DEF Waiting, SeenParsed
      <3>3. groups[ft[b]] # Absent => groups'[ft[b]] # Absent
        BY <3>1, GroupsGrow DEF Waiting
      <3>4. ASSUME b = curBuf, NEW g \in Handlers, Parsing(g)
            PROVE  \/ \E d \in Handlers : Parsing(d)'
                   \/ groups'[ft[b]] # Absent \/ ft[b] \in Ignored
        BY <2>1, <3>1, <3>4, ParsingStep
      <3> QED
        BY <1>1, <3>2, <3>3, <3>4
    <2>2. CASE b \notin seen
      <3>1. Select(h) /\ b = curBuf
        BY <1>4, <2>2, SeenStep
      <3>2. pc'[h] = "parse"
        BY <1>0, <2>2, <3>1 DEF Select, MustParse, Goto
      <3> QED
        BY <1>1, <3>1, <3>2 DEF Parsing
    <2> QED
      BY <2>1, <2>2
  <1>5. ASSUME NEW g \in Handlers, pc'[g] = "begin" PROVE groups'[hl'[g].ft] # Absent
    <2>1. CASE g # h
      <3>1. hl[g].ft \in Filetypes /\ groups[hl[g].ft] # Absent
        BY <1>1, <1>5, <2>1
           DEF Waiting, SeenParsed, TypeOK, LocalsOK, LocalsReady, Section
      <3> QED
        BY <1>1, <2>1, <3>1, GroupsGrow DEF Waiting
    <2>2. CASE g = h /\ Parse(h)
      BY <1>5, <2>2, ParseSets DEF Waiting, Dead, Stale
    <2>3. CASE g = h /\ Select(h)
      <3>1. groups[hl[h].ft] # Absent
        BY <1>5, <2>3, SelectFinds
      <3>2. groups' = groups /\ hl'[h].ft = hl[h].ft
        BY <1>0, <2>3 DEF Select, SetLocal, LocalType
      <3> QED
        BY <2>3, <3>1, <3>2
    <2>4. CASE g = h /\ ~Parse(h) /\ ~Select(h)
      <3> USE DEF Goto, Return, Raise, At, Dead, Stale
      <3>1. CASE \/ ReadFiletype(h) \/ CheckEnabled(h) \/ Clear(h) \/ Skip(h) \/ Drop(h)
                 \/ Enter(h) \/ ToggleRead(h) \/ Enable(h) \/ Disable(h)
        BY <1>0, <1>5, <2>4, <3>1 DEF ReadFiletype, CheckEnabled, Clear, Skip, Drop,
           Enter, ToggleRead, Enable, Disable
      <3>2. CASE BeginHighlight(h) \/ Decide(h) \/ CheckFiletype(h) \/ Apply(h)
        BY <1>0, <1>5, <2>4, <3>2
           DEF BeginHighlight, Decide, CheckFiletype, Apply, Advance, Finish
      <3> QED
        BY <2>4, <3>1, <3>2 DEF Step
    <2> QED
      BY <2>1, <2>2, <2>3, <2>4
  <1> QED
    BY <1>2, <1>3, <1>4, <1>5 DEF SeenParsed

(* A step of the user: only :set ft= gives a buffer another filetype, and   *)
(* its autocommands, both forced, start the update that parses it.          *)
LEMMA SeenParsedUser ==
  ASSUME Waiting, SeenParsed, Patient, User
  PROVE  SeenParsed'
  <1>0. /\ pc \in [Handlers -> Labels] /\ hl \in [Handlers -> LocalType]
        /\ ft \in [Buffers -> Filetypes] /\ curBuf \in Buffers /\ TypeOK
    BY DEF Waiting, TypeOK, LocalsOK, EditorOK
  <1>1. /\ UNCHANGED <<enabled, listening, seen, groups>>
        /\ \A h \in Handlers : ~Active(h)
        /\ \A h \in Handlers : pc'[h] = pc[h] \/ pc'[h] \in {"start", "toggle"}
    BY UserFrame DEF Waiting
  <1>2. ASSUME ~listening, NEW h \in Handlers PROVE pc'[h] # "start"
    <2>1. pc[h] # "start"
      BY <1>1 DEF Active, Dead, Stale
    <2>2. UNCHANGED <<pc, hl>> \/ Start("toggle", FALSE)
      BY <1>2 DEF User, EnterBuffer, ReloadBuffer, SaveBuffer, SetFiletype, CallToggle,
         WipeBuffer, Notify
    <2> QED
      BY <1>0, <2>1, <2>2 DEF Start, Goto
  <1>3. \A h \in Handlers : ~Parsing(h)
    BY <1>1 DEF Parsing, Active, Dead, Stale
  <1>4. ASSUME listening', NEW b \in seen'
        PROVE  \/ ft'[b] \in Ignored
               \/ groups'[ft'[b]] # Absent
               \/ b = curBuf' /\ \E g \in Handlers : Parsing(g)'
    <2>1. ft[b] \in Ignored \/ groups[ft[b]] # Absent
      BY <1>1, <1>3, <1>4 DEF SeenParsed
    <2>2. CASE SetFiletype
      <3>1. /\ curBuf' = curBuf /\ (b # curBuf => ft'[b] = ft[b])
            /\ Notify({"FileType", "Syntax"})
        BY <1>0, <2>2 DEF SetFiletype
      <3>2. PICK h \in Handlers : pc'[h] = "start"
        <4>1. listening
          BY <1>1, <1>4
        <4> QED
          BY <1>0, <3>1, <4>1, NotifiesOne
      <3>3. ASSUME NEW g \in Handlers, Active(g)' PROVE hl'[g].force
        <4>1. {"FileType", "Syntax"} \subseteq Forcing
          BY DEF Forcing
        <4>2. hl'[g] = Local(TRUE)
          <5>1. ~(pc'[g] = pc[g] /\ hl'[g] = hl[g])
            BY <1>1, <3>3 DEF Active
          <5> QED
            BY <1>0, <3>1, <4>1, <5>1, Notified
        <4> QED
          BY <4>2 DEF Local
      <3> QED
        BY <1>1, <2>1, <3>1, <3>2, <3>3 DEF Parsing
    <2>3. CASE ~SetFiletype
      <3>1. ft' = ft
        BY <2>3 DEF User, EnterBuffer, ReloadBuffer, SaveBuffer, CallToggle, WipeBuffer
      <3> QED
        BY <1>1, <2>1, <3>1
    <2> QED
      BY <2>2, <2>3
  <1>5. \A h \in Handlers : pc'[h] \notin {"enabled", "guard", "select", "begin"}
    BY <1>1 DEF Active, Dead, Stale
  <1> QED
    BY <1>1, <1>2, <1>4, <1>5 DEF SeenParsed

(* The invariant of a patient user's updates is inductive. *)
LEMMA WaitingNext ==
  ASSUME Patient, Waiting, [Next]_vars
  PROVE  Waiting'
  <1>1. TypeOK' /\ AtMostOneOwner'
    BY NextType, OwnerNext DEF Waiting
  <1>2. Control'
    BY CompanyNext, SwitchedNext, FlagNext DEF Waiting, Control
  <1>3. Current'
    BY CurrentNext DEF Waiting
  <1>4. (Wedged \/ SeenParsed)'
    <2> SUFFICES ASSUME ~Wedged' PROVE SeenParsed'
      OBVIOUS
    <2>1. ~Wedged /\ SeenParsed
      BY WedgedStays DEF Waiting
    <2>2. CASE \E h \in Handlers : Step(h)
      BY <2>1, <2>2, SeenParsedStep
    <2>3. CASE ExecCommand \/ UNCHANGED vars
      BY <2>1, <2>3 DEF ExecCommand, vars, editor, object, caches, SeenParsed, Parsing,
                        Active
    <2>4. CASE User
      BY <2>1, <2>4, SeenParsedUser
    <2> QED
      BY <2>2, <2>3, <2>4 DEF Next, Done
  <1>5. NeverWedged'
    <2>1. ASSUME NEW h \in Handlers, Step(h) PROVE NeverWedged'
      <3>1. \A g \in Handlers \ {h} : pc'[g] = pc[g]
        BY <2>1, StepFrame DEF Waiting
      <3> QED
        BY <2>1, <3>1, WedgeStep DEF Waiting, NeverWedged
    <2>2. CASE ExecCommand \/ UNCHANGED vars
      BY <2>2 DEF ExecCommand, vars, Waiting, NeverWedged
    <2>3. CASE User
      BY <2>3, UserFrame DEF Waiting, NeverWedged, Stale
    <2> QED
      BY <2>1, <2>2, <2>3 DEF Next, Done
  <1> QED
    BY <1>1, <1>2, <1>3, <1>4, <1>5 DEF Waiting

(* It holds throughout. *)
LEMMA WaitingInvariant ==
  ASSUME Patient PROVE Spec => []Waiting
  <1>1. Init => Waiting
    <2> SUFFICES ASSUME Init PROVE Waiting
      OBVIOUS
    <2>1. TypeOK
      BY InitType
    <2>0. PICK d \in Handlers :
             pc = [g \in Handlers |-> IF g = d /\ enabled THEN "start" ELSE "idle"]
      BY DEF Init
    <2>2. \A h \in Handlers : pc[h] = "idle" \/ (pc[h] = "start" /\ enabled)
      BY <2>0
    <2>3. \A g, h \in Handlers : pc[g] = "start" /\ pc[h] = "start" => g = h
      BY <2>0
    <2>4. AtMostOneOwner /\ NeverWedged
      BY <2>2 DEF AtMostOneOwner, Owner, Section, Dead, Stale, NeverWedged
    <2>5. Control
      BY <2>2, <2>3 DEF Init, Control, Company, Active, Switched, FlagOwned, Section
    <2>6. Current /\ SeenParsed
      BY <2>2 DEF Init, Current, AtHome, Section, SeenParsed
    <2> QED
      BY <2>1, <2>4, <2>5, <2>6 DEF Waiting
  <1>2. Waiting /\ [Next]_vars => Waiting'
    BY WaitingNext
  <1> QED
    BY <1>1, <1>2, PTL DEF Spec

(***************************************************************************)
(* With a patient user no update fails over state that has become stale:   *)
(* the buffer is not wiped when it is slurped, the filetype of a buffer    *)
(* that is not parsed again has groups, and the dictionary of its md5 sums *)
(* is still there when the sum is stored.                                  *)
(***************************************************************************)
THEOREM NoUpdateWedged ==
  ASSUME Patient PROVE Spec => []NeverWedged
  <1>1. Waiting => NeverWedged
    BY DEF Waiting
  <1> QED
    BY <1>1, WaitingInvariant, PTL

-----------------------------------------------------------------------------
(* What nvim has not executed yet, and the clearing of a disabled plugin.   *)

(* At most one notification is on its way: of an enabled plugin it sets,    *)
(* of a disabled one it clears the filetype of the current buffer.          *)
Pending ==
    \/ toVim = <<>>
    \/ /\ Len(toVim) = 1
       /\ IF enabled THEN toVim[1].op = "set"
          ELSE toVim[1].op = "clear" /\ toVim[1].ft = ft[curBuf]

Clearing ==
    listening /\ ~enabled =>
        \/ \E h \in Handlers : pc[h] \in {"start", "enabled", "clear"}
        \/ toVim # <<>>
        \/ \A k \in KeysOf(ft[curBuf]) : syn[curBuf][k] = Absent

(* No notification of an update is left when the plugin is toggled. *)
LEMMA PendingNext ==
  ASSUME Waiting, Patient, Pending, [Next]_vars
  PROVE  Pending'
  <1>1. ASSUME NEW h \in Handlers, Step(h) PROVE Pending'
    <2>1. toVim = <<>> /\ UNCHANGED <<curBuf, ft>>
      BY <1>1, StepFrame DEF Waiting
    <2>2. CASE Clear(h)
      <3>1. ~enabled /\ hl[h].ft = ft[curBuf]
        BY <2>2 DEF Clear, At, Waiting, Control, Switched, Current, AtHome
      <3> DEFINE c == [op |-> "clear", ft |-> hl[h].ft]
      <3>2. toVim' = Append(<<>>, c) /\ enabled' = enabled
        BY <2>1, <2>2 DEF Clear, Send, EditorUnchanged
      <3>3. Len(toVim') = 1 /\ toVim'[1] = c
        BY <3>2
      <3> QED
        BY <2>1, <3>1, <3>2, <3>3 DEF Pending
    <2>3. CASE Apply(h)
      <3>1. enabled
        BY <2>3 DEF Apply, At, Waiting, Control, Switched, Section
      <3>2. PICK b, k, v : \/ toVim' = toVim
                           \/ toVim' = Append(toVim, [op |-> "set", number |-> b,
                                                      key |-> k, val |-> v])
        BY <2>3 DEF Apply, Send
      <3>3. enabled' = enabled
        BY <2>3 DEF Apply, EditorUnchanged
      <3> DEFINE c == [op |-> "set", number |-> b, key |-> k, val |-> v]
      <3>4. toVim' = <<>> \/ toVim' = Append(<<>>, c)
        BY <2>1, <3>2
      <3>5. toVim' = <<>> \/ (Len(toVim') = 1 /\ toVim'[1] = c)
        BY <3>4
      <3> QED
        BY <3>1, <3>3, <3>5 DEF Pending
    <2>4. CASE ~Clear(h) /\ ~Apply(h)
      <3>1. toVim' = toVim
        BY <1>1, <2>4 DEF Step, ReadFiletype, CheckEnabled, Skip, Drop, Enter, Select,
           Parse, BeginHighlight, Decide, CheckFiletype, ToggleRead, Enable, Disable,
           editor
      <3> QED
        BY <2>1, <3>1 DEF Pending
    <2> QED
      BY <2>2, <2>3, <2>4
  <1>2. CASE ExecCommand
    <2>1. toVim' = Tail(toVim) /\ toVim # <<>> /\ toVim \in Seq(Message)
      BY <1>2 DEF ExecCommand, Waiting, TypeOK, EditorOK
    <2>2. toVim' = <<>>
      BY <2>1 DEF Pending
    <2> QED
      BY <2>2 DEF Pending
  <1>3. CASE UNCHANGED vars
    BY <1>3 DEF vars, editor, Pending
  <1>4. CASE User
    BY <1>4, UserFrame DEF Pending, Waiting
  <1> QED
    BY <1>1, <1>2, <1>3, <1>4 DEF Next, Done

(* The keys of a filetype are keys. *)
LEMMA KeysOfKeys ==
  ASSUME NEW f \in Filetypes, NEW k \in KeysOf(f)
  PROVE  k \in Keys /\ \E i \in DOMAIN Order[f] : Order[f][i] = k
  <1>1. Order[f] \in Seq(Keys)
    BY NeotagsAssumption
  <1> QED
    BY <1>1 DEF KeysOf

(* What the user does to the current buffer starts an update.               *)
LEMMA SomeStarts ==
  ASSUME TypeOK, listening, EnterBuffer \/ ReloadBuffer \/ SaveBuffer \/ SetFiletype
  PROVE  \E h \in Handlers : pc'[h] = "start"
  <1>1. CASE EnterBuffer
    BY <1>1, NotifiesOne DEF EnterBuffer
  <1>2. CASE ReloadBuffer
    BY <1>2, NotifiesOne DEF ReloadBuffer
  <1>3. CASE SaveBuffer
    BY <1>3, NotifiesOne DEF SaveBuffer
  <1>4. CASE SetFiletype
    BY <1>4, NotifiesOne DEF SetFiletype
  <1> QED
    BY <1>1, <1>2, <1>3, <1>4

(* Every way out of the clearing of a disabled plugin sends the command. *)
LEMMA ClearingNext ==
  ASSUME Waiting, Patient, Pending, Clearing, [Next]_vars
  PROVE  Clearing'
  <1>0. /\ pc \in [Handlers -> Labels]
        /\ ft \in [Buffers -> Filetypes] /\ curBuf \in Buffers /\ syn \in Table
    BY DEF Waiting, TypeOK, LocalsOK, EditorOK
  <1>1. ASSUME NEW h \in Handlers, Step(h), listening', ~enabled' PROVE Clearing'
    <2>1. /\ toVim = <<>> /\ UNCHANGED <<curBuf, ft, syn, listening>>
          /\ \A g \in Handlers \ {h} : pc'[g] = pc[g]
      BY <1>1, StepFrame DEF Waiting
    <2>2. CASE Disable(h)
      BY <1>0, <2>2 DEF Disable, Goto, Clearing
    <2>3. CASE ~Disable(h)
      <3>1. ~enabled
        BY <1>1, <2>3 DEF Step, ReadFiletype, CheckEnabled, Clear, Skip, Drop, Enter,
           Select, Parse, BeginHighlight, Decide, CheckFiletype, Apply, ToggleRead,
           Enable, editor, EditorUnchanged
      <3>2. CASE pc[h] \in {"start", "enabled", "clear"}
        <4>1. \/ pc'[h] \in {"enabled", "clear"}
              \/ toVim' = Append(toVim, [op |-> "clear", ft |-> hl[h].ft])
          BY <1>0, <1>1, <3>1, <3>2 DEF Step, ReadFiletype, CheckEnabled, Clear, Skip,
             Drop, Enter, Select, Parse, BeginHighlight, Decide, CheckFiletype, Apply,
             ToggleRead, Enable, Disable, At, Goto, Send
        <4>2. toVim' = Append(<<>>, [op |-> "clear", ft |-> hl[h].ft]) => toVim' # <<>>
          OBVIOUS
        <4> QED
          BY <2>1, <4>1, <4>2 DEF Clearing
      <3>3. CASE pc[h] \notin {"start", "enabled", "clear"}
        BY <1>1, <2>1, <3>1, <3>3 DEF Clearing, KeysOf
      <3> QED
        BY <3>2, <3>3
    <2> QED
      BY <2>2, <2>3
  <1>2. CASE ExecCommand
    <2>1. UNCHANGED <<curBuf, ft, enabled, pc, listening>> /\ toVim # <<>>
      BY <1>2 DEF ExecCommand
    <2>2. SUFFICES ASSUME ~enabled PROVE \A k \in KeysOf(ft[curBuf]) : syn'[curBuf][k] = Absent
      BY <2>1 DEF Clearing, KeysOf
    <2>3. Head(toVim) = toVim[1] /\ toVim[1].op = "clear" /\ toVim[1].ft = ft[curBuf]
      BY <2>1, <2>2 DEF Pending, Waiting, TypeOK, EditorOK
    <2>4. syn'[curBuf] = [k \in Keys |->
                            IF \E i \in DOMAIN Order[ft[curBuf]] : Order[ft[curBuf]][i] = k
                            THEN Absent ELSE syn[curBuf][k]]
      BY <1>0, <1>2, <2>3 DEF ExecCommand, Table
    <2> QED
      BY <1>0, <2>4, KeysOfKeys
  <1>3. CASE UNCHANGED vars
    BY <1>3 DEF vars, editor, Clearing, KeysOf
  <1>4. CASE User
    <2>1. /\ \A h \in Handlers : ~Active(h)
          /\ UNCHANGED <<enabled, listening, toVim>> /\ toVim = <<>>
      BY <1>4, UserFrame DEF Waiting
    <2>2. CASE CallToggle \/ WipeBuffer
      <3>1. UNCHANGED <<curBuf, ft, syn>>
        BY <2>2 DEF CallToggle, WipeBuffer
      <3>2. \A h \in Handlers : pc[h] \notin {"start", "enabled", "clear"}
        BY <2>1 DEF Active, Dead, Stale
      <3> QED
        BY <2>1, <3>1, <3>2 DEF Clearing, KeysOf
    <2>3. CASE EnterBuffer \/ ReloadBuffer \/ SaveBuffer \/ SetFiletype
      <3>1. listening => \E h \in Handlers : pc'[h] = "start"
        BY <2>3, SomeStarts DEF Waiting
      <3> QED
        BY <2>1, <3>1 DEF Clearing
    <2> QED
      BY <1>4, <2>2, <2>3 DEF User
  <1> QED
    BY <1>1, <1>2, <1>3, <1>4 DEF Next, Done, Clearing

(***************************************************************************)
(* With a patient user a disabled plugin leaves no rule of the filetype in *)
(* the current buffer once everything is at rest.                          *)
(***************************************************************************)
THEOREM DisabledShowsNothing ==
  ASSUME Patient PROVE Spec => []DisabledIsClear
  <1>1. Init => Pending /\ Clearing
    BY DEF Init, Pending, Clearing
  <1>2. Waiting /\ Pending /\ Clearing /\ [Next]_vars => Pending' /\ Clearing'
    BY PendingNext, ClearingNext
  <1>3. Clearing => DisabledIsClear
    BY DEF Clearing, DisabledIsClear, Quiet, Dead, Stale
  <1> QED
    BY <1>1, <1>2, <1>3, WaitingInvariant, PTL DEF Spec

-----------------------------------------------------------------------------
(* What the current buffer shows.                                           *)

(* The rule of the current buffer for k, when nvim has executed what is on  *)
(* its way.                                                                 *)
Shown(k) ==
    IF toVim # <<>> /\ toVim[1].op = "set" /\ toVim[1].key = k
    THEN toVim[1].val ELSE syn[curBuf][k]

KeyDone(k) == Shown(k) = cmd[curBuf][k] /\ Shown(k) # Absent

Looping(h) == pc[h] \in {"decide", "ftcheck", "apply"}

Busy(h) == pc[h] \in {"start", "enabled", "guard"} \cup Section

(* The keys in front of a handler in the loop are done. *)
Before(h) == {Order[hl[h].ft][j] : j \in 1..(hl[h].i - 1)}

LoopDone ==
    \A h \in Handlers : Looping(h) => \A c \in Keys : c \in Before(h) => KeyDone(c)

(* All keys are done, or an update is about to do them, or no tags file was *)
(* found when the filetype was parsed last.                                 *)
AllDone ==
    listening /\ enabled /\ Highlighted(curBuf) =>
        \/ \E h \in Handlers : Busy(h)
        \/ groups[ft[curBuf]] = NoGroups
        \/ \A k \in KeysOf(ft[curBuf]) : KeyDone(k)

Screen == Waiting /\ CacheInv /\ Pending /\ LoopDone /\ (Wedged \/ AllDone)

(* What a handler in the loop knows. *)
LEMMA LoopFacts ==
  ASSUME Waiting, NEW h \in Handlers, Looping(h)
  PROVE  /\ hl[h] \in LocalType /\ hl[h].ft = ft[curBuf] /\ hl[h].ft \in Filetypes
         /\ hl[h].number = curBuf /\ cur = curBuf /\ curBuf \in Buffers
         /\ hl[h].i \in DOMAIN Order[hl[h].ft] /\ hl[h].i \in 1..Len(Order[hl[h].ft])
         /\ Order[hl[h].ft] \in Seq(Keys) /\ Key(h) \in Keys /\ enabled
         /\ groups[hl[h].ft] \in Value
         /\ pc[h] \in {"ftcheck", "apply"} => hl[h].val \in Value
         /\ \A g \in Handlers \ {h} : ~Owner(g)
  <1> USE DEF Looping
  <1>1. LocalsReady(h) /\ AtHome(h) /\ hl[h] \in LocalType /\ curBuf \in Buffers
    BY DEF Waiting, TypeOK, LocalsOK, EditorOK, Current
  <1>2. /\ hl[h].ft = ft[curBuf] /\ hl[h].ft \in Filetypes
        /\ hl[h].number = curBuf /\ cur = curBuf
    BY <1>1 DEF LocalsReady, AtHome, Section
  <1>3. Order[hl[h].ft] \in Seq(Keys) /\ hl[h].i \in DOMAIN Order[hl[h].ft]
    BY <1>1, <1>2, NeotagsAssumption DEF LocalsReady
  <1>4. Key(h) \in Keys /\ hl[h].i \in 1..Len(Order[hl[h].ft])
    BY <1>3 DEF Key
  <1>5. enabled /\ \A g \in Handlers \ {h} : ~Owner(g)
    BY DEF Waiting, Control, Switched, AtMostOneOwner, Owner, Section
  <1>6. /\ groups[hl[h].ft] \in Value
        /\ pc[h] \in {"ftcheck", "apply"} => hl[h].val \in Value
    BY <1>1 DEF LocalsReady
  <1> QED
    BY <1>1, <1>2, <1>3, <1>4, <1>5, <1>6

(* The store of a key's commands: the key is done, and no other is undone. *)
LEMMA ApplyDone ==
  ASSUME Screen, NEW h \in Handlers, Apply(h), UNCHANGED <<curBuf, syn>>
  PROVE  \A c \in Keys : (\E j \in 1..hl[h].i : c = Order[hl[h].ft][j]) => KeyDone(c)'
  <1> DEFINE k == Key(h)
             m == [op |-> "set", number |-> hl[h].number, key |-> k, val |-> hl[h].val]
  <1>1. pc[h] = "apply" /\ toVim = <<>>
    BY DEF Apply, At
  <1>2. /\ hl[h] \in LocalType /\ hl[h].number = curBuf /\ cur = curBuf /\ curBuf \in Buffers
        /\ hl[h].i \in 1..Len(Order[hl[h].ft]) /\ Order[hl[h].ft] \in Seq(Keys)
        /\ k \in Keys /\ hl[h].val \in Value
    BY <1>1, LoopFacts DEF Screen, Looping
  <1>3. hl[h].val # Absent
    BY <1>2, NeotagsAssumption
  <1>4. toVim' = Append(<<>>, m) /\ cmd' = [cmd EXCEPT ![curBuf][k] = hl[h].val]
    BY <1>1, <1>2 DEF Apply, Send
  <1>5. toVim' # <<>> /\ toVim'[1] = m
    BY <1>4
  <1>6. cmd \in Table
    BY DEF Screen, Waiting, TypeOK, ObjectOK
  <1>7. ASSUME NEW c \in Keys, NEW j \in 1..hl[h].i, c = Order[hl[h].ft][j]
        PROVE  KeyDone(c)'
    <2>1. CASE c = k
      <3>1. cmd'[curBuf][c] = hl[h].val
        BY <1>2, <1>4, <1>6, <2>1 DEF Table
      <3> QED
        BY <1>3, <1>5, <2>1, <3>1 DEF KeyDone, Shown
    <2>2. CASE c # k
      <3>1. j # hl[h].i
        BY <1>7, <2>2 DEF Key
      <3>2. KeyDone(c)
        BY <1>7, <1>1, <1>2, <3>1 DEF Screen, LoopDone, Looping, LocalType, Before
      <3>3. cmd'[curBuf][c] = cmd[curBuf][c]
        BY <1>2, <1>4, <1>6, <2>2 DEF Table
      <3> QED
        BY <1>1, <1>5, <2>2, <3>2, <3>3 DEF KeyDone, Shown
    <2> QED
      BY <2>1, <2>2
  <1> QED
    BY <1>7

(* What the steps of a handler outside the loop leave alone. *)
LEMMA OutsideFrame ==
  ASSUME NEW h \in Handlers, Step(h), ~Owner(h), ~Disable(h)
  PROVE  UNCHANGED <<cmd, groups, hlbuf>>
  BY DEF Step, ReadFiletype, CheckEnabled, Clear, Skip, Drop, Enter, Select, Parse,
         BeginHighlight, Decide, CheckFiletype, Apply, ToggleRead, Enable, object,
         caches, Owner, Section, At

(* The steps that may change what is done: a store, a clearing, a toggle. *)
LEMMA DoneFrame ==
  ASSUME TypeOK, NEW h \in Handlers, Step(h), ~Apply(h), ~Clear(h), ~Disable(h), NEW c
  PROVE  KeyDone(c)' = KeyDone(c)
  <1>1. UNCHANGED <<curBuf, syn>>
    BY StepFrame
  <1>2. UNCHANGED <<cmd, toVim>>
    BY DEF Step, ReadFiletype, CheckEnabled, Skip, Drop, Enter, Select, Parse,
       BeginHighlight, Decide, CheckFiletype, ToggleRead, Enable, object, caches,
       editor, EditorUnchanged
  <1> QED
    BY <1>1, <1>2 DEF KeyDone, Shown

(* nvim's execution of a notification undoes nothing in an enabled plugin. *)
LEMMA ExecDone ==
  ASSUME TypeOK, Pending, enabled, ExecCommand, NEW c \in Keys, KeyDone(c)
  PROVE  KeyDone(c)'
  <1>1. /\ toVim \in Seq(Message) /\ toVim # <<>> /\ syn \in Table /\ curBuf \in Buffers
        /\ UNCHANGED <<curBuf, cmd>> /\ toVim' = Tail(toVim)
    BY DEF ExecCommand, TypeOK, EditorOK, object, caches
  <1>2. Head(toVim) = toVim[1] /\ toVim[1].op = "set" /\ toVim' = <<>>
    BY <1>1 DEF Pending
  <1>3. syn' = [syn EXCEPT ![curBuf] = [@ EXCEPT ![toVim[1].key] = toVim[1].val]]
    BY <1>2 DEF ExecCommand
  <1>4. syn'[curBuf][c] = IF toVim[1].key = c THEN toVim[1].val ELSE syn[curBuf][c]
    BY <1>1, <1>3 DEF Table
  <1> QED
    BY <1>1, <1>2, <1>4 DEF KeyDone, Shown

(* The keys in front of a handler in the loop stay done. *)
LEMMA LoopDoneStep ==
  ASSUME Screen, NEW h \in Handlers, Step(h)
  PROVE  LoopDone'
  <1>0. /\ pc \in [Handlers -> Labels] /\ hl \in [Handlers -> LocalType]
        /\ hl[h] \in LocalType /\ TypeOK
    BY DEF Screen, Waiting, TypeOK, LocalsOK
  <1>1. /\ Active(h) /\ UNCHANGED <<curBuf, ft, syn>>
        /\ \A g \in Handlers \ {h} : pc'[g] = pc[g] /\ hl'[g] = hl[g]
    BY StepFrame DEF Screen, Waiting
  <1>2. ASSUME NEW g \in Handlers \ {h}, Looping(g)', NEW c \in Keys, c \in Before(g)'
        PROVE  KeyDone(c)'
    <2>1. Looping(g) /\ hl'[g] = hl[g]
      BY <1>1, <1>2 DEF Looping
    <2>2. enabled /\ ~Owner(h)
      BY <2>1, LoopFacts DEF Screen
    <2>3. ~Apply(h) /\ ~Clear(h) /\ ~Disable(h)
      BY <1>1, <2>1, <2>2 DEF Apply, Clear, Disable, At, Owner, Section, Dead, Stale,
                              Screen, Waiting, Control, Switched, Company, Active, Looping
    <2>4. KeyDone(c)
      BY <1>2, <2>1 DEF Screen, LoopDone, Before
    <2> QED
      BY <1>0, <2>3, <2>4, DoneFrame
  <1>3. ASSUME Looping(h)', NEW c \in Keys, c \in Before(h)'
        PROVE  KeyDone(c)'
    <2>1. CASE BeginHighlight(h)
      <3>1. hl'[h].i = 1
        BY <1>0, <1>3, <2>1 DEF BeginHighlight, At, Return, Raise, Goto, SetLocal, Local,
                                TypeOK, LocalsOK, LocalsReady
      <3> QED
        BY <1>3, <3>1 DEF Before
    <2>2. CASE Decide(h)
      <3>1. pc[h] = "decide"
        BY <2>2 DEF Decide, At
      <3>2. \E v : hl'[h] = [hl[h] EXCEPT !.val = v]
        BY <1>0, <1>3, <2>2, <3>1, CacheFinds
           DEF Decide, SetLocal, Raise, Goto, Looping, Screen, NoKeyError
      <3>3. hl'[h].i = hl[h].i /\ hl'[h].ft = hl[h].ft
        BY <1>0, <3>2 DEF LocalType
      <3>4. KeyDone(c)
        BY <1>3, <3>1, <3>3 DEF Screen, LoopDone, Looping, Before
      <3>5. ~Apply(h) /\ ~Clear(h) /\ ~Disable(h)
        BY <3>1 DEF Apply, Clear, Disable, At
      <3> QED
        BY <1>0, <3>4, <3>5, DoneFrame
    <2>3. CASE CheckFiletype(h)
      <3>1. pc[h] = "ftcheck"
        BY <2>3 DEF CheckFiletype, At
      <3>2. hl' = hl
        BY <1>0, <1>3, <2>3 DEF CheckFiletype, Finish, Return, Raise, Goto, Looping
      <3>3. KeyDone(c)
        BY <1>3, <3>1, <3>2 DEF Screen, LoopDone, Looping, Before
      <3>4. ~Apply(h) /\ ~Clear(h) /\ ~Disable(h)
        BY <3>1 DEF Apply, Clear, Disable, At
      <3> QED
        BY <1>0, <3>3, <3>4, DoneFrame
    <2>4. CASE Apply(h)
      <3>1. Advance(h) /\ pc[h] = "apply"
        BY <2>4 DEF Apply, At
      <3>2. /\ hl'[h].ft = hl[h].ft /\ hl'[h].i = hl[h].i + 1
            /\ hl[h].i < Len(Order[hl[h].ft])
        BY <1>0, <1>3, <3>1, AdvanceKeeps DEF Looping
      <3>3. \E j \in 1..hl[h].i : c = Order[hl[h].ft][j]
        BY <1>0, <1>3, <3>2 DEF LocalType, Before
      <3> QED
        BY <1>1, <1>3, <2>4, <3>3, ApplyDone
    <2>5. CASE \/ ReadFiletype(h) \/ CheckEnabled(h) \/ Clear(h) \/ Skip(h) \/ Drop(h)
               \/ Enter(h) \/ Select(h) \/ Parse(h)
               \/ ToggleRead(h) \/ Enable(h) \/ Disable(h)
      BY <1>0, <1>3, <2>5 DEF ReadFiletype, CheckEnabled, Clear, Skip, Drop, Enter,
         Select, Parse, ToggleRead, Enable, Disable, Goto, Return, Raise, Looping
    <2> QED
      BY <2>1, <2>2, <2>3, <2>4, <2>5 DEF Step
  <1> QED
    BY <1>2, <1>3 DEF LoopDone

(* A busy handler of a buffer that is highlighted goes on, leaves it to     *)
(* another one, has no groups, or has done all keys.                        *)
LEMMA BusyStep ==
  ASSUME Screen, ~Wedged, ~Wedged', NEW h \in Handlers, Step(h), Busy(h), enabled,
         Highlighted(curBuf)
  PROVE  \/ \E g \in Handlers : Busy(g)'
         \/ groups'[ft[curBuf]] = NoGroups
         \/ \A c \in KeysOf(ft[curBuf]) : KeyDone(c)'
  <1> USE DEF Goto, Return, Raise, At
  <1>0. /\ pc \in [Handlers -> Labels] /\ hl \in [Handlers -> LocalType]
        /\ hl[h] \in LocalType /\ ft[curBuf] \in Filetypes
    BY DEF Screen, Waiting, TypeOK, LocalsOK, EditorOK
  <1>1. /\ UNCHANGED <<curBuf, ft, syn>>
        /\ \A g \in Handlers \ {h} : pc'[g] = pc[g]
    BY StepFrame DEF Screen, Waiting
  <1>2. pc'[h] \notin Dead
    BY DEF Wedged
  <1>3. CASE ReadFiletype(h) \/ CheckEnabled(h) \/ Enter(h) \/ Select(h) \/ Parse(h)
    BY <1>0, <1>2, <1>3 DEF ReadFiletype, CheckEnabled, Enter, Select, Parse, Busy,
                            Section, Dead, Stale
  <1>4. CASE Skip(h)
    <2>1. hl[h].ft = ft[curBuf]
      BY <1>4 DEF Skip, Screen, Waiting, Current, AtHome
    <2> QED
      BY <1>4, <2>1 DEF Skip, Highlighted
  <1>5. CASE Drop(h)
    <2>1. PICK g \in Handlers : Owner(g)
      BY <1>5 DEF Drop, Screen, Waiting, Control, FlagOwned
    <2>2. g # h /\ Busy(g)
      BY <1>5, <2>1 DEF Drop, Owner, Busy, Section, Wedged, Dead, Stale
    <2> QED
      BY <1>1, <2>2 DEF Busy
  <1>6. CASE BeginHighlight(h)
    <2>1. hl[h].ft = ft[curBuf]
      BY <1>6 DEF BeginHighlight, Screen, Waiting, Current, AtHome, Section
    <2>2. groups' = groups
      BY <1>6 DEF BeginHighlight
    <2> QED
      BY <1>0, <1>2, <1>6, <2>1, <2>2 DEF BeginHighlight, Busy, Section, Dead, Stale
  <1>7. CASE Decide(h)
    <2>1. pc'[h] \in {"apply", "ftcheck"}
      BY <1>0, <1>2, <1>7, CacheFinds DEF Decide, Screen, NoKeyError, Dead
    <2> QED
      BY <2>1 DEF Busy, Section
  <1>8. CASE CheckFiletype(h)
    <2>1. hl[h].ft = ft[curBuf]
      BY <1>8 DEF CheckFiletype, Screen, Waiting, Current, AtHome, Section
    <2>2. pc'[h] = "apply"
      BY <1>0, <1>2, <1>8, <2>1 DEF CheckFiletype, Dead, Stale
    <2> QED
      BY <2>2 DEF Busy, Section
  <1>9. CASE Apply(h)
    <2>1. Advance(h) /\ pc[h] = "apply"
      BY <1>9 DEF Apply
    <2>2. CASE pc'[h] = "decide"
      BY <2>2 DEF Busy, Section
    <2>3. CASE ~(hl[h].i < Len(Order[hl[h].ft]))
      <3>1. /\ hl[h].ft = ft[curBuf] /\ hl[h].i \in 1..Len(Order[hl[h].ft])
            /\ Order[hl[h].ft] \in Seq(Keys)
        BY <2>1, LoopFacts DEF Screen, Looping
      <3>2. hl[h].i = Len(Order[hl[h].ft])
        BY <2>3, <3>1
      <3>3. \A c \in KeysOf(ft[curBuf]) :
               c \in Keys /\ \E j \in 1..hl[h].i : c = Order[hl[h].ft][j]
        BY <1>0, <3>1, <3>2, KeysOfKeys
      <3> QED
        BY <1>1, <1>9, <3>3, ApplyDone
    <2> QED
      BY <2>1, <2>2, <2>3, AdvanceKeeps DEF Screen, Waiting
  <1>10. CASE Clear(h) \/ ToggleRead(h) \/ Enable(h) \/ Disable(h)
    BY <1>10 DEF Clear, ToggleRead, Enable, Disable, Busy, Section
  <1> QED
    BY <1>3, <1>4, <1>5, <1>6, <1>7, <1>8, <1>9, <1>10 DEF Step

(* A step of a handler. *)
LEMMA AllDoneStep ==
  ASSUME Screen, ~Wedged, ~Wedged', NEW h \in Handlers, Step(h)
  PROVE  AllDone'
  <1>0. pc \in [Handlers -> Labels] /\ TypeOK
    BY DEF Screen, Waiting, TypeOK, LocalsOK
  <1>1. /\ UNCHANGED <<curBuf, ft, listening>> /\ Active(h)
        /\ \A g \in Handlers \ {h} : pc'[g] = pc[g]
    BY StepFrame DEF Screen, Waiting
  <1>2. CASE Enable(h)
    BY <1>0, <1>2 DEF Enable, Goto, AllDone, Busy
  <1>3. CASE Disable(h)
    BY <1>3 DEF Disable, AllDone
  <1>4. CASE ~Enable(h) /\ ~Disable(h)
    <2>1. enabled' = enabled
      BY <1>4 DEF Step, ReadFiletype, CheckEnabled, Clear, Skip, Drop, Enter, Select,
         Parse, BeginHighlight, Decide, CheckFiletype, Apply, ToggleRead, editor,
         EditorUnchanged
    <2>2. SUFFICES ASSUME listening, enabled, Highlighted(curBuf)
                   PROVE  \/ \E g \in Handlers : Busy(g)'
                          \/ groups'[ft[curBuf]] = NoGroups
                          \/ \A c \in KeysOf(ft[curBuf]) : KeyDone(c)'
      BY <1>1, <2>1 DEF AllDone, Highlighted, KeysOf, KeyDone, Shown
    <2>3. CASE Busy(h)
      BY <2>2, <2>3, BusyStep
    <2>4. CASE ~Busy(h)
      <3>1. ~Apply(h) /\ ~Clear(h)
        BY <2>2, <2>4 DEF Apply, Clear, At, Busy, Section, Screen, Waiting, Control,
                          Switched
      <3>2. CASE \E g \in Handlers : Busy(g)
        BY <1>1, <2>4, <3>2 DEF Busy
      <3>3. CASE \A c \in KeysOf(ft[curBuf]) : KeyDone(c)
        BY <1>0, <1>4, <3>1, <3>3, DoneFrame
      <3>4. CASE groups[ft[curBuf]] = NoGroups
        <4>1. ~Owner(h)
          BY <1>1, <2>4 DEF Owner, Active, Busy
        <4> QED
          BY <1>4, <3>4, <4>1, OutsideFrame
      <3> QED
        BY <2>2, <3>2, <3>3, <3>4 DEF Screen, AllDone
    <2> QED
      BY <2>3, <2>4
  <1> QED
    BY <1>2, <1>3, <1>4

(* A step of the user: what puts another text, filetype or buffer in front  *)
(* of the user starts an update.                                            *)
LEMMA ScreenUser ==
  ASSUME Screen, Patient, User
  PROVE  LoopDone' /\ (AllDone => AllDone')
  <1>0. pc \in [Handlers -> Labels]
    BY DEF Screen, Waiting, TypeOK, LocalsOK
  <1>1. /\ \A h \in Handlers : ~Active(h)
        /\ UNCHANGED <<enabled, listening, toVim, cmd, groups>>
        /\ \A h \in Handlers : pc'[h] = pc[h] \/ pc'[h] \in {"start", "toggle"}
    BY UserFrame DEF Screen, Waiting
  <1>2. \A h \in Handlers : ~Looping(h)' /\ ~Busy(h)
    BY <1>1 DEF Active, Looping, Busy, Section, Dead, Stale
  <1>3. CASE CallToggle \/ WipeBuffer
    <2>1. UNCHANGED <<curBuf, ft, syn>>
      BY <1>3 DEF CallToggle, WipeBuffer
    <2>2. AllDone => AllDone'
      BY <1>1, <1>2, <2>1 DEF AllDone, Highlighted, KeysOf, KeyDone, Shown
    <2> QED
      BY <1>2, <2>2 DEF LoopDone
  <1>4. CASE EnterBuffer \/ ReloadBuffer \/ SaveBuffer \/ SetFiletype
    <2>1. listening => \E h \in Handlers : pc'[h] = "start"
      BY <1>4, SomeStarts DEF Screen, Waiting
    <2> QED
      BY <1>1, <1>2, <2>1 DEF AllDone, Busy, LoopDone
  <1> QED
    BY <1>3, <1>4 DEF User

(* The invariant of the screen is inductive. *)
LEMMA ScreenNext ==
  ASSUME Patient, Screen, [Next]_vars
  PROVE  Screen'
  <1>1. Waiting' /\ CacheInv' /\ Pending'
    BY WaitingNext, CacheNext, PendingNext DEF Screen
  <1>2. LoopDone'
    <2>1. CASE \E h \in Handlers : Step(h)
      BY <2>1, LoopDoneStep
    <2>2. CASE ExecCommand
      <3>1. UNCHANGED <<pc, hl>>
        BY <2>2 DEF ExecCommand
      <3>2. ASSUME NEW h \in Handlers, Looping(h)', NEW c \in Keys, c \in Before(h)'
            PROVE  KeyDone(c)'
        <4>1. Looping(h) /\ c \in Before(h) /\ enabled
          BY <3>1, <3>2, LoopFacts DEF Looping, Before, Screen
        <4> QED
          BY <2>2, <4>1, ExecDone DEF Screen, Waiting, LoopDone
      <3> QED
        BY <3>2 DEF LoopDone
    <2>3. CASE UNCHANGED vars
      BY <2>3 DEF vars, editor, object, caches, Screen, LoopDone, Looping, Before,
                  KeyDone, Shown
    <2>4. CASE User
      BY <2>4, ScreenUser
    <2> QED
      BY <2>1, <2>2, <2>3, <2>4 DEF Next, Done
  <1>3. (Wedged \/ AllDone)'
    <2>1. SUFFICES ASSUME ~Wedged' PROVE AllDone'
      OBVIOUS
    <2>2. ~Wedged /\ AllDone
      BY <2>1, WedgedStays DEF Screen, Waiting
    <2>3. CASE \E h \in Handlers : Step(h)
      BY <2>1, <2>2, <2>3, AllDoneStep
    <2>4. CASE ExecCommand
      <3>1. UNCHANGED <<pc, hl, curBuf, ft, enabled, listening, groups>>
        BY <2>4 DEF ExecCommand, object
      <3>2. SUFFICES ASSUME listening, enabled, Highlighted(curBuf),
                            ~\E h \in Handlers : Busy(h), groups[ft[curBuf]] # NoGroups
                     PROVE  \A c \in KeysOf(ft[curBuf]) : KeyDone(c)'
        BY <3>1 DEF AllDone, Highlighted, KeysOf, KeyDone, Shown, Busy
      <3>3. \A c \in KeysOf(ft[curBuf]) : KeyDone(c)
        BY <2>2, <3>2 DEF AllDone
      <3>4. ft[curBuf] \in Filetypes
        BY DEF Screen, Waiting, TypeOK, EditorOK
      <3> QED
        BY <2>4, <3>2, <3>3, <3>4, KeysOfKeys, ExecDone DEF Screen, Waiting
    <2>5. CASE UNCHANGED vars
      BY <2>2, <2>5 DEF vars, editor, object, caches, AllDone, KeyDone, Shown, Busy,
                        Highlighted, KeysOf
    <2>6. CASE User
      BY <2>2, <2>6, ScreenUser
    <2> QED
      BY <2>3, <2>4, <2>5, <2>6 DEF Next, Done
  <1> QED
    BY <1>1, <1>2, <1>3 DEF Screen

(* It holds throughout. *)
LEMMA ScreenInvariant ==
  ASSUME Patient PROVE Spec => []Screen
  <1>1. Init => Pending /\ LoopDone /\ AllDone
    <2> SUFFICES ASSUME Init PROVE Pending /\ LoopDone /\ AllDone
      OBVIOUS
    <2>1. PICK d \in Handlers :
             pc = [g \in Handlers |-> IF g = d /\ enabled THEN "start" ELSE "idle"]
      BY DEF Init
    <2>2. LoopDone /\ AllDone
      BY <2>1 DEF LoopDone, Looping, AllDone, Busy
    <2> QED
      BY <2>2 DEF Init, Pending
  <1>2. Waiting /\ CacheInv /\ Pending /\ LoopDone /\ AllDone => Screen
    BY DEF Screen
  <1>3. Screen /\ [Next]_vars => Screen'
    BY ScreenNext
  <1> QED
    BY <1>1, <1>2, <1>3, WaitingInvariant, CacheInvariant, PTL DEF Spec

(***************************************************************************)
(* With a patient user, once everything is at rest, every key of the       *)
(* current buffer's filetype is on the screen, with the commands that      *)
(* __cmd_cache holds for it, provided that no exception of the tags files  *)
(* has ended an update and that the last parse of the filetype found some. *)
(***************************************************************************)
THEOREM ScreenIsCached ==
  ASSUME Patient PROVE Spec => []ShownIsCached
  <1>1. Screen => ShownIsCached
    <2> SUFFICES ASSUME Screen, listening, Quiet, enabled, ~Wedged,
                        Highlighted(curBuf), groups[ft[curBuf]] # NoGroups,
                        NEW k \in KeysOf(ft[curBuf])
                 PROVE  syn[curBuf][k] = cmd[curBuf][k] /\ syn[curBuf][k] # Absent
      BY DEF ShownIsCached
    <2>1. toVim = <<>> /\ \A h \in Handlers : ~Busy(h)
      BY DEF Quiet, Busy, Section, Dead, Stale
    <2>2. KeyDone(k)
      BY <2>1 DEF Screen, AllDone
    <2> QED
      BY <2>1, <2>2 DEF KeyDone, Shown
  <1> QED
    BY <1>1, ScreenInvariant, PTL

-----------------------------------------------------------------------------
(* A forced update.                                                         *)

(* Of the buffer highlighted last, a forced update has stored the commands  *)
(* of the groups just parsed for the keys behind it.                        *)
Renewing ==
    \A h \in Handlers :
        Looping(h) /\ hl[h].force /\ hl[h].number = hlbuf =>
            /\ \A c \in Keys : c \in Before(h) => cmd[hl[h].number][c] = groups[hl[h].ft]
            /\ pc[h] \in {"ftcheck", "apply"} => hl[h].val = groups[hl[h].ft]

(* The store of a key: it, too, has the commands of the groups. *)
LEMMA ApplyRenews ==
  ASSUME Screen, Renewing, NEW h \in Handlers, Apply(h), hl[h].force,
         hl[h].number = hlbuf, NEW c \in Keys, NEW j \in 1..hl[h].i,
         c = Order[hl[h].ft][j]
  PROVE  cmd'[hl[h].number][c] = groups[hl[h].ft]
  <1>1. pc[h] = "apply" /\ cmd' = [cmd EXCEPT ![hl[h].number][Key(h)] = hl[h].val]
    BY DEF Apply, At
  <1>2. /\ hl[h].number \in Buffers /\ Key(h) \in Keys /\ cmd \in Table
        /\ hl[h].i \in 1..Len(Order[hl[h].ft])
    BY <1>1, LoopFacts DEF Screen, Waiting, TypeOK, ObjectOK, Looping
  <1>3. hl[h].val = groups[hl[h].ft]
    BY <1>1 DEF Renewing, Looping
  <1>4. CASE c = Key(h)
    BY <1>1, <1>2, <1>3, <1>4 DEF Table
  <1>5. CASE c # Key(h)
    <2>1. c \in Before(h)
      BY <1>2, <1>5 DEF Before, Key
    <2>2. cmd[hl[h].number][c] = groups[hl[h].ft]
      BY <1>1, <2>1 DEF Renewing, Looping
    <2> QED
      BY <1>1, <1>2, <1>5, <2>2 DEF Table
  <1> QED
    BY <1>4, <1>5

(* A forced update does not take the commands of the cache. *)
LEMMA RenewingStep ==
  ASSUME Screen, Renewing, NEW h \in Handlers, Step(h)
  PROVE  Renewing'
  <1> USE DEF Looping
  <1>0. /\ pc \in [Handlers -> Labels] /\ hl \in [Handlers -> LocalType]
        /\ hl[h] \in LocalType /\ TypeOK
    BY DEF Screen, Waiting, TypeOK, LocalsOK
  <1>1. /\ Active(h) /\ \A g \in Handlers \ {h} : pc'[g] = pc[g] /\ hl'[g] = hl[g]
    BY StepFrame DEF Screen, Waiting
  <1> DEFINE Good(g) ==
        Looping(g) /\ hl[g].force /\ hl[g].number = hlbuf =>
            /\ \A c \in Keys : c \in Before(g) => cmd[hl[g].number][c] = groups[hl[g].ft]
            /\ pc[g] \in {"ftcheck", "apply"} => hl[g].val = groups[hl[g].ft]
  <1>2. ASSUME NEW g \in Handlers \ {h} PROVE Good(g)'
    <2>1. SUFFICES ASSUME Looping(g) PROVE Good(g)'
      BY <1>1
    <2>2. ~Owner(h) /\ ~Disable(h)
      BY <1>1, <2>1, LoopFacts
         DEF Screen, Waiting, Control, Company, Active, Disable, At, Dead, Stale
    <2>3. UNCHANGED <<cmd, groups, hlbuf>>
      BY <2>2, OutsideFrame
    <2>4. Good(g)
      BY DEF Renewing
    <2> QED
      BY <1>1, <2>3, <2>4 DEF Before
  <1>3. Good(h)'
    <2>1. CASE BeginHighlight(h)
      <3>1. Looping(h)' => hl'[h].i = 1 /\ pc'[h] = "decide"
        BY <1>0, <2>1 DEF BeginHighlight, At, Return, Raise, Goto, SetLocal, Local,
                          TypeOK, LocalsOK, LocalsReady
      <3> QED
        BY <3>1 DEF Before
    <2>2. CASE Decide(h)
      <3>1. /\ pc[h] = "decide" /\ UNCHANGED <<cmd, groups>>
        BY <2>2 DEF Decide, At
      <3>0. SUFFICES ASSUME Looping(h)' PROVE Good(h)'
        OBVIOUS
      <3>2. \E v : /\ hl'[h] = [hl[h] EXCEPT !.val = v]
                   /\ hl[h].force /\ hl[h].number = hlbuf => v = groups[hl[h].ft]
        BY <1>0, <2>2, <3>0, <3>1, CacheFinds
           DEF Decide, SetLocal, Raise, Goto, Screen, NoKeyError, UseCache
      <3>3. /\ hl'[h].i = hl[h].i /\ hl'[h].ft = hl[h].ft /\ hl'[h].force = hl[h].force
            /\ hl'[h].number = hl[h].number
            /\ hl[h].force /\ hl[h].number = hlbuf => hl'[h].val = groups[hl[h].ft]
        BY <1>0, <3>2 DEF LocalType
      <3>4. hlbuf' = hlbuf
        BY <2>2, <3>1, CacheFinds DEF Decide, Screen, NoKeyError
      <3>5. Good(h)
        BY DEF Renewing
      <3> QED
        BY <3>1, <3>3, <3>4, <3>5 DEF Before
    <2>3. CASE CheckFiletype(h)
      <3>1. pc[h] = "ftcheck" /\ UNCHANGED <<cmd, groups>>
        BY <2>3 DEF CheckFiletype, At
      <3>2. Looping(h)' => hl' = hl /\ hlbuf' = hlbuf
        BY <1>0, <2>3 DEF CheckFiletype, Finish, Return, Raise, Goto
      <3>3. Good(h)
        BY DEF Renewing
      <3> QED
        BY <3>1, <3>2, <3>3 DEF Before
    <2>4. CASE Apply(h)
      <3>1. SUFFICES ASSUME Looping(h)', hl'[h].force, hl'[h].number = hlbuf'
                     PROVE  /\ \A c \in Keys : c \in Before(h)' =>
                                  cmd'[hl'[h].number][c] = groups'[hl'[h].ft]
                            /\ pc'[h] \notin {"ftcheck", "apply"}
        OBVIOUS
      <3>2. Advance(h) /\ pc[h] = "apply" /\ groups' = groups
        BY <2>4 DEF Apply, At
      <3>3. /\ pc'[h] = "decide" /\ hlbuf' = hlbuf
            /\ hl'[h].ft = hl[h].ft /\ hl'[h].number = hl[h].number
            /\ hl'[h].force = hl[h].force /\ hl'[h].i = hl[h].i + 1
        BY <1>0, <3>1, <3>2, AdvanceKeeps
      <3>4. ASSUME NEW c \in Keys, c \in Before(h)'
            PROVE  cmd'[hl[h].number][c] = groups[hl[h].ft]
        <4>1. \E j \in 1..hl[h].i : c = Order[hl[h].ft][j]
          BY <1>0, <3>3, <3>4 DEF LocalType, Before
        <4> QED
          BY <2>4, <3>1, <3>3, <4>1, ApplyRenews
      <3> QED
        BY <3>2, <3>3, <3>4
    <2>5. CASE \/ ReadFiletype(h) \/ CheckEnabled(h) \/ Clear(h) \/ Skip(h) \/ Drop(h)
               \/ Enter(h) \/ Select(h) \/ Parse(h)
               \/ ToggleRead(h) \/ Enable(h) \/ Disable(h)
      BY <1>0, <2>5 DEF ReadFiletype, CheckEnabled, Clear, Skip, Drop, Enter,
         Select, Parse, ToggleRead, Enable, Disable, Goto, Return, Raise
    <2> QED
      BY <2>1, <2>2, <2>3, <2>4, <2>5 DEF Step
  <1> QED
    BY <1>2, <1>3 DEF Renewing

(* No other step disturbs it. *)
LEMMA RenewingNext ==
  ASSUME Patient, Screen, Renewing, [Next]_vars
  PROVE  Renewing'
  <1>1. CASE \E h \in Handlers : Step(h)
    BY <1>1, RenewingStep
  <1>2. CASE ExecCommand \/ UNCHANGED vars
    BY <1>2 DEF ExecCommand, vars, object, caches, Renewing, Looping, Before
  <1>3. CASE User
    <2>1. \A h \in Handlers : ~Looping(h)'
      BY <1>3, UserFrame DEF Screen, Waiting, Looping, Active, Dead, Stale
    <2> QED
      BY <2>1 DEF Renewing
  <1> QED
    BY <1>1, <1>2, <1>3 DEF Next, Done

(* The last step of a forced update. *)
LEMMA LastStore ==
  ASSUME Patient, Screen, Renewing, [Next]_vars, NEW h \in Handlers,
         pc[h] = "apply", hl[h].force, pc'[h] = "idle", hl[h].number = hlbuf,
         NEW k \in KeysOf(hl[h].ft)
  PROVE  cmd'[hl[h].number][k] = groups[hl[h].ft]
  <1>0. pc \in [Handlers -> Labels]
    BY DEF Screen, Waiting, TypeOK, LocalsOK
  <1>1. Apply(h)
    <2>1. CASE \E g \in Handlers : Step(g)
      <3>1. Step(h)
        BY <2>1, StepFrame DEF Screen, Waiting
      <3> QED
        BY <3>1 DEF Step, ReadFiletype, CheckEnabled, Clear, Skip, Drop, Enter, Select,
           Parse, BeginHighlight, Decide, CheckFiletype, ToggleRead, Enable, Disable, At
    <2>2. CASE ExecCommand \/ UNCHANGED vars
      BY <2>2 DEF ExecCommand, vars
    <2>3. CASE User
      BY <2>3, UserFrame DEF Screen, Waiting
    <2> QED
      BY <2>1, <2>2, <2>3 DEF Next, Done
  <1>2. /\ hl[h].ft \in Filetypes /\ hl[h].i \in 1..Len(Order[hl[h].ft])
        /\ Order[hl[h].ft] \in Seq(Keys)
    BY LoopFacts DEF Screen, Looping
  <1>3. ~(hl[h].i < Len(Order[hl[h].ft]))
    BY <1>1, AdvanceKeeps DEF Apply, Screen, Waiting
  <1>4. k \in Keys /\ \E j \in 1..hl[h].i : k = Order[hl[h].ft][j]
    BY <1>2, <1>3, KeysOfKeys
  <1> QED
    BY <1>1, <1>4, ApplyRenews

(***************************************************************************)
(* With a patient user a forced update of the buffer that was highlighted  *)
(* last ends with the commands of the groups it has parsed stored for      *)
(* every key of the filetype.                                              *)
(***************************************************************************)
THEOREM ForceRefreshes ==
  ASSUME Patient PROVE Spec => ForceRefreshesLast
  <1> DEFINE Refreshed ==
        \A h \in Handlers :
            pc[h] = "apply" /\ hl[h].force /\ pc'[h] = "idle" /\ hl[h].number = hlbuf =>
                \A k \in KeysOf(hl[h].ft) :
                    cmd'[hl[h].number][k] = groups[hl[h].ft]
  <1>1. Init => Renewing
    BY DEF Init, Renewing, Looping
  <1>2. Screen /\ Renewing /\ [Next]_vars => Renewing'
    BY RenewingNext
  <1>3. Screen /\ Renewing /\ [Next]_vars => [Refreshed]_vars
    BY LastStore
  <1> HIDE DEF Refreshed
  <1>4. Spec => [][Refreshed]_vars
    BY <1>1, <1>2, <1>3, ScreenInvariant, PTL DEF Spec
  <1> QED
    BY <1>4 DEF ForceRefreshesLast, Refreshed

=============================================================================
