---------------------------- MODULE ReadTagsProofs ----------------------------
(***************************************************************************)
(* Proofs about ReadTags, for any files and arguments, any number of       *)
(* threads, any first capacities and any bounds.                           *)
(***************************************************************************)
EXTENDS ReadTags, TLAPS

-----------------------------------------------------------------------------
(* The arrays.                                                             *)

(* An array of ll_strsep is full at most. *)
Room(l) == l.num <= l.max /\ l.max <= l.room

(* The others always have room for one more. *)
Spare(l) == l.num < l.max /\ l.max <= l.room

LEMMA AddLineKeeps ==
  ASSUME NEW l \in List, Room(l)
  PROVE  AddLine(l) \in List /\ Room(AddLine(l))
  BY GrowthAssumption DEF List, Room, AddLine, Grown, Stored

LEMMA AddLineCounts ==
  ASSUME NEW l \in List
  PROVE  AddLine(l) \in List /\ AddLine(l).num = l.num + 1
  BY GrowthAssumption DEF List, AddLine, Grown, Stored

LEMMA AddBackupKeeps ==
  ASSUME NEW l \in List, Spare(l)
  PROVE  AddBackup(l) \in List /\ Spare(AddBackup(l))
  BY DEF List, Spare, AddBackup, Grown, Stored

(* A capacity of at least two grows by one half, rounded down: by one or more. *)
LEMMA AddToListKeeps ==
  ASSUME NEW l \in List, Spare(l), l.max >= 2
  PROVE  AddToList(l) \in List /\ Spare(AddToList(l)) /\ AddToList(l).max >= 2
<1>1. (l.max * 3) \div 2 \in Nat /\ (l.max * 3) \div 2 >= l.max + 1
  BY DEF List
<1>. QED  BY <1>1 DEF List, Spare, AddToList, Grown, Stored

LEMMA ListsStay ==
  ASSUME NEW l \in List
  PROVE  AddBackup(l) \in List /\ AddToList(l) \in List
<1>1. (l.max * 3) \div 2 \in Nat
  BY DEF List
<1>. QED  BY <1>1 DEF List, AddBackup, AddToList, Grown, Stored

LEMMA NewFoundSpare ==
  ASSUME NEW p \in Nat
  PROVE  /\ NewFound(p) \in List
         /\ p >= 2 => Spare(NewFound(p)) /\ NewFound(p).max >= 2
         /\ p = 0 => NewFound(p).num = 0
<1>1. p \div 2 \in Nat /\ (p >= 2 => p \div 2 >= 1)
  OBVIOUS
<1>. QED  BY <1>1 DEF NewFound, List, Spare

-----------------------------------------------------------------------------
(* Lines and parts of them.                                                *)

LEMMA PartOf ==
  ASSUME NEW S, NEW s \in Seq(S), NEW m \in Nat \ {0}, NEW n \in 0..Len(s)
  PROVE  /\ SubSeq(s, m, n) \in Seq(S)
         /\ n + 1 >= m => Len(SubSeq(s, m, n)) = n + 1 - m
  OBVIOUS

LEMMA Appended ==
  ASSUME NEW S, NEW s \in Seq(S), NEW e
  PROVE  /\ DOMAIN s = 1..Len(s) /\ Len(s) \in Nat
         /\ DOMAIN Append(s, e) = 1..(Len(s) + 1)
         /\ Append(s, e)[Len(s) + 1] = e
         /\ \A j \in DOMAIN s : Append(s, e)[j] = s[j] /\ j < Len(s) + 1
<1>1. s \in Seq(S \cup {e})
  OBVIOUS
<1>. QED  BY <1>1

LEMMA Rejoined ==
  ASSUME NEW S, NEW s \in Seq(S), NEW m \in 0..Len(s), NEW k \in (m + 1)..Len(s)
  PROVE  SubSeq(s, 1, m) \o SubSeq(s, m + 1, k) = SubSeq(s, 1, k)
  OBVIOUS

LEMMA Behind ==
  ASSUME NEW S, NEW s \in Seq(S), NEW c \in 0..Len(s), NEW b, b = SubSeq(s, c + 1, Len(s))
  PROVE  /\ Len(b) = Len(s) - c /\ Len(b) \in Nat
         /\ \A l \in 1..Len(b) : b[l] = s[c + l]
         /\ \A k \in 1..(Len(b) + 1) : SubSeq(b, 1, k - 1) = SubSeq(s, c + 1, c + k - 1)
         /\ \A k \in 1..Len(b) :
               /\ SubSeq(b, k + 1, Len(b)) = SubSeq(s, c + k + 1, Len(s))
               /\ Len(SubSeq(b, k + 1, Len(b))) = Len(s) - (c + k)
<1>1. Len(s) \in Nat /\ c \in Nat /\ Len(b) = Len(s) - c /\ b \in Seq(S)
  OBVIOUS
<1>2. \A l \in 1..Len(b) : b[l] = s[c + l]
  BY <1>1
<1>3. ASSUME NEW k \in 1..(Len(b) + 1)
      PROVE  SubSeq(b, 1, k - 1) = SubSeq(s, c + 1, c + k - 1)
  BY <1>1
<1>4. ASSUME NEW k \in 1..Len(b)
      PROVE  /\ SubSeq(b, k + 1, Len(b)) = SubSeq(s, c + k + 1, Len(s))
             /\ Len(SubSeq(b, k + 1, Len(b))) = Len(s) - (c + k)
  BY <1>1
<1>. QED  BY <1>1, <1>2, <1>3, <1>4

LEMMA Nth ==
  ASSUME NEW S, NEW s \in Seq(S), NEW k \in 1..Len(s)
  PROVE  s[k] \in S
  OBVIOUS

LEMMA NonEmpty ==
  ASSUME NEW S, NEW s \in Seq(S), s # <<>>
  PROVE  1 \in 1..Len(s) /\ s[1] \in S
  OBVIOUS

LEMMA LenNat ==
  ASSUME NEW S, NEW s \in Seq(S)
  PROVE  Len(s) \in Nat
  OBVIOUS

LEMMA UnsetIsSeq ==
  ASSUME NEW n \in Nat
  PROVE  Unset(n) \in Seq({"?"}) /\ Len(Unset(n)) = n
  BY DEF Unset

LEMMA PartsNat ==
  ASSUME NEW p \in Parts, Len(lines) \in Nat
  PROVE  p \in Nat
<1>. DEFINE q == Len(lines) \div Threads
<1>1. Threads \in Nat /\ Threads > 0
  BY ReadAssumption
<1>2. q \in Nat /\ Threads * q <= Len(lines)
  BY <1>1
<1>. HIDE DEF q
<1>3. (Threads - 1) * q \in Nat /\ Threads * q = (Threads - 1) * q + q
  BY <1>1, <1>2
<1>4. p = q \/ p = Len(lines) - ((Threads - 1) * q)
  BY DEF Parts, q
<1>. QED  BY <1>2, <1>3, <1>4

Genuine == Seq({"x", "y", "newline"})

(* No line begins within a line, or at an empty one. *)
LEMMA CutLine ==
  ASSUME NEW t \in Genuine, NEW c \in 0..Len(t), c > 0 => t[c] = "newline",
         NEW k \in 1..(Len(t) - c + 1),
         \A l \in 1..(k - 1) : t[c + l] # "newline",
         c + k <= Len(t) => t[c + k] = "newline"
  PROVE  /\ \A q \in Beginnings(t) : c < q /\ q <= c + k => q = c + 1 /\ k > 1
         /\ k > 1 => /\ c + 1 \in Beginnings(t)
                     /\ LineAt(t, c + 1) = SubSeq(t, c + 1, c + k - 1)
<1>1. Len(t) \in Nat /\ DOMAIN t = 1..Len(t) /\ c \in Nat /\ k \in Nat /\ k <= Len(t) - c + 1
  BY DEF Genuine
<1>2. ASSUME NEW q \in Beginnings(t), c < q, q <= c + k
      PROVE  q = c + 1 /\ k > 1
  <2>1. q \in 1..Len(t) /\ t[q] # "newline" /\ (q = 1 \/ t[q - 1] = "newline")
    BY <1>1 DEF Beginnings
  <2>2. q = c + 1
    <3>. SUFFICES ASSUME q # c + 1 PROVE FALSE
      OBVIOUS
    <3>1. q - 1 - c \in 1..(k - 1) /\ c + (q - 1 - c) = q - 1 /\ q # 1
      BY <1>1, <1>2, <2>1
    <3>2. t[q - 1] # "newline"
      BY <3>1
    <3>. QED  BY <2>1, <3>1, <3>2
  <2>3. k # 1
    BY <1>1, <2>1, <2>2
  <2>. QED  BY <1>1, <2>2, <2>3
<1>3. ASSUME k > 1
      PROVE  /\ c + 1 \in Beginnings(t)
             /\ LineAt(t, c + 1) = SubSeq(t, c + 1, c + k - 1)
  <2>1. c + 1 \in 1..Len(t) /\ t[c + 1] # "newline" /\ (c + 1 = 1 \/ t[c + 1 - 1] = "newline")
    BY <1>1, <1>3
  <2>. DEFINE IsEnd(e) == /\ \A d \in (c + 1)..e : t[d] # "newline"
                          /\ e = Len(t) \/ t[e + 1] = "newline"
              last == c + k - 1
  <2>2. last \in (c + 1)..Len(t) /\ IsEnd(last)
    <3>1. last \in (c + 1)..Len(t) /\ last + 1 = c + k
      BY <1>1, <1>3
    <3>2. ASSUME NEW d \in (c + 1)..last PROVE t[d] # "newline"
      <4>1. d - c \in 1..(k - 1) /\ c + (d - c) = d
        BY <1>1
      <4>. QED  BY <4>1
    <3>3. last = Len(t) \/ t[last + 1] = "newline"
      BY <1>1, <3>1
    <3>. QED  BY <3>1, <3>2, <3>3
  <2>3. ASSUME NEW e \in (c + 1)..Len(t), IsEnd(e) PROVE e = last
    <3>1. CASE e < last
      <4>1. e \in Int /\ last \in Int /\ c + 1 <= e /\ last <= Len(t)
        BY <1>1, <1>3, <2>2
      <4>2. e + 1 \in (c + 1)..last /\ e # Len(t)
        <5>1. \A i, j, m, n \in Int :
                 i < j /\ m <= i /\ j <= n => i + 1 \in m..j /\ i # n
          OBVIOUS
        <5>. HIDE DEF IsEnd, last
        <5>2. c + 1 \in Int /\ Len(t) \in Int
          BY <1>1
        <5>. QED  BY <3>1, <4>1, <5>1, <5>2
      <4>. QED  BY <2>2, <2>3, <4>2
    <3>2. CASE e > last
      <4>1. last + 1 \in (c + 1)..e /\ last # Len(t)
        BY <1>1, <2>2, <3>2
      <4>. QED  BY <2>2, <2>3, <4>1
    <3>. QED  BY <1>1, <3>1, <3>2
  <2>4. last = CHOOSE e \in (c + 1)..Len(t) : IsEnd(e)
    <3>. HIDE DEF IsEnd, last
    <3>. QED  BY <2>2, <2>3
  <2>5. LineAt(t, c + 1) = SubSeq(t, c + 1, CHOOSE e \in (c + 1)..Len(t) : IsEnd(e))
    BY DEF LineAt
  <2>6. c + 1 \in Beginnings(t)
    BY <1>1, <2>1 DEF Beginnings
  <2>. QED  BY <2>4, <2>5, <2>6
<1>. QED  BY <1>2, <1>3

-----------------------------------------------------------------------------
(* Types and arrays: the inductive invariant.                              *)

(* A file is being read. *)
Reading == {"plain_stat", "plain_read", "gz_size", "gz_open", "gz_read",
            "xz_info", "xz_open", "xz_read", "split"}

(* It is open. *)
Opening == {"plain_stat", "plain_read", "gz_size", "gz_read", "xz_info", "xz_read"}

(* The size of the text has been found. *)
Sized == {"plain_read", "xz_open", "xz_read"}

Chars == {"x", "y", "newline", "?"}

Sizes == [archive : Nat, text : Nat \cup {NoSize}]

Placed ==
    /\ pc \in Reading => next <= Len(args)
    /\ pc \in Opening \cup {"dead"} \/ fp = Closed
    /\ pc \in Sized => size.text \in Nat
    /\ nread < next

Found(l, p) == /\ p >= 2 => Spare(l) /\ l.max >= 2
               /\ p = 0 => l.num = 0

ListsOK ==
    /\ Room(lists.tags) /\ Spare(lists.backups)
    /\ Spare(lists.toks) /\ lists.toks.max >= 2
    /\ Found(lists.found, part)

IInv == TypeOK /\ Placed /\ ListsOK

USE ReadAssumption

LEMMA Typed ==
  ASSUME TypeOK
  PROVE  /\ args \in Seq([type : Types, name : Names])
         /\ disk \in [Names -> File \cup {Missing}]
         /\ next \in Nat \ {0} /\ nread \in Nat
         /\ Len(lines) \in Nat
<1>1. UNION {Contents[t] : t \in Types} \subseteq File \cup {Missing}
  OBVIOUS
<1>2. args \in Seq([type : Types, name : Names])
  BY DEF TypeOK
<1>3. disk \in [Names -> File \cup {Missing}]
  BY <1>1 DEF TypeOK
<1>4. Len(lines) \in Nat /\ Len(args) \in Nat
  BY <1>2, LenNat DEF TypeOK
<1>5. next \in Nat \ {0} /\ nread \in Nat
  BY <1>4 DEF TypeOK
<1>. QED  BY <1>2, <1>3, <1>4, <1>5

LEMMA HereTyped ==
  ASSUME TypeOK, next <= Len(args)
  PROVE  /\ Arg \in [type : Types, name : Names]
         /\ Here \in File \cup {Missing}
<1>1. next \in 1..Len(args)
  BY Typed
<1>2. Arg \in [type : Types, name : Names]
  BY <1>1, Typed, Nth DEF Arg
<1>. QED  BY <1>2, Typed DEF Here

LEMMA OpenTyped ==
  ASSUME TypeOK, next <= Len(args),
         pc \in Opening
  PROVE  Open \in File /\ Len(Open.text) \in Nat
<1>1. Open \in File
  BY HereTyped DEF TypeOK, Open, Opening
<1>. QED  BY <1>1 DEF File

LEMMA InitInv == Init => IInv
<1>. SUFFICES ASSUME Init PROVE IInv
  OBVIOUS
<1>. USE DEF Init
<1>1. /\ NewList(InitTags) \in List /\ NewList(InitBackups) \in List
      /\ NewList(InitStrings) \in List /\ NewFound(0) \in List
  BY GrowthAssumption, NewFoundSpare DEF NewList, List
<1>2. lists \in [{"tags", "backups", "toks", "found"} -> List]
  BY <1>1
<1>3. TypeOK
  <2>1. args \in Seq([type : Types, name : Names])
    OBVIOUS
  <2>2. next \in 1..(Len(args) + 1) /\ nread \in 0..Len(args)
    BY <2>1
  <2>3. lists.tags.num = Len(lines)
    BY DEF NewList
  <2>4. /\ lines \in Seq([from : DOMAIN args, text : Seq({"x", "y", "?"})])
        /\ buf \in Seq(Chars)
    OBVIOUS
  <2>5. size \in Sizes /\ stage \in [at : 0..Stages, stalled : BOOLEAN] /\ part \in Nat
    BY DEF Sizes, Stages
  <2>6. acts \in 0..MaxActs /\ disk \in [Names -> UNION {Contents[t] : t \in Types}]
    OBVIOUS
  <2>. QED  BY <1>2, <2>1, <2>2, <2>3, <2>4, <2>5, <2>6 DEF TypeOK, Sizes, Chars
<1>4. Placed
  BY DEF Placed, Reading, Opening, Sized
<1>5. ListsOK
  BY GrowthAssumption, NewFoundSpare DEF ListsOK, Room, Spare, NewList, Found
<1>. QED  BY <1>3, <1>4, <1>5 DEF IInv

LEMMA DieKeeps ==
  ASSUME IInv, Die
  PROVE  IInv'
  BY DEF IInv, Die, TypeOK, Placed, ListsOK, Reading, Opening, Sized,
         files, main, reader, Open, Here, Arg

(* A step of the reader that neither ends it nor begins to cut. *)
LEMMA GoToKeeps ==
  ASSUME IInv, next <= Len(args), NEW label \in Reading, GoTo(label),
         fp' \in {Closed, Linked} \cup File, torn' \in BOOLEAN, size' \in Sizes,
         stage' \in [at : 0..Stages, stalled : BOOLEAN], buf' \in Seq(Chars),
         IF label \in Opening THEN fp' # Closed /\ Open' # Missing ELSE fp' = Closed,
         label \in Sized => size'.text \in Nat
  PROVE  IInv'
<1>. USE DEF IInv, GoTo, files, main
<1>1. TypeOK'
  BY DEF TypeOK, Reading, Opening, Sized, Sizes, Chars
<1>2. Placed' /\ ListsOK'
  BY DEF Placed, ListsOK, Reading, Opening, Sized
<1>. QED  BY <1>1, <1>2

LEMMA ReturnKeeps ==
  ASSUME IInv, pc \in Reading \cup {"next"}, next <= Len(args), NEW c \in 0..1, Return(c)
  PROVE  IInv'
<1>. USE DEF IInv, Return, files
<1>1. next' \in 1..(Len(args) + 1) /\ nread' \in 0..Len(args) /\ nread' < next'
  BY Typed DEF TypeOK, Placed
<1>2. TypeOK'
  BY <1>1 DEF TypeOK
<1>3. Placed' /\ ListsOK'
  BY <1>1 DEF Placed, ListsOK, Reading, Opening, Sized
<1>. QED  BY <1>2, <1>3

LEMMA SplitKeeps ==
  ASSUME IInv, next <= Len(args), NEW b \in Seq(Chars), Split(b)
  PROVE  IInv'
<1>. USE DEF IInv, Split, files
<1>1. lists.backups \in List /\ Spare(lists.backups)
  BY DEF TypeOK, ListsOK
<1>2. AddBackup(lists.backups) \in List /\ Spare(AddBackup(lists.backups))
  BY <1>1, AddBackupKeeps
<1>3. /\ lists' \in [{"tags", "backups", "toks", "found"} -> List]
      /\ lists'.tags = lists.tags /\ lists'.toks = lists.toks
      /\ lists'.found = lists.found /\ lists'.backups = AddBackup(lists.backups)
  BY <1>2 DEF TypeOK
<1>4. TypeOK'
  BY <1>3 DEF TypeOK, Chars
<1>5. Placed' /\ ListsOK'
  BY <1>2, <1>3 DEF Placed, ListsOK, Reading, Opening, Sized
<1>. QED  BY <1>4, <1>5

(* The others change what is in the files, and what the open one is. *)
LEMMA OthersKeep == ASSUME IInv, Others PROVE IInv'
<1>. USE DEF IInv
<1>1. PICK n \in DOMAIN args : \E c \in Contents[args[n].type] : Write(args[n].name, c)
  BY DEF Others
<1>2. PICK c \in Contents[args[n].type] : Write(args[n].name, c)
  BY <1>1
<1>. DEFINE f == args[n].name
<1>3. args[n] \in [type : Types, name : Names]
  <2>1. args \in Seq([type : Types, name : Names]) /\ n \in 1..Len(args)
    BY Typed
  <2>. QED  BY <2>1, Nth
<1>4. f \in Names /\ c \in UNION {Contents[t] : t \in Types} /\ c \in File \cup {Missing}
  BY <1>3
<1>5. /\ UNCHANGED <<args, next, lines, nread, lists, part, pc, size, stage, buf>>
      /\ acts' = acts + 1 /\ acts < MaxActs
      /\ disk' = [disk EXCEPT ![f] = c]
      /\ IF fp = Linked /\ next <= Len(args) /\ Arg.name = f
         THEN torn' = TRUE /\ fp' = IF c = Missing THEN disk[f] ELSE fp
         ELSE UNCHANGED <<torn, fp>>
  BY <1>2 DEF Write, main
<1>. HIDE DEF f
<1>6. disk' \in [Names -> UNION {Contents[t] : t \in Types}] /\ acts' \in 0..MaxActs
  BY <1>4, <1>5 DEF TypeOK
<1>7. /\ fp' \in {Closed, Linked} \cup File /\ torn' \in BOOLEAN
      /\ pc \in Opening => fp' # Closed /\ Open' # Missing
  <2>1. CASE fp = Linked /\ next <= Len(args) /\ Arg.name = f
    <3>1. Here = disk[f] /\ Here' = c
      BY <2>1, <1>4, <1>5, Typed DEF Here, Arg, TypeOK
    <3>2. pc \in Opening
      BY <2>1, <1>2 DEF Write, Placed
    <3>3. Here \in File
      BY <2>1, <3>2, OpenTyped DEF Open
    <3>4. CASE c = Missing
      <4>1. fp' = Here /\ torn' = TRUE
        BY <2>1, <1>5, <3>1, <3>4
      <4>2. Open' = fp' /\ fp' \notin {Closed, Linked, Missing}
        BY <4>1, <3>3 DEF Open
      <4>. QED  BY <4>1, <4>2, <3>3
    <3>5. CASE c # Missing
      <4>1. fp' = Linked /\ torn' = TRUE
        BY <2>1, <1>5, <3>5
      <4>2. Open' = c
        BY <4>1, <3>1 DEF Open
      <4>. QED  BY <4>1, <4>2, <3>5
    <3>. QED  BY <3>4, <3>5
  <2>2. CASE ~ (fp = Linked /\ next <= Len(args) /\ Arg.name = f)
    <3>1. UNCHANGED <<torn, fp>>
      BY <2>2, <1>5
    <3>2. pc \in Opening => fp # Closed /\ Open # Missing /\ next <= Len(args)
      BY DEF TypeOK, Placed, Opening, Reading
    <3>3. pc \in Opening => Open' # Missing
      <4>1. CASE fp = Linked /\ next <= Len(args)
        <5>1. Arg.name # f /\ Arg.name \in Names
          BY <4>1, <2>2, HereTyped
        <5>2. Here' = Here
          BY <5>1, <1>4, <1>5, Typed DEF Here, Arg
        <5>. QED  BY <5>2, <3>1, <3>2, <4>1 DEF Open
      <4>2. CASE fp # Linked
        BY <4>2, <3>1, <3>2 DEF Open
      <4>. QED  BY <4>1, <4>2, <3>2
    <3>. QED  BY <3>1, <3>2, <3>3 DEF TypeOK
  <2>. QED  BY <2>1, <2>2
<1>8. TypeOK'
  BY <1>5, <1>6, <1>7 DEF TypeOK, Opening
<1>9. Placed' /\ ListsOK'
  BY <1>2, <1>5 DEF Write, Placed, ListsOK, Reading, Opening, Sized
<1>. QED  BY <1>8, <1>9

-----------------------------------------------------------------------------
(* The steps of the process.                                               *)

LEMMA PlainKeeps ==
  ASSUME IInv, OpenPlain \/ StatPlain \/ ReadPlain \/ EndPlain
  PROVE  IInv'
<1>1. next <= Len(args) /\ Here \in File \cup {Missing} /\ TypeOK
  BY HereTyped DEF IInv, OpenPlain, StatPlain, ReadPlain, EndPlain, At
<1>2. UNCHANGED <<args, disk, next>> => Here' = Here
  BY DEF Here, Arg
<1>3. CASE OpenPlain
  <2>1. CASE Here = Missing
    BY <1>3, <2>1, DieKeeps DEF OpenPlain
  <2>2. CASE Here # Missing
    <3>1. GoTo("plain_stat") /\ Opened
      BY <1>3, <2>2 DEF OpenPlain
    <3>2. Open' # Missing /\ fp' # Closed
      BY <3>1, <2>2, <1>2 DEF GoTo, files, main, Opened, Open
    <3>. QED
      BY <3>1, <3>2, <1>1, GoToKeeps
      DEF Opened, TypeOK, Reading, Opening, Sized, Sizes, Chars
  <2>. QED  BY <2>1, <2>2
<1>4. CASE StatPlain
  <2>1. CASE Here = Missing
    BY <1>4, <2>1, DieKeeps DEF StatPlain
  <2>2. CASE Here # Missing
    <3>1. /\ GoTo("plain_read") /\ UNCHANGED <<fp, torn, stage>> /\ buf' = <<>>
          /\ size' = [archive |-> Here.bytes, text |-> Here.bytes]
      BY <1>4, <2>2 DEF StatPlain
    <3>2. pc = "plain_stat" /\ UNCHANGED <<args, disk, next, fp>>
      BY <1>4, <3>1 DEF StatPlain, At, GoTo, files, main
    <3>3. Open' # Missing /\ fp' # Closed
      BY <3>2, <1>1, <1>2 DEF TypeOK, Open
    <3>4. size' \in Sizes /\ size'.text \in Nat /\ buf' \in Seq(Chars)
      BY <3>1, <1>1, <2>2 DEF File, Sizes
    <3>. QED  BY <3>1, <3>3, <3>4, <1>1, GoToKeeps DEF TypeOK, Reading, Opening, Sized
  <2>. QED  BY <2>1, <2>2
<1>5. CASE ReadPlain
  <2>1. /\ GoTo("plain_read") /\ UNCHANGED <<fp, torn, size, stage>>
        /\ pc = "plain_read"
        /\ \E k \in (Len(buf) + 1)..Least(size.text, Len(Open.text)) :
              buf' = buf \o SubSeq(Open.text, Len(buf) + 1, k)
    BY <1>5 DEF ReadPlain, At
  <2>2. UNCHANGED <<args, disk, next, fp>>
    BY <2>1 DEF GoTo, files, main
  <2>3. Open' # Missing /\ fp' # Closed
    BY <2>1, <2>2, <1>1, <1>2 DEF TypeOK, Open
  <2>4. size.text \in Nat
    BY <2>1 DEF IInv, Placed, Sized
  <2>5. buf' \in Seq(Chars)
    <3>1. PICK k \in (Len(buf) + 1)..Least(size.text, Len(Open.text)) :
             buf' = buf \o SubSeq(Open.text, Len(buf) + 1, k)
      BY <2>1
    <3>2. Open.text \in Seq({"x", "y", "newline"}) /\ buf \in Seq(Chars)
      BY <2>1, <1>1, OpenTyped DEF Opening, File, TypeOK, Chars
    <3>3. k \in 0..Len(Open.text) /\ Len(buf) + 1 \in Nat \ {0}
      BY <3>2, <2>1, <2>4 DEF Least
    <3>4. SubSeq(Open.text, Len(buf) + 1, k) \in Seq({"x", "y", "newline"})
      BY <3>2, <3>3, PartOf
    <3>5. SubSeq(Open.text, Len(buf) + 1, k) \in Seq(Chars)
      BY <3>4 DEF Chars
    <3>. QED  BY <3>1, <3>2, <3>5
  <2>. QED  BY <2>1, <2>3, <2>4, <2>5, <1>1, GoToKeeps DEF TypeOK, Reading, Opening, Sizes
<1>6. CASE EndPlain
  <2>1. buf \in Seq(Chars) /\ (Split(buf) \/ Return(1)) /\ pc \in Reading
    BY <1>1, <1>6 DEF EndPlain, At, TypeOK, Chars, Reading
  <2>. QED  BY <2>1, <1>1, SplitKeeps, ReturnKeeps
<1>. QED  BY <1>3, <1>4, <1>5, <1>6

LEMMA GzipKeeps ==
  ASSUME IInv, OpenGzip \/ SizeGzip \/ ReopenGzip \/ ReadGzip
  PROVE  IInv'
<1>1. next <= Len(args) /\ Here \in File \cup {Missing} /\ TypeOK
  BY HereTyped DEF IInv, OpenGzip, SizeGzip, ReopenGzip, ReadGzip, At
<1>2. UNCHANGED <<args, disk, next>> => Here' = Here
  BY DEF Here, Arg
<1>3. CASE OpenGzip
  <2>1. CASE Here = Missing
    BY <1>3, <2>1, DieKeeps DEF OpenGzip
  <2>2. CASE Here # Missing
    <3>1. /\ GoTo("gz_size") /\ fp' = Linked /\ torn' = FALSE /\ UNCHANGED <<stage, buf>>
          /\ size' = [archive |-> Here.bytes, text |-> NoSize]
      BY <1>3, <2>2 DEF OpenGzip
    <3>2. Open' # Missing /\ fp' # Closed
      BY <3>1, <2>2, <1>2 DEF GoTo, files, main, Open
    <3>3. size' \in Sizes
      BY <3>1, <1>1, <2>2 DEF File, Sizes
    <3>. QED
      BY <3>1, <3>2, <3>3, <1>1, GoToKeeps
      DEF TypeOK, Reading, Opening, Sized, Chars
  <2>. QED  BY <2>1, <2>2
<1>4. CASE SizeGzip
  <2>1. CASE size.archive > Open.bytes
    BY <1>4, <2>1, DieKeeps DEF SizeGzip
  <2>2. CASE ~ (size.archive > Open.bytes)
    <3>1. /\ GoTo("gz_open") /\ fp' = Closed /\ UNCHANGED <<torn, stage, buf>>
          /\ \E n \in IF size.archive = 0 THEN {NoSize}
                       ELSE IF Open.whole /\ Open.bytes = size.archive
                       THEN {Len(Open.text)} ELSE 0..MaxText :
                size' = [size EXCEPT !.text = n]
      BY <1>4, <2>2 DEF SizeGzip
    <3>2. Len(Open.text) \in Nat
      BY <1>1, <1>4, OpenTyped DEF SizeGzip, At, Opening
    <3>3. size' \in Sizes
      <4>1. PICK n : n \in Nat \cup {NoSize} /\ size' = [size EXCEPT !.text = n]
        BY <3>1, <3>2
      <4>. QED  BY <4>1, <1>1 DEF TypeOK, Sizes
    <3>. QED
      BY <3>1, <3>3, <1>1, GoToKeeps DEF TypeOK, Reading, Opening, Sized, Chars
  <2>. QED  BY <2>1, <2>2
<1>5. CASE ReopenGzip
  <2>1. CASE Here = Missing
    BY <1>1, <1>5, <2>1, ReturnKeeps DEF ReopenGzip, At, Reading
  <2>2. CASE Here # Missing
    <3>1. GoTo("gz_read") /\ Opened
      BY <1>5, <2>2 DEF ReopenGzip
    <3>2. Open' # Missing /\ fp' # Closed
      BY <3>1, <2>2, <1>2 DEF GoTo, files, main, Opened, Open
    <3>. QED
      BY <3>1, <3>2, <1>1, GoToKeeps
      DEF Opened, TypeOK, Reading, Opening, Sized, Sizes, Chars
  <2>. QED  BY <2>1, <2>2
<1>6. CASE ReadGzip
  <2>1. Open.text \in Seq(Chars) /\ Len(Open.text) \in Nat
    <3>1. Open.text \in Seq({"x", "y", "newline"}) /\ Len(Open.text) \in Nat
      BY <1>1, <1>6, OpenTyped DEF ReadGzip, At, Opening, File
    <3>. QED  BY <3>1 DEF Chars
  <2>2. \A n \in Nat : Unset(n) \in Seq(Chars)
    BY UnsetIsSeq DEF Chars
  <2>3. CASE size.text = NoSize
    <3>1. Die \/ \E n \in 0..1 : Split(Unset(n))
      BY <1>6, <2>3 DEF ReadGzip
    <3>2. ASSUME NEW n \in 0..1, Split(Unset(n)) PROVE IInv'
      BY <3>2, <2>2, <1>1, SplitKeeps
    <3>. QED  BY <3>1, <3>2, DieKeeps
  <2>4. CASE size.text # NoSize
    <3>. DEFINE most == Least(size.text, Len(Open.text))
    <3>1. size.text \in Nat /\ most \in 0..Len(Open.text)
      BY <2>1, <2>4, <1>1 DEF TypeOK, Least
    <3>2. PICK n \in IF Open.whole THEN {most} ELSE (-1)..most :
             IF n = size.text THEN Split(SubSeq(Open.text, 1, n))
             ELSE IF n = 0 THEN Split(Unset(size.text)) ELSE Die
      BY <1>6, <2>4 DEF ReadGzip
    <3>. HIDE DEF most
    <3>3. CASE n = size.text
      <4>1. n \in 0..Len(Open.text)
        BY <3>1, <3>2, <3>3
      <4>2. SubSeq(Open.text, 1, n) \in Seq(Chars)
        BY <4>1, <2>1, PartOf
      <4>. QED  BY <3>2, <3>3, <4>2, <1>1, SplitKeeps
    <3>4. CASE n # size.text /\ n = 0
      BY <3>1, <3>2, <3>4, <2>2, <1>1, SplitKeeps
    <3>. QED  BY <3>2, <3>3, <3>4, DieKeeps
  <2>. QED  BY <2>3, <2>4
<1>. QED  BY <1>3, <1>4, <1>5, <1>6

LEMMA XzKeeps ==
  ASSUME IInv, \/ OpenXz \/ InfoGoesOn \/ InfoStalls \/ InfoFails
               \/ ReopenXz \/ ReadXz \/ ReadXzFails
  PROVE  IInv'
<1>1. next <= Len(args) /\ Here \in File \cup {Missing} /\ TypeOK
  BY HereTyped DEF IInv, OpenXz, InfoGoesOn, InfoStalls, InfoFails,
                   ReopenXz, ReadXz, ReadXzFails, At
<1>2. UNCHANGED <<args, disk, next>> => Here' = Here
  BY DEF Here, Arg
<1>3. CASE OpenXz
  <2>1. CASE Here = Missing \/ Here.bytes = 0
    BY <1>3, <2>1, DieKeeps DEF OpenXz
  <2>2. CASE ~ (Here = Missing \/ Here.bytes = 0)
    <3>1. /\ GoTo("xz_info") /\ fp' = Linked /\ torn' = FALSE /\ UNCHANGED buf
          /\ size' = [archive |-> Here.bytes, text |-> 0]
          /\ stage' = [at |-> 0, stalled |-> FALSE]
      BY <1>3, <2>2 DEF OpenXz
    <3>2. Open' # Missing /\ fp' # Closed
      BY <3>1, <2>2, <1>2 DEF GoTo, files, main, Open
    <3>3. size' \in Sizes /\ stage' \in [at : 0..Stages, stalled : BOOLEAN]
      BY <3>1, <1>1, <2>2 DEF File, Sizes, Stages
    <3>. QED
      BY <3>1, <3>2, <3>3, <1>1, GoToKeeps
      DEF TypeOK, Reading, Opening, Sized, Chars
  <2>. QED  BY <2>1, <2>2
<1>4. CASE InfoGoesOn
  <2>1. pc = "xz_info"
    BY <1>4 DEF InfoGoesOn, At
  <2>2. CASE stage.at < Stages
    <3>1. /\ GoTo("xz_info") /\ UNCHANGED <<fp, torn, size, buf>>
          /\ stage' = [at |-> stage.at + 1, stalled |-> FALSE]
      BY <1>4, <2>2 DEF InfoGoesOn
    <3>2. Open' # Missing /\ fp' # Closed
      BY <3>1, <2>1, <1>1, <1>2 DEF GoTo, files, main, TypeOK, Open
    <3>3. stage' \in [at : 0..Stages, stalled : BOOLEAN]
      BY <3>1, <2>2, <1>1 DEF TypeOK, Stages
    <3>. QED
      BY <3>1, <3>2, <3>3, <1>1, GoToKeeps
      DEF TypeOK, Reading, Opening, Sized, Sizes, Chars
  <2>3. CASE ~ (stage.at < Stages)
    <3>1. /\ GoTo("xz_open") /\ fp' = Closed /\ UNCHANGED <<torn, stage, buf>>
          /\ \E n \in IF Intact THEN {Len(Open.text)} ELSE 0..MaxText :
                size' = [size EXCEPT !.text = n]
      BY <1>4, <2>3 DEF InfoGoesOn
    <3>2. Len(Open.text) \in Nat
      BY <1>1, <2>1, OpenTyped DEF Opening
    <3>3. size' \in Sizes /\ size'.text \in Nat
      <4>1. PICK n \in Nat : size' = [size EXCEPT !.text = n]
        BY <3>1, <3>2
      <4>. QED  BY <4>1, <1>1 DEF TypeOK, Sizes
    <3>. QED
      BY <3>1, <3>3, <1>1, GoToKeeps DEF TypeOK, Reading, Opening, Sized, Chars
  <2>. QED  BY <2>2, <2>3
<1>5. CASE InfoStalls
  <2>1. pc = "xz_info"
    BY <1>5 DEF InfoStalls, At
  <2>2. CASE stage.stalled
    BY <1>5, <2>2, DieKeeps DEF InfoStalls
  <2>3. CASE ~ stage.stalled
    <3>1. /\ GoTo("xz_info") /\ UNCHANGED <<fp, torn, size, buf>>
          /\ stage' = [stage EXCEPT !.stalled = TRUE]
      BY <1>5, <2>3 DEF InfoStalls
    <3>2. Open' # Missing /\ fp' # Closed
      BY <3>1, <2>1, <1>1, <1>2 DEF GoTo, files, main, TypeOK, Open
    <3>3. stage' \in [at : 0..Stages, stalled : BOOLEAN]
      BY <3>1, <1>1 DEF TypeOK
    <3>. QED
      BY <3>1, <3>2, <3>3, <1>1, GoToKeeps
      DEF TypeOK, Reading, Opening, Sized, Sizes, Chars
  <2>. QED  BY <2>2, <2>3
<1>6. CASE InfoFails \/ ReadXzFails
  BY <1>6, DieKeeps DEF InfoFails, ReadXzFails
<1>7. CASE ReopenXz
  <2>1. CASE Here = Missing
    BY <1>7, <2>1, DieKeeps DEF ReopenXz
  <2>2. CASE Here # Missing
    <3>1. GoTo("xz_read") /\ Opened
      BY <1>7, <2>2 DEF ReopenXz
    <3>2. Open' # Missing /\ fp' # Closed
      BY <3>1, <2>2, <1>2 DEF GoTo, files, main, Opened, Open
    <3>3. size'.text \in Nat
      BY <3>1, <1>7 DEF Opened, ReopenXz, At, IInv, Placed, Sized
    <3>. QED
      BY <3>1, <3>2, <3>3, <1>1, GoToKeeps
      DEF Opened, TypeOK, Reading, Opening, Sized, Sizes, Chars
  <2>. QED  BY <2>1, <2>2
<1>8. CASE ReadXz
  <2>1. Open.text \in Seq(Chars) /\ Len(Open.text) \in Nat
    <3>1. Open.text \in Seq({"x", "y", "newline"}) /\ Len(Open.text) \in Nat
      BY <1>1, <1>8, OpenTyped DEF ReadXz, At, Opening, File
    <3>. QED  BY <3>1 DEF Chars
  <2>2. size.text - Len(Open.text) \in Nat
    BY <1>8, <2>1 DEF ReadXz, At, IInv, Placed, Sized
  <2>3. Unset(size.text - Len(Open.text)) \in Seq(Chars)
    BY <2>2, UnsetIsSeq DEF Chars
  <2>4. Open.text \o Unset(size.text - Len(Open.text)) \in Seq(Chars)
    BY <2>1, <2>3
  <2>. QED  BY <1>1, <1>8, <2>4, SplitKeeps DEF ReadXz
<1>. QED  BY <1>3, <1>4, <1>5, <1>6, <1>7, <1>8

(* A line has no newline in it. *)
LEMMA LineTyped ==
  ASSUME TypeOK, NEW k \in 1..(Len(buf) + 1), IsBreak(k)
  PROVE  SubSeq(buf, 1, k - 1) \in Seq({"x", "y", "?"})
<1>1. buf \in Seq(Chars) /\ Len(buf) \in Nat
  BY LenNat DEF TypeOK, Chars
<1>2. k - 1 \in 0..Len(buf) /\ \A l \in 1..(k - 1) : buf[l] \in Chars /\ buf[l] # "newline"
  BY <1>1, Nth DEF IsBreak
<1>3. \A l \in 1..(k - 1) : buf[l] \in {"x", "y", "?"}
  BY <1>2 DEF Chars
<1>4. SubSeq(buf, 1, k - 1) = [l \in 1..(k - 1) |-> buf[l]]
  BY <1>1, <1>2
<1>. QED  BY <1>2, <1>3, <1>4

LEMMA SplitLineKeeps == ASSUME IInv, SplitLine PROVE IInv'
<1>. USE DEF IInv
<1>1. /\ next \in 1..Len(args) /\ nread \in 0..(next - 1) /\ fp = Closed
      /\ buf \in Seq(Chars) /\ Len(buf) \in Nat
  BY Typed, LenNat DEF SplitLine, Placed, Reading, Opening, TypeOK, Chars
<1>2. PICK k \in 1..(Len(buf) + 1) :
         /\ IsBreak(k)
         /\ IF k = 1 THEN UNCHANGED <<lines, lists>> ELSE AddTag(SubSeq(buf, 1, k - 1))
         /\ IF k > Len(buf) THEN next' = next + 1 /\ nread' = nread + 1 /\ pc' = "next"
                            ELSE UNCHANGED <<next, nread, pc>>
         /\ buf' = SubSeq(buf, k + 1, Len(buf))
  BY DEF SplitLine
<1>3. UNCHANGED <<files, fp, torn, size, stage, part>>
  BY DEF SplitLine
<1>4. buf' \in Seq(Chars)
  BY <1>1, <1>2, PartOf
<1>5. /\ lists' \in [{"tags", "backups", "toks", "found"} -> List]
      /\ lines' \in Seq([from : DOMAIN args, text : Seq({"x", "y", "?"})])
      /\ lists'.tags.num = Len(lines') /\ Room(lists'.tags)
      /\ lists'.backups = lists.backups /\ lists'.toks = lists.toks
      /\ lists'.found = lists.found
  <2>1. CASE k = 1
    BY <1>2, <2>1 DEF TypeOK, ListsOK
  <2>2. CASE k # 1
    <3>1. /\ lines' = Append(lines, [from |-> next, text |-> SubSeq(buf, 1, k - 1)])
          /\ lists' = [lists EXCEPT !.tags = AddLine(@)]
      BY <1>2, <2>2 DEF AddTag
    <3>2. /\ AddLine(lists.tags) \in List /\ Room(AddLine(lists.tags))
          /\ AddLine(lists.tags).num = Len(lines) + 1
      BY AddLineKeeps, AddLineCounts DEF TypeOK, ListsOK
    <3>3. SubSeq(buf, 1, k - 1) \in Seq({"x", "y", "?"})
      BY <1>2, LineTyped
    <3>4. next \in DOMAIN args
      BY <1>1, Typed
    <3>5. /\ lines' \in Seq([from : DOMAIN args, text : Seq({"x", "y", "?"})])
          /\ Len(lines') = Len(lines) + 1
      BY <3>1, <3>3, <3>4 DEF TypeOK
    <3>. QED  BY <3>1, <3>2, <3>5 DEF TypeOK
  <2>. QED  BY <2>1, <2>2
<1>6. /\ next' \in 1..(Len(args) + 1) /\ nread' \in 0..Len(args) /\ nread' < next'
      /\ pc' \in {"next", "split"} /\ (pc' = "split" => next' <= Len(args))
  BY <1>1, <1>2, Typed DEF SplitLine
<1>7. TypeOK'
  BY <1>3, <1>4, <1>5, <1>6 DEF files, TypeOK, Chars
<1>8. Placed'
  BY <1>1, <1>3, <1>6 DEF files, Placed, Reading, Opening, Sized
<1>9. ListsOK'
  BY <1>3, <1>5 DEF ListsOK
<1>. QED  BY <1>7, <1>8, <1>9

LEMMA MainKeeps ==
  ASSUME IInv, \/ Unknown \/ AllRead \/ AddWord \/ Search \/ AddFound \/ Ended
  PROVE  IInv'
<1>. USE DEF IInv
<1>1. CASE Unknown
  BY <1>1, ReturnKeeps DEF Unknown, At
<1>2. CASE AllRead
  <2>1. CASE nread = 0
    BY <1>2, <2>1, DieKeeps DEF AllRead
  <2>2. CASE nread # 0
    <3>1. /\ pc = "next" /\ pc' = "words"
          /\ lists' = [lists EXCEPT !.backups = AddBackup(@)]
          /\ UNCHANGED <<files, reader, next, lines, nread, part>>
      BY <1>2, <2>2 DEF AllRead
    <3>2. AddBackup(lists.backups) \in List /\ Spare(AddBackup(lists.backups))
      BY AddBackupKeeps DEF TypeOK, ListsOK
    <3>3. TypeOK'
      BY <3>1, <3>2 DEF files, reader, TypeOK
    <3>4. Placed' /\ ListsOK'
      BY <3>1, <3>2 DEF files, reader, TypeOK, Placed, ListsOK, Reading, Opening, Sized
    <3>. QED  BY <3>3, <3>4
  <2>. QED  BY <2>1, <2>2
<1>3. CASE AddWord
  <2>1. /\ lists' = [lists EXCEPT !.toks = AddToList(@)]
        /\ UNCHANGED <<files, reader, next, lines, nread, part, pc>> /\ pc = "words"
    BY <1>3 DEF AddWord
  <2>2. /\ AddToList(lists.toks) \in List /\ Spare(AddToList(lists.toks))
        /\ AddToList(lists.toks).max >= 2
    BY AddToListKeeps DEF TypeOK, ListsOK
  <2>3. TypeOK'
    BY <2>1, <2>2 DEF files, reader, TypeOK
  <2>4. Placed' /\ ListsOK'
    BY <2>1, <2>2 DEF files, reader, TypeOK, Placed, ListsOK, Reading, Opening, Sized
  <2>. QED  BY <2>3, <2>4
<1>4. CASE Search
  <2>1. CASE lines = <<>>
    BY <1>4, <2>1, DieKeeps DEF Search
  <2>2. CASE lines # <<>>
    <3>1. /\ pc' = "search" /\ pc = "words"
          /\ UNCHANGED <<files, reader, next, lines, nread>>
          /\ \E p \in Parts : part' = p /\ lists' = [lists EXCEPT !.found = NewFound(p)]
      BY <1>4, <2>2 DEF Search
    <3>2. PICK p \in Parts : part' = p /\ lists' = [lists EXCEPT !.found = NewFound(p)]
      BY <3>1
    <3>3. p \in Nat
      BY Typed, PartsNat
    <3>4. NewFound(p) \in List /\ Found(NewFound(p), p)
      BY <3>3, NewFoundSpare DEF Found
    <3>5. TypeOK'
      BY <3>1, <3>2, <3>3, <3>4 DEF files, reader, TypeOK
    <3>6. Placed' /\ ListsOK'
      BY <3>1, <3>2, <3>4
      DEF files, reader, TypeOK, Placed, ListsOK, Reading, Opening, Sized
    <3>. QED  BY <3>5, <3>6
  <2>. QED  BY <2>1, <2>2
<1>5. CASE AddFound
  <2>1. /\ lists' = [lists EXCEPT !.found = AddToList(@)] /\ lists.found.num < part
        /\ UNCHANGED <<files, reader, next, lines, nread, part, pc>> /\ pc = "search"
    BY <1>5 DEF AddFound
  <2>2. AddToList(lists.found) \in List
    BY ListsStay DEF TypeOK
  <2>3. Found(AddToList(lists.found), part)
    BY <2>1, AddToListKeeps DEF TypeOK, ListsOK, Found
  <2>4. TypeOK'
    BY <2>1, <2>2 DEF files, reader, TypeOK
  <2>5. Placed' /\ ListsOK'
    BY <2>1, <2>2, <2>3 DEF files, reader, TypeOK, Placed, ListsOK, Reading, Opening, Sized
  <2>. QED  BY <2>4, <2>5
<1>6. CASE Ended
  <2>1. TypeOK'
    BY <1>6 DEF Ended, files, main, reader, TypeOK
  <2>2. Placed' /\ ListsOK'
    BY <1>6 DEF Ended, files, main, reader, Placed, ListsOK, Reading, Opening, Sized
  <2>. QED  BY <2>1, <2>2
<1>. QED  BY <1>1, <1>2, <1>3, <1>4, <1>5, <1>6

LEMMA NextInv == IInv /\ [Next]_vars => IInv'
<1>. SUFFICES ASSUME IInv, [Next]_vars PROVE IInv'
  OBVIOUS
<1>1. CASE UNCHANGED vars
  BY <1>1 DEF vars, files, main, reader, IInv, TypeOK, Placed, ListsOK, Open, Here, Arg
<1>2. CASE Step
  BY <1>2, PlainKeeps, GzipKeeps, XzKeeps, SplitLineKeeps, MainKeeps DEF Step
<1>3. CASE Others
  BY <1>3, OthersKeep
<1>. QED  BY <1>1, <1>2, <1>3 DEF Next, Stopped

-----------------------------------------------------------------------------
(* What is in a line: a second invariant on top of the first.              *)

(* Until others act, every file is what its argument says. *)
Proper == acts = 0 => \A n \in DOMAIN args : disk[args[n].name] \in Contents[args[n].type]

LinesGenuine ==
    \A k \in DOMAIN lines :
        Quiet \/ args[lines[k].from].type = "none" => lines[k].text \in Genuine

BufGenuine ==
    /\ pc \in {"plain_read", "split"} /\ Arg.type = "none" => buf \in Genuine
    /\ pc = "split" /\ Quiet => buf \in Genuine

(* The sizes that have been found at a label. *)
Right(label, s) ==
    /\ label \in {"gz_size", "xz_info", "xz_open", "xz_read"} => s.archive = Here.bytes
    /\ label \in {"gz_open", "gz_read", "xz_open", "xz_read"} => s.text = Len(Here.text)

Calm ==
    /\ pc \in {"words", "search", "done"} => next > Len(args)
    /\ Quiet => /\ ~ torn /\ fp \in {Closed, Linked}
                /\ nread = next - 1
                /\ pc \in Reading => Right(pc, size)
                /\ pc = "dead" => lines = <<>> /\ next > Len(args)

QInv == Proper /\ LinesGenuine /\ BufGenuine /\ Calm

LEMMA InitQuiet == Init => QInv
<1>. SUFFICES ASSUME Init PROVE QInv
  OBVIOUS
<1>1. Proper /\ LinesGenuine /\ BufGenuine
  BY DEF Init, Proper, LinesGenuine, BufGenuine
<1>2. Calm
  BY DEF Init, Calm, Reading
<1>. QED  BY <1>1, <1>2 DEF QInv

LEMMA QuietSame == UNCHANGED files => (Quiet' <=> Quiet)
  BY DEF files, Quiet

(* A file nobody touches is there and whole, and a compressed one not too small. *)
LEMMA QuietHere ==
  ASSUME IInv, QInv, Quiet, next <= Len(args)
  PROVE  /\ Here \in File /\ Here.whole
         /\ Arg.type \in {"gzip", "lzma"} => Here.bytes > 0
         /\ Arg.type # "other"
<1>1. next \in DOMAIN args /\ Here \in File \cup {Missing}
  BY Typed, HereTyped DEF IInv
<1>2. Here # Missing /\ Here.whole /\ Arg.type # "other"
  BY <1>1 DEF Quiet, Here, Arg
<1>3. Here \in Contents[Arg.type]
  BY <1>1 DEF Quiet, QInv, Proper, Here, Arg
<1>4. Arg.type \in {"gzip", "lzma"} => Here.bytes > 0
  BY <1>2, <1>3
<1>. QED  BY <1>1, <1>2, <1>4

(* Nobody has changed the open file. *)
LEMMA QuietOpen ==
  ASSUME IInv, QInv, Quiet, next <= Len(args), pc \in Opening
  PROVE  Open = Here /\ ~ torn /\ Right(pc, size)
<1>1. fp # Closed
  BY DEF IInv, TypeOK, Opening
<1>. QED  BY <1>1 DEF QInv, Calm, Open, Opening, Reading

LEMMA DieQuiet ==
  ASSUME QInv, Die, Quiet => lines = <<>> /\ next > Len(args)
  PROVE  QInv'
<1>1. UNCHANGED <<files, main, reader>> /\ pc' = "dead"
  BY DEF Die
<1>2. Quiet' <=> Quiet
  BY <1>1, QuietSame
<1>3. Proper' /\ LinesGenuine' /\ BufGenuine'
  BY <1>1, <1>2
  DEF files, main, reader, QInv, Proper, LinesGenuine, BufGenuine
<1>4. Calm'
  BY <1>1, <1>2 DEF files, main, reader, QInv, Calm, Reading
<1>. QED  BY <1>3, <1>4 DEF QInv

LEMMA GoToQuiet ==
  ASSUME QInv, NEW label \in Reading \ {"split"}, GoTo(label),
         next <= Len(args),
         label = "plain_read" /\ Arg.type = "none" => buf' \in Genuine,
         pc # "dead",
         Quiet => ~ torn' /\ fp' \in {Closed, Linked} /\ Right(label, size')
  PROVE  QInv'
<1>1. UNCHANGED <<args, disk, acts, next, lines, nread>> /\ pc' = label /\ UNCHANGED files
  BY DEF GoTo, files, main
<1>2. (Quiet' <=> Quiet) /\ Here' = Here /\ Arg' = Arg
  BY <1>1, QuietSame DEF Here, Arg
<1>3. Proper' /\ LinesGenuine'
  BY <1>1, <1>2 DEF QInv, Proper, LinesGenuine
<1>4. BufGenuine'
  BY <1>1, <1>2 DEF BufGenuine, Reading
<1>5. Calm'
  BY <1>1, <1>2 DEF QInv, Calm, Reading, Right
<1>. QED  BY <1>3, <1>4, <1>5 DEF QInv

LEMMA ReturnQuiet ==
  ASSUME IInv, QInv, Return(1), pc \in Reading
  PROVE  QInv'
<1>1. /\ UNCHANGED <<args, disk, acts, lines, torn>> /\ UNCHANGED files
      /\ next' = next + 1 /\ nread' = nread + 1 /\ pc' = "next" /\ fp' = Closed
  BY DEF Return, files
<1>2. (Quiet' <=> Quiet)
  BY <1>1, QuietSame
<1>3. Proper' /\ LinesGenuine' /\ BufGenuine'
  BY <1>1, <1>2 DEF QInv, Proper, LinesGenuine, BufGenuine
<1>4. Calm'
  BY <1>1, <1>2, Typed DEF IInv, QInv, Calm, Reading
<1>. QED  BY <1>3, <1>4 DEF QInv

LEMMA SplitQuiet ==
  ASSUME QInv, NEW b, Split(b), next <= Len(args), pc # "dead",
         Quiet \/ Arg.type = "none" => b \in Genuine
  PROVE  QInv'
<1>1. /\ UNCHANGED <<args, disk, acts, next, lines, nread, torn>> /\ UNCHANGED files
      /\ pc' = "split" /\ fp' = Closed /\ buf' = b
  BY DEF Split, files
<1>2. (Quiet' <=> Quiet) /\ Arg' = Arg
  BY <1>1, QuietSame DEF Arg
<1>3. Proper' /\ LinesGenuine' /\ BufGenuine'
  BY <1>1, <1>2 DEF QInv, Proper, LinesGenuine, BufGenuine
<1>4. Calm'
  BY <1>1, <1>2 DEF QInv, Calm, Reading, Right
<1>. QED  BY <1>3, <1>4 DEF QInv

LEMMA OthersQuiet == ASSUME IInv, QInv, Others PROVE QInv'
<1>1. \E f, c : Write(f, c)
  BY DEF Others
<1>2. /\ UNCHANGED <<args, next, lines, nread, pc, buf>> /\ acts' = acts + 1
      /\ pc \notin {"words", "search", "dead", "done"}
  BY <1>1 DEF Write, main
<1>3. acts' # 0 /\ ~ Quiet'
  BY <1>2 DEF IInv, TypeOK, Quiet
<1>4. Proper' /\ LinesGenuine' /\ BufGenuine'
  BY <1>2, <1>3 DEF QInv, Proper, LinesGenuine, BufGenuine, Arg
<1>5. Calm'
  BY <1>2, <1>3 DEF QInv, Calm
<1>. QED  BY <1>4, <1>5 DEF QInv

LEMMA PlainQuiet ==
  ASSUME IInv, QInv, OpenPlain \/ StatPlain \/ ReadPlain \/ EndPlain
  PROVE  QInv'
<1>1. next <= Len(args) /\ pc # "dead"
  BY DEF OpenPlain, StatPlain, ReadPlain, EndPlain, At
<1>2. Quiet => Here \in File /\ Here # Missing
  BY <1>1, QuietHere
<1>3. CASE OpenPlain
  <2>1. CASE Here = Missing
    BY <1>2, <1>3, <2>1, DieQuiet DEF OpenPlain
  <2>2. CASE Here # Missing
    BY <1>1, <1>3, <2>2, GoToQuiet DEF OpenPlain, Opened, Reading, Right
  <2>. QED  BY <2>1, <2>2
<1>4. CASE StatPlain
  <2>1. CASE Here = Missing
    BY <1>2, <1>4, <2>1, DieQuiet DEF StatPlain
  <2>2. CASE Here # Missing
    <3>1. GoTo("plain_read") /\ buf' = <<>> /\ UNCHANGED <<fp, torn>>
      BY <1>4, <2>2 DEF StatPlain
    <3>2. Quiet => ~ torn' /\ fp' \in {Closed, Linked}
      BY <3>1 DEF QInv, Calm
    <3>. QED
      BY <1>1, <3>1, <3>2, GoToQuiet DEF Reading, Right, Genuine
  <2>. QED  BY <2>1, <2>2
<1>5. CASE ReadPlain
  <2>1. /\ GoTo("plain_read") /\ UNCHANGED <<fp, torn, size>>
        /\ pc = "plain_read" /\ Arg.type = "none"
    BY <1>5 DEF ReadPlain, At
  <2>2. PICK k \in (Len(buf) + 1)..Least(size.text, Len(Open.text)) :
           buf' = buf \o SubSeq(Open.text, Len(buf) + 1, k)
    BY <1>5 DEF ReadPlain
  <2>3. Open.text \in Genuine /\ buf \in Genuine /\ size.text \in Nat
    BY <1>1, <2>1, OpenTyped
    DEF IInv, Placed, Opening, Sized, File, QInv, BufGenuine, Genuine
  <2>4. k \in 0..Len(Open.text) /\ Len(buf) + 1 \in Nat \ {0}
    BY <2>2, <2>3 DEF Genuine, Least
  <2>5. SubSeq(Open.text, Len(buf) + 1, k) \in Genuine
    BY <2>3, <2>4, PartOf DEF Genuine
  <2>6. buf' \in Genuine
    BY <2>2, <2>3, <2>5 DEF Genuine
  <2>7. Quiet => ~ torn' /\ fp' \in {Closed, Linked}
    BY <2>1 DEF QInv, Calm
  <2>. QED  BY <1>1, <2>1, <2>6, <2>7, GoToQuiet DEF Reading, Right
<1>6. CASE EndPlain
  <2>1. buf \in Genuine /\ (Split(buf) \/ Return(1)) /\ pc \in Reading
    BY <1>6 DEF EndPlain, At, Reading, QInv, BufGenuine
  <2>. QED  BY <1>1, <2>1, SplitQuiet, ReturnQuiet
<1>. QED  BY <1>3, <1>4, <1>5, <1>6

LEMMA GzipQuiet ==
  ASSUME IInv, QInv, OpenGzip \/ SizeGzip \/ ReopenGzip \/ ReadGzip
  PROVE  QInv'
<1>1. next <= Len(args) /\ pc # "dead" /\ Arg.type = "gzip"
  BY DEF OpenGzip, SizeGzip, ReopenGzip, ReadGzip, At
<1>2. Quiet => /\ Here \in File /\ Here # Missing /\ Here.whole /\ Here.bytes > 0
               /\ Here.text \in Genuine /\ Len(Here.text) \in Nat /\ Here.bytes \in Nat
  BY <1>1, QuietHere DEF File, Genuine
<1>3. CASE OpenGzip
  <2>1. CASE Here = Missing
    BY <1>2, <1>3, <2>1, DieQuiet DEF OpenGzip
  <2>2. CASE Here # Missing
    BY <1>1, <1>3, <2>2, GoToQuiet DEF OpenGzip, Reading, Right
  <2>. QED  BY <2>1, <2>2
<1>4. CASE SizeGzip
  <2>1. Quiet => Open = Here /\ ~ torn /\ size.archive = Here.bytes
    BY <1>1, <1>4, QuietOpen DEF SizeGzip, At, Opening, Right
  <2>2. CASE size.archive > Open.bytes
    BY <1>2, <1>4, <2>1, <2>2, DieQuiet DEF SizeGzip
  <2>3. CASE ~ (size.archive > Open.bytes)
    <3>1. /\ GoTo("gz_open") /\ fp' = Closed /\ UNCHANGED torn
          /\ \E n \in IF size.archive = 0 THEN {NoSize}
                       ELSE IF Open.whole /\ Open.bytes = size.archive
                       THEN {Len(Open.text)} ELSE 0..MaxText :
                size' = [size EXCEPT !.text = n]
      BY <1>4, <2>3 DEF SizeGzip
    <3>2. Quiet => size' = [size EXCEPT !.text = Len(Here.text)]
      BY <1>2, <2>1, <3>1
    <3>3. Quiet => size'.text = Len(Here.text)
      BY <3>2 DEF IInv, TypeOK
    <3>. QED  BY <1>1, <2>1, <3>1, <3>3, GoToQuiet DEF Reading, Right
  <2>. QED  BY <2>2, <2>3
<1>5. CASE ReopenGzip
  <2>1. CASE Here = Missing
    BY <1>5, <2>1, ReturnQuiet DEF ReopenGzip, At, Reading
  <2>2. CASE Here # Missing
    <3>1. GoTo("gz_read") /\ Opened /\ pc = "gz_open"
      BY <1>5, <2>2 DEF ReopenGzip, At
    <3>2. Quiet => size'.text = Len(Here.text)
      BY <3>1 DEF Opened, QInv, Calm, Right, Reading
    <3>. QED  BY <1>1, <3>1, <3>2, GoToQuiet DEF Opened, Reading, Right
  <2>. QED  BY <2>1, <2>2
<1>6. CASE ReadGzip
  <2>1. Quiet => Open = Here /\ size.text = Len(Here.text)
    BY <1>1, <1>6, QuietOpen DEF ReadGzip, At, Opening, Right
  <2>2. CASE ~ Quiet
    BY <1>1, <1>6, <2>2, DieQuiet, SplitQuiet DEF ReadGzip
  <2>3. CASE Quiet
    <3>. DEFINE most == Least(size.text, Len(Open.text))
    <3>1. most = Len(Here.text) /\ size.text # NoSize
      BY <1>2, <2>1, <2>3 DEF Least
    <3>2. \E n \in IF Open.whole THEN {most} ELSE (-1)..most :
             IF n = size.text THEN Split(SubSeq(Open.text, 1, n))
             ELSE IF n = 0 THEN Split(Unset(size.text)) ELSE Die
      BY <1>6, <3>1 DEF ReadGzip
    <3>3. Split(SubSeq(Here.text, 1, Len(Here.text)))
      BY <1>2, <2>1, <2>3, <3>1, <3>2
    <3>4. SubSeq(Here.text, 1, Len(Here.text)) \in Genuine
      BY <1>2, <2>3, PartOf DEF Genuine
    <3>. QED  BY <1>1, <3>3, <3>4, SplitQuiet
  <2>. QED  BY <2>2, <2>3
<1>. QED  BY <1>3, <1>4, <1>5, <1>6

LEMMA XzQuiet ==
  ASSUME IInv, QInv, \/ OpenXz \/ InfoGoesOn \/ InfoStalls \/ InfoFails
                     \/ ReopenXz \/ ReadXz \/ ReadXzFails
  PROVE  QInv'
<1>1. next <= Len(args) /\ pc # "dead" /\ Arg.type = "lzma"
  BY DEF OpenXz, InfoGoesOn, InfoStalls, InfoFails, ReopenXz, ReadXz, ReadXzFails, At
<1>2. Quiet => /\ Here \in File /\ Here # Missing /\ Here.whole /\ Here.bytes > 0
               /\ Here.text \in Genuine /\ Len(Here.text) \in Nat /\ Here.bytes \in Nat
  BY <1>1, QuietHere DEF File, Genuine
<1>3. CASE OpenXz
  <2>1. CASE Here = Missing \/ Here.bytes = 0
    BY <1>2, <1>3, <2>1, DieQuiet DEF OpenXz
  <2>2. CASE ~ (Here = Missing \/ Here.bytes = 0)
    BY <1>1, <1>3, <2>2, GoToQuiet DEF OpenXz, Reading, Right
  <2>. QED  BY <2>1, <2>2
<1>4. Quiet /\ pc = "xz_info" => Open = Here /\ ~ torn /\ Intact
  BY <1>1, <1>2, QuietOpen DEF Opening, Right, Intact
<1>5. CASE InfoGoesOn
  <2>1. CASE stage.at < Stages
    <3>1. GoTo("xz_info") /\ UNCHANGED <<fp, torn, size>> /\ pc = "xz_info"
      BY <1>5, <2>1 DEF InfoGoesOn, At
    <3>2. Quiet => ~ torn' /\ fp' \in {Closed, Linked} /\ size'.archive = Here.bytes
      BY <3>1 DEF QInv, Calm, Right, Reading
    <3>. QED  BY <1>1, <3>1, <3>2, GoToQuiet DEF Reading, Right
  <2>2. CASE ~ (stage.at < Stages)
    <3>1. /\ GoTo("xz_open") /\ fp' = Closed /\ UNCHANGED torn /\ pc = "xz_info"
          /\ \E n \in IF Intact THEN {Len(Open.text)} ELSE 0..MaxText :
                size' = [size EXCEPT !.text = n]
      BY <1>5, <2>2 DEF InfoGoesOn, At
    <3>2. Quiet => size' = [size EXCEPT !.text = Len(Here.text)] /\ ~ torn'
      BY <1>4, <3>1
    <3>3. Quiet => size'.text = Len(Here.text) /\ size'.archive = Here.bytes
      BY <3>1, <3>2 DEF IInv, TypeOK, QInv, Calm, Right, Reading
    <3>. QED  BY <1>1, <3>1, <3>2, <3>3, GoToQuiet DEF Reading, Right
  <2>. QED  BY <2>1, <2>2
<1>6. CASE InfoStalls \/ InfoFails
  <2>1. ~ Quiet /\ (Die \/ GoTo("xz_info"))
    BY <1>4, <1>6 DEF InfoStalls, InfoFails, At
  <2>. QED  BY <1>1, <2>1, DieQuiet, GoToQuiet DEF Reading
<1>7. CASE ReopenXz
  <2>1. CASE Here = Missing
    BY <1>2, <1>7, <2>1, DieQuiet DEF ReopenXz
  <2>2. CASE Here # Missing
    <3>1. GoTo("xz_read") /\ Opened /\ pc = "xz_open"
      BY <1>7, <2>2 DEF ReopenXz, At
    <3>2. Quiet => Right("xz_read", size')
      BY <3>1 DEF Opened, QInv, Calm, Right, Reading
    <3>. QED  BY <1>1, <3>1, <3>2, GoToQuiet DEF Opened, Reading
  <2>. QED  BY <2>1, <2>2
<1>8. Quiet /\ pc = "xz_read" => /\ Open = Here /\ ~ torn /\ size.archive = Here.bytes
                                /\ size.text = Len(Here.text)
  BY <1>1, QuietOpen DEF Opening, Right
<1>9. CASE ReadXz
  <2>1. Split(Open.text \o Unset(size.text - Len(Open.text))) /\ pc = "xz_read"
    BY <1>9 DEF ReadXz, At
  <2>2. Quiet => Open.text \o Unset(size.text - Len(Open.text)) \in Genuine
    <3>1. Quiet => size.text - Len(Open.text) = 0 /\ Open.text \in Genuine
      BY <1>2, <1>8, <2>1
    <3>2. Unset(0) \in Genuine
      BY DEF Unset, Genuine
    <3>3. \A s, t : s \in Genuine /\ t \in Genuine => s \o t \in Genuine
      BY DEF Genuine
    <3>. QED  BY <3>1, <3>2, <3>3
  <2>. QED  BY <1>1, <2>1, <2>2, SplitQuiet
<1>10. CASE ReadXzFails
  <2>1. ~ Quiet
    BY <1>2, <1>8, <1>10 DEF ReadXzFails, At, Asked
  <2>. QED  BY <1>10, <2>1, DieQuiet DEF ReadXzFails
<1>. QED  BY <1>3, <1>5, <1>6, <1>7, <1>9, <1>10

LEMMA SplitLineQuiet == ASSUME IInv, QInv, SplitLine PROVE QInv'
<1>1. /\ UNCHANGED <<args, disk, acts, fp, torn, size>> /\ UNCHANGED files /\ pc = "split"
      /\ next \in 1..Len(args) /\ Len(buf) \in Nat
  BY Typed, LenNat DEF SplitLine, files, IInv, Placed, Reading, TypeOK
<1>2. PICK k \in 1..(Len(buf) + 1) :
         /\ IF k = 1 THEN UNCHANGED <<lines, lists>> ELSE AddTag(SubSeq(buf, 1, k - 1))
         /\ IF k > Len(buf) THEN next' = next + 1 /\ nread' = nread + 1 /\ pc' = "next"
                            ELSE UNCHANGED <<next, nread, pc>>
         /\ buf' = SubSeq(buf, k + 1, Len(buf))
  BY DEF SplitLine
<1>3. (Quiet' <=> Quiet)
  BY <1>1, QuietSame
<1>4. Quiet \/ Arg.type = "none" =>
         buf \in Genuine /\ SubSeq(buf, 1, k - 1) \in Genuine /\ buf' \in Genuine
  <2>1. Quiet \/ Arg.type = "none" => buf \in Genuine
    BY <1>1 DEF QInv, BufGenuine
  <2>2. k - 1 \in 0..Len(buf) /\ Len(buf) \in 0..Len(buf) /\ k + 1 \in Nat \ {0}
    BY <1>1
  <2>. QED  BY <1>2, <2>1, <2>2, PartOf DEF Genuine
<1>5. LinesGenuine'
  <2>1. CASE k = 1
    BY <1>1, <1>2, <1>3, <2>1 DEF QInv, LinesGenuine
  <2>2. CASE k # 1
    <3>1. lines' = Append(lines, [from |-> next, text |-> SubSeq(buf, 1, k - 1)])
      BY <1>2, <2>2 DEF AddTag
    <3>. DEFINE new == [from |-> next, text |-> SubSeq(buf, 1, k - 1)]
    <3>2. lines \in Seq([from : DOMAIN args, text : Seq({"x", "y", "?"})])
      BY DEF IInv, TypeOK
    <3>3. \A j \in DOMAIN lines' :
             \/ j \in DOMAIN lines /\ lines'[j] = lines[j]
             \/ lines'[j] = new
      BY <3>1, <3>2
    <3>4. Quiet \/ args[new.from].type = "none" => new.text \in Genuine
      BY <1>4 DEF Arg
    <3>. HIDE DEF new
    <3>5. ASSUME NEW j \in DOMAIN lines',
                 Quiet' \/ args'[lines'[j].from].type = "none"
          PROVE  lines'[j].text \in Genuine
      BY <1>1, <1>3, <3>3, <3>4, <3>5 DEF QInv, LinesGenuine
    <3>. QED  BY <3>5 DEF LinesGenuine
  <2>. QED  BY <2>1, <2>2
<1>6. Proper'
  BY <1>1 DEF QInv, Proper
<1>7. BufGenuine'
  BY <1>1, <1>2, <1>3, <1>4 DEF BufGenuine, Arg
<1>8. Calm'
  BY <1>1, <1>2, <1>3, Typed DEF IInv, QInv, Calm, Reading, Right
<1>. QED  BY <1>5, <1>6, <1>7, <1>8 DEF QInv

LEMMA MainQuiet ==
  ASSUME IInv, QInv, Unknown \/ AllRead \/ AddWord \/ Search \/ AddFound \/ Ended
  PROVE  QInv'
<1>1. CASE Die
  <2>1. next > Len(args)
    BY <1>1 DEF Die, Unknown, Return, AllRead, AddWord, Search, AddFound, Ended, QInv, Calm
  <2>2. Quiet => lines = <<>>
    <3>1. CASE AllRead
      <4>1. nread = 0 /\ (Quiet => nread = next - 1)
        BY <3>1, <1>1 DEF AllRead, Die, QInv, Calm
      <4>2. Quiet => DOMAIN args = {}
        BY <2>1, <4>1, Typed DEF IInv
      <4>3. DOMAIN args = {} => lines = <<>>
        <5>1. lines \in Seq([from : DOMAIN args, text : Seq({"x", "y", "?"})])
          BY DEF IInv, TypeOK
        <5>2. lines # <<>> => lines[1] \in [from : DOMAIN args, text : Seq({"x", "y", "?"})]
          BY <5>1, NonEmpty
        <5>. QED  BY <5>2
      <4>. QED  BY <4>2, <4>3
    <3>2. CASE Search
      BY <3>2, <1>1 DEF Search, Die
    <3>3. CASE Unknown \/ AddWord \/ AddFound \/ Ended
      BY <3>3, <1>1 DEF Die, Unknown, Return, AddWord, AddFound, Ended
    <3>. QED  BY <3>1, <3>2, <3>3
  <2>. QED  BY <1>1, <2>1, <2>2, DieQuiet
<1>2. CASE Unknown
  <2>1. /\ UNCHANGED <<args, disk, acts, lines, buf>> /\ UNCHANGED files
        /\ pc' = "next" /\ next <= Len(args) /\ Arg.type = "other"
    BY <1>2 DEF Unknown, At, Return, files
  <2>2. ~ Quiet /\ ~ Quiet'
    BY <2>1, QuietHere, QuietSame
  <2>. QED  BY <2>1, <2>2 DEF QInv, Proper, LinesGenuine, BufGenuine, Calm
<1>3. CASE ~ Die /\ (AllRead \/ AddWord \/ Search \/ AddFound \/ Ended)
  <2>1. /\ UNCHANGED <<args, disk, acts, next, lines, nread, fp, torn>> /\ UNCHANGED files
        /\ pc' \in {"words", "search", "done"} /\ next > Len(args)
    BY <1>3
    DEF AllRead, AddWord, Search, AddFound, Ended, files, main, reader, QInv, Calm
  <2>2. Quiet' <=> Quiet
    BY <2>1, QuietSame
  <2>. QED
    BY <2>1, <2>2 DEF QInv, Proper, LinesGenuine, BufGenuine, Calm, Reading
<1>. QED  BY <1>1, <1>2, <1>3

LEMMA NextQuiet == IInv /\ QInv /\ [Next]_vars => QInv'
<1>. SUFFICES ASSUME IInv, QInv, [Next]_vars PROVE QInv'
  OBVIOUS
<1>1. CASE UNCHANGED vars
  <2>1. (Quiet' <=> Quiet) /\ Arg' = Arg /\ Here' = Here
    BY <1>1, QuietSame DEF vars, files, main, reader, Arg, Here
  <2>2. Proper' /\ LinesGenuine' /\ BufGenuine'
    BY <1>1, <2>1
    DEF vars, files, main, reader, QInv, Proper, LinesGenuine, BufGenuine
  <2>3. Calm'
    BY <1>1, <2>1 DEF vars, files, main, reader, QInv, Calm, Right
  <2>. QED  BY <2>2, <2>3 DEF QInv
<1>2. CASE Step
  BY <1>2, PlainQuiet, GzipQuiet, XzQuiet, SplitLineQuiet, MainQuiet DEF Step
<1>3. CASE Others
  BY <1>3, OthersQuiet
<1>. QED  BY <1>1, <1>2, <1>3 DEF Next, Stopped

-----------------------------------------------------------------------------
(* Which lines there are: a third invariant.                               *)

(* How much of the file that is being read has been cut into lines. *)
Cut == Len(Here.text) - Len(buf)

(* What is in the buffer. *)
Holds ==
    Quiet =>
        /\ pc = "plain_read" =>
              /\ size.text = Len(Here.text)
              /\ Len(buf) <= Len(Here.text)
              /\ buf = SubSeq(Here.text, 1, Len(buf))
        /\ pc = "split" =>
              /\ Len(buf) <= Len(Here.text)
              /\ buf = SubSeq(Here.text, Cut + 1, Len(Here.text))
              /\ Cut > 0 => Here.text[Cut] = "newline"

(* The lines of the files before the n-th, and of that one up to a character. *)
Enumerated(at, n, cut) ==
    /\ at \in [DOMAIN lines -> Nat]
    /\ InOrder(at) /\ Faithful(at)
    /\ \A j \in DOMAIN lines :
          /\ lines[j].from \in Nat
          /\ lines[j].from < n \/ (lines[j].from = n /\ at[j] <= cut)
    /\ \A m \in 1..(n - 1) : Complete(at, m)
    /\ \A k \in 1..cut :
          k \in Beginnings(Text(n)) =>
             \E j \in DOMAIN lines : lines[j].from = n /\ at[j] = k

LInv ==
    /\ Holds
    /\ Quiet /\ pc # "dead" =>
          \E at : Enumerated(at, next, IF pc = "split" THEN Cut ELSE 0)

LEMMA InitLines == Init => LInv
<1>. SUFFICES ASSUME Init PROVE LInv
  OBVIOUS
<1>1. lines = <<>> /\ next = 1 /\ pc = "next"
  BY DEF Init
<1>2. Enumerated(<<>>, next, 0)
  BY <1>1 DEF Enumerated, InOrder, Faithful, Complete
<1>. QED  BY <1>1, <1>2 DEF LInv, Holds

LEMMA EnumeratedSame ==
  ASSUME NEW at, NEW cut, Enumerated(at, next, cut), UNCHANGED <<files, next, lines>>
  PROVE  Enumerated(at, next, cut)'
  BY DEF files, Enumerated, InOrder, Faithful, Complete, Text

(* A step that takes nothing out of the buffer. *)
LEMMA ListedSame ==
  ASSUME LInv, UNCHANGED <<files, next, lines>>, pc \notin {"dead", "split"}, Holds',
         Quiet /\ pc' = "split" => Cut' = 0
  PROVE  LInv'
<1>1. Quiet' <=> Quiet
  BY QuietSame
<1>2. ASSUME Quiet, NEW at, Enumerated(at, next, 0)
      PROVE  Enumerated(at, next, IF pc = "split" THEN Cut ELSE 0)'
  <2>1. Enumerated(at, next, 0)'
    BY <1>2, EnumeratedSame
  <2>2. (IF pc = "split" THEN Cut ELSE 0)' = 0
    BY <1>2
  <2>. QED  BY <2>1, <2>2 DEF Enumerated
<1>3. ASSUME Quiet PROVE \E at : Enumerated(at, next, IF pc = "split" THEN Cut ELSE 0)'
  <2>1. PICK at : Enumerated(at, next, 0)
    BY <1>3 DEF LInv
  <2>. QED  BY <1>2, <1>3, <2>1
<1>. QED  BY <1>1, <1>3 DEF LInv

LEMMA DieLines == ASSUME LInv, Die PROVE LInv'
<1>1. UNCHANGED <<files, main, reader>> /\ pc' = "dead"
  BY DEF Die
<1>. QED  BY <1>1, QuietSame DEF LInv, Holds

LEMMA GoToLines ==
  ASSUME LInv, NEW label \in Reading \ {"split"}, GoTo(label), pc \notin {"dead", "split"},
         Quiet /\ label = "plain_read" =>
            /\ size'.text = Len(Here.text)
            /\ Len(buf') <= Len(Here.text)
            /\ buf' = SubSeq(Here.text, 1, Len(buf'))
  PROVE  LInv'
<1>1. UNCHANGED <<files, next, lines>> /\ pc' = label
  BY DEF GoTo, main
<1>2. (Quiet' <=> Quiet) /\ Here' = Here
  BY <1>1, QuietSame DEF files, Here, Arg
<1>3. Holds'
  BY <1>1, <1>2 DEF Holds
<1>. QED  BY <1>1, <1>3, ListedSame

LEMMA SplitLines ==
  ASSUME IInv, QInv, LInv, NEW b, Split(b), next <= Len(args), pc \notin {"dead", "split"},
         Quiet => b = Here.text
  PROVE  LInv'
<1>1. UNCHANGED <<files, next, lines>> /\ pc' = "split" /\ buf' = b
  BY DEF Split
<1>2. (Quiet' <=> Quiet) /\ Here' = Here
  BY <1>1, QuietSame DEF files, Here, Arg
<1>3. Quiet => Here.text \in Genuine
  BY QuietHere DEF File, Genuine
<1>4. Quiet => /\ Cut' = 0 /\ Len(buf') <= Len(Here.text)
               /\ buf' = SubSeq(Here.text, 1, Len(Here.text))
  BY <1>1, <1>2, <1>3 DEF Cut, Genuine
<1>5. Holds'
  BY <1>1, <1>2, <1>4 DEF Holds
<1>. QED  BY <1>1, <1>4, <1>5, ListedSame

LEMMA UnquietLines == ~ Quiet' => LInv'
  BY DEF LInv, Holds

LEMMA PlainLines ==
  ASSUME IInv, QInv, LInv, OpenPlain \/ StatPlain \/ ReadPlain \/ EndPlain
  PROVE  LInv'
<1>1. next <= Len(args) /\ pc \notin {"dead", "split"} /\ Arg.type = "none"
  BY DEF OpenPlain, StatPlain, ReadPlain, EndPlain, At
<1>2. Quiet => /\ Here \in File /\ Here # Missing /\ Here.bytes = Len(Here.text)
               /\ Here.text \in Genuine /\ Len(Here.text) \in Nat
  <2>1. Quiet => Here \in File /\ Here # Missing /\ Here.text \in Genuine
    BY <1>1, QuietHere DEF File, Genuine
  <2>2. Quiet => Here \in Contents["none"] \ {Missing}
    <3>1. next \in DOMAIN args
      BY <1>1, Typed DEF IInv
    <3>. QED  BY <1>1, <2>1, <3>1 DEF Quiet, QInv, Proper, Here, Arg
  <2>3. Quiet => Here.bytes = Len(Here.text)
    BY <2>2
  <2>4. Quiet => Len(Here.text) \in Nat
    BY <2>1 DEF Genuine
  <2>. QED  BY <2>1, <2>3, <2>4
<1>3. CASE OpenPlain
  BY <1>1, <1>3, DieLines, GoToLines DEF OpenPlain, Reading
<1>4. CASE StatPlain
  <2>1. CASE Here = Missing
    BY <1>4, <2>1, DieLines DEF StatPlain
  <2>2. CASE Here # Missing
    <3>1. /\ GoTo("plain_read") /\ buf' = <<>>
          /\ size' = [archive |-> Here.bytes, text |-> Here.bytes]
      BY <1>4, <2>2 DEF StatPlain
    <3>2. Quiet => /\ Len(buf') <= Len(Here.text)
                   /\ buf' = SubSeq(Here.text, 1, Len(buf'))
      BY <1>2, <3>1 DEF Genuine
    <3>. QED  BY <1>1, <1>2, <3>1, <3>2, GoToLines DEF Reading
  <2>. QED  BY <2>1, <2>2
<1>5. ASSUME ReadPlain \/ EndPlain, Quiet
      PROVE  /\ Open = Here /\ pc = "plain_read" /\ size.text = Len(Here.text)
             /\ buf \in Genuine /\ Len(buf) \in Nat
             /\ Len(buf) <= Len(Here.text) /\ buf = SubSeq(Here.text, 1, Len(buf))
  <2>1. pc = "plain_read"
    BY <1>5 DEF ReadPlain, EndPlain, At
  <2>2. Open = Here
    BY <1>1, <1>5, <2>1, QuietOpen DEF Opening
  <2>3. buf \in Genuine
    BY <1>1, <2>1 DEF QInv, BufGenuine
  <2>4. Len(buf) \in Nat
    BY <2>3 DEF Genuine
  <2>. QED  BY <1>5, <2>1, <2>2, <2>3, <2>4 DEF LInv, Holds
<1>6. CASE ReadPlain
  <2>1. GoTo("plain_read") /\ UNCHANGED <<fp, torn, size, stage>>
    BY <1>6 DEF ReadPlain
  <2>2. PICK k \in (Len(buf) + 1)..Least(size.text, Len(Open.text)) :
           buf' = buf \o SubSeq(Open.text, Len(buf) + 1, k)
    BY <1>6 DEF ReadPlain
  <2>3. Quiet => /\ Len(buf') <= Len(Here.text)
                 /\ buf' = SubSeq(Here.text, 1, Len(buf'))
    <3>. SUFFICES ASSUME Quiet PROVE Len(buf') <= Len(Here.text)
                                     /\ buf' = SubSeq(Here.text, 1, Len(buf'))
      OBVIOUS
    <3>. DEFINE t == Here.text
                m == Len(buf)
    <3>1. t \in Seq({"x", "y", "newline"}) /\ m \in 0..Len(t) /\ buf = SubSeq(t, 1, m)
      BY <1>2, <1>5, <1>6 DEF Genuine
    <3>2. k \in (m + 1)..Len(t) /\ buf' = buf \o SubSeq(t, m + 1, k)
      BY <1>2, <1>5, <1>6, <2>2 DEF Least
    <3>. HIDE DEF t, m
    <3>3. SubSeq(t, 1, m) \o SubSeq(t, m + 1, k) = SubSeq(t, 1, k)
      BY <3>1, <3>2, Rejoined
    <3>4. buf' = SubSeq(t, 1, k) /\ Len(buf') = k
      BY <3>1, <3>2, <3>3, PartOf
    <3>. QED  BY <3>1, <3>2, <3>4 DEF t
  <2>4. Quiet => size'.text = Len(Here.text)
    BY <1>5, <1>6, <2>1
  <2>. QED  BY <1>1, <2>1, <2>3, <2>4, GoToLines DEF Reading
<1>7. CASE EndPlain
  <2>1. CASE Len(buf) = size.text
    <3>1. Split(buf)
      BY <1>7, <2>1 DEF EndPlain
    <3>2. Quiet => buf = Here.text
      <4>. SUFFICES ASSUME Quiet PROVE buf = Here.text
        OBVIOUS
      <4>1. buf = SubSeq(Here.text, 1, Len(Here.text)) /\ Here.text \in Genuine
        BY <1>2, <1>5, <1>7, <2>1
      <4>. QED  BY <4>1 DEF Genuine
    <3>. QED  BY <1>1, <3>1, <3>2, SplitLines
  <2>2. CASE Len(buf) # size.text
    <3>1. ~ Quiet
      BY <1>2, <1>5, <1>7, <2>2 DEF EndPlain, Least
    <3>2. UNCHANGED files
      BY <1>7, <2>2 DEF EndPlain, Return
    <3>. QED  BY <3>1, <3>2, QuietSame, UnquietLines
  <2>. QED  BY <2>1, <2>2
<1>. QED  BY <1>3, <1>4, <1>6, <1>7

LEMMA GzipLines ==
  ASSUME IInv, QInv, LInv, OpenGzip \/ SizeGzip \/ ReopenGzip \/ ReadGzip
  PROVE  LInv'
<1>1. next <= Len(args) /\ pc \notin {"dead", "split"}
  BY DEF OpenGzip, SizeGzip, ReopenGzip, ReadGzip, At
<1>2. Quiet => /\ Here \in File /\ Here # Missing /\ Here.whole
               /\ Here.text \in Genuine /\ Len(Here.text) \in Nat
  BY <1>1, QuietHere DEF File, Genuine
<1>3. CASE OpenGzip \/ SizeGzip
  BY <1>1, <1>3, DieLines, GoToLines DEF OpenGzip, SizeGzip, Reading
<1>4. CASE ReopenGzip
  <2>1. CASE Here = Missing
    <3>1. ~ Quiet /\ UNCHANGED files
      BY <1>2, <1>4, <2>1 DEF ReopenGzip, Return
    <3>. QED  BY <3>1, QuietSame, UnquietLines
  <2>2. CASE Here # Missing
    BY <1>1, <1>4, <2>2, GoToLines DEF ReopenGzip, Reading
  <2>. QED  BY <2>1, <2>2
<1>5. CASE ReadGzip
  <2>1. CASE ~ Quiet
    BY <1>1, <1>5, <2>1, DieLines, SplitLines DEF ReadGzip
  <2>2. CASE Quiet
    <3>. DEFINE most == Least(size.text, Len(Open.text))
    <3>1. Open = Here /\ size.text = Len(Here.text)
      BY <1>1, <1>5, <2>2, QuietOpen DEF ReadGzip, At, Opening, Right
    <3>2. most = Len(Here.text) /\ size.text # NoSize
      BY <1>2, <2>2, <3>1 DEF Least
    <3>3. \E n \in IF Open.whole THEN {most} ELSE (-1)..most :
             IF n = size.text THEN Split(SubSeq(Open.text, 1, n))
             ELSE IF n = 0 THEN Split(Unset(size.text)) ELSE Die
      BY <1>5, <3>2 DEF ReadGzip
    <3>4. Split(SubSeq(Here.text, 1, Len(Here.text)))
      BY <1>2, <2>2, <3>1, <3>2, <3>3
    <3>5. SubSeq(Here.text, 1, Len(Here.text)) = Here.text
      BY <1>2, <2>2 DEF Genuine
    <3>. QED  BY <1>1, <3>4, <3>5, SplitLines
  <2>. QED  BY <2>1, <2>2
<1>. QED  BY <1>3, <1>4, <1>5

LEMMA XzLines ==
  ASSUME IInv, QInv, LInv, \/ OpenXz \/ InfoGoesOn \/ InfoStalls \/ InfoFails
                           \/ ReopenXz \/ ReadXz \/ ReadXzFails
  PROVE  LInv'
<1>1. next <= Len(args) /\ pc \notin {"dead", "split"}
  BY DEF OpenXz, InfoGoesOn, InfoStalls, InfoFails, ReopenXz, ReadXz, ReadXzFails, At
<1>2. CASE OpenXz \/ InfoGoesOn \/ InfoStalls \/ InfoFails \/ ReopenXz \/ ReadXzFails
  BY <1>1, <1>2, DieLines, GoToLines
  DEF OpenXz, InfoGoesOn, InfoStalls, InfoFails, ReopenXz, ReadXzFails, Reading
<1>3. CASE ReadXz
  <2>1. Split(Open.text \o Unset(size.text - Len(Open.text))) /\ pc = "xz_read"
    BY <1>3 DEF ReadXz, At
  <2>2. Quiet => Open.text \o Unset(size.text - Len(Open.text)) = Here.text
    <3>. SUFFICES ASSUME Quiet
                  PROVE  Open.text \o Unset(size.text - Len(Open.text)) = Here.text
      OBVIOUS
    <3>1. Open = Here /\ size.text = Len(Here.text) /\ Here.text \in Genuine
      BY <1>1, <2>1, QuietOpen, QuietHere DEF Opening, Right, File, Genuine
    <3>2. size.text - Len(Open.text) = 0
      BY <3>1 DEF Genuine
    <3>3. Unset(0) = <<>>
      BY DEF Unset
    <3>4. \A s \in Genuine : s \o <<>> = s
      BY DEF Genuine
    <3>. QED  BY <3>1, <3>2, <3>3, <3>4
  <2>. QED  BY <1>1, <2>1, <2>2, SplitLines
<1>. QED  BY <1>2, <1>3

LEMMA LineOfFile ==
  ASSUME TypeOK, NEW j \in DOMAIN lines
  PROVE  lines[j].from \in DOMAIN args /\ lines[j].from \in 1..Len(args) /\ Len(args) \in Nat
         /\ lines[j].from \in Nat
<1>. DEFINE Lines == [from : DOMAIN args, text : Seq({"x", "y", "?"})]
<1>1. lines \in Seq(Lines)
  BY DEF TypeOK
<1>2. lines[j].from \in DOMAIN args
  <2>. HIDE DEF Lines
  <2>1. DOMAIN lines = 1..Len(lines)
    BY <1>1
  <2>2. lines[j] \in Lines
    BY <1>1, <2>1, Nth
  <2>. QED  BY <2>2 DEF Lines
<1>3. DOMAIN args = 1..Len(args) /\ Len(args) \in Nat
  <2>1. args \in Seq([type : Types, name : Names])
    BY Typed
  <2>. QED  BY <2>1
<1>. QED  BY <1>2, <1>3

(* A line is added where it begins, or there is none before the newline. *)
LEMMA LineAdded ==
  ASSUME TypeOK, NEW n, n = next, n <= Len(args), NEW t \in Genuine, t = Here.text,
         NEW at, NEW c \in 0..Len(t), Enumerated(at, n, c),
         c > 0 => t[c] = "newline",
         NEW k \in 1..(Len(t) - c + 1),
         \A l \in 1..(k - 1) : t[c + l] # "newline",
         c + k <= Len(t) => t[c + k] = "newline",
         IF k = 1 THEN lines' = lines
         ELSE lines' = Append(lines, [from |-> n, text |-> SubSeq(t, c + 1, c + k - 1)]),
         UNCHANGED files,
         NEW d \in 0..Len(t),
         d = IF c + k <= Len(t) THEN c + k ELSE Len(t)
  PROVE  \E new : Enumerated(new, n, d)'
<1>1. /\ t \in Genuine /\ Len(t) \in Nat /\ DOMAIN t = 1..Len(t) /\ c \in Nat /\ c + 1 \in Nat
      /\ k \in Nat /\ (k = 1 \/ k > 1)
      /\ d \in Nat /\ c <= d /\ d <= c + k /\ Text(n) = t
  <2>1. t \in Genuine /\ Text(n) = t
    BY DEF Text, Here, Arg
  <2>2. Len(t) \in Nat /\ DOMAIN t = 1..Len(t)
    BY <2>1 DEF Genuine
  <2>3. c \in Nat /\ c + 1 \in Nat /\ k \in Nat /\ (k = 1 \/ k > 1)
    <3>1. \A m \in Nat : \A i \in 0..m : \A j \in 1..(m - i + 1) :
             i \in Nat /\ i + 1 \in Nat /\ j \in Nat /\ (j = 1 \/ j > 1)
      OBVIOUS
    <3>. QED  BY <2>2, <3>1
  <2>4. d \in Nat /\ c <= d /\ d <= c + k
    <3>1. \A m \in Nat : \A i \in 0..m : \A j \in 1..(m - i + 1) :
             LET e == IF i + j <= m THEN i + j ELSE m
             IN  e \in Nat /\ i <= e /\ e <= i + j
      OBVIOUS
    <3>. QED  BY <2>2, <3>1
  <2>. QED  BY <2>1, <2>2, <2>3, <2>4
<1>2. \A q \in Beginnings(t) : c < q /\ q <= c + k => q = c + 1 /\ k > 1
  BY CutLine
<1>3. k > 1 => /\ c + 1 \in Beginnings(t)
               /\ LineAt(t, c + 1) = SubSeq(t, c + 1, c + k - 1)
  BY <1>1, CutLine
<1>4. CASE k = 1
  <2>1. lines' = lines /\ UNCHANGED files
    BY <1>4
  <2>2. InOrder(at)' /\ Faithful(at)' /\ \A m \in 1..(n - 1) : Complete(at, m)'
    <3>1. InOrder(at) /\ Faithful(at) /\ \A m \in 1..(n - 1) : Complete(at, m)
      BY DEF Enumerated
    <3>. QED  BY <2>1, <3>1 DEF files, InOrder, Faithful, Complete, Text
  <2>3. ASSUME NEW j \in DOMAIN lines'
        PROVE  /\ lines'[j].from \in Nat
               /\ lines'[j].from < n \/ (lines'[j].from = n /\ at[j] <= d)
    <3>1. lines[j].from \in Nat
      BY <2>1, LineOfFile
    <3>2. at[j] \in Nat /\ (lines[j].from < n \/ (lines[j].from = n /\ at[j] <= c))
      BY <2>1 DEF Enumerated
    <3>. QED  BY <1>1, <2>1, <3>1, <3>2
  <2>4. ASSUME NEW q \in 1..d, q \in Beginnings(t)
        PROVE  \E j \in DOMAIN lines' : lines'[j].from = n /\ at[j] = q
    <3>1. q \in 1..c
      BY <1>1, <1>2, <1>4, <2>4
    <3>. QED  BY <1>1, <2>1, <2>4, <3>1 DEF Enumerated
  <2>5. at \in [DOMAIN lines' -> Nat]
    BY <2>1 DEF Enumerated
  <2>6. Text(n)' = t
    BY <1>1 DEF files, Text
  <2>7. Enumerated(at, n, d)'
    BY <2>2, <2>3, <2>4, <2>5, <2>6 DEF Enumerated
  <2>. QED  BY <2>7
<1>5. CASE k > 1
  <2>. DEFINE last == Len(lines) + 1
              line == [from |-> n, text |-> SubSeq(t, c + 1, c + k - 1)]
  <2>1. /\ DOMAIN lines = 1..Len(lines) /\ Len(lines) \in Nat
        /\ DOMAIN lines' = 1..last
        /\ lines'[last] = line
        /\ \A j \in DOMAIN lines : lines'[j] = lines[j] /\ j < last
    <3>. DEFINE Lines == [from : DOMAIN args, text : Seq({"x", "y", "?"})]
    <3>1. lines \in Seq(Lines)
      BY DEF TypeOK
    <3>2. lines' = Append(lines, line)
      BY <1>5
    <3>. HIDE DEF line, Lines
    <3>3. /\ DOMAIN lines = 1..Len(lines) /\ Len(lines) \in Nat
          /\ DOMAIN Append(lines, line) = 1..(Len(lines) + 1)
          /\ Append(lines, line)[Len(lines) + 1] = line
          /\ \A j \in DOMAIN lines :
                Append(lines, line)[j] = lines[j] /\ j < Len(lines) + 1
      BY <3>1, Appended
    <3>. QED  BY <3>2, <3>3
  <2>2. PICK new \in [1..last -> Nat] :
           new = [j \in 1..last |-> IF j = last THEN c + 1 ELSE at[j]]
    <3>1. \A j \in 1..last : j # last => j \in DOMAIN lines
      BY <2>1
    <3>2. \A j \in DOMAIN lines : at[j] \in Nat
      BY DEF Enumerated
    <3>3. c + 1 \in Nat
      BY <1>1
    <3>. HIDE DEF last
    <3>4. [j \in 1..last |-> IF j = last THEN c + 1 ELSE at[j]] \in [1..last -> Nat]
      BY <3>1, <3>2, <3>3
    <3>. QED  BY <3>4
  <2>3. /\ new[last] = c + 1
        /\ \A j \in DOMAIN lines : new[j] = at[j] /\ j \in DOMAIN lines'
    BY <2>1, <2>2
  <2>4. line.from = n /\ line.text = LineAt(t, c + 1) /\ c + 1 \in Beginnings(t)
    BY <1>3, <1>5
  <2>5. \A m : Text(m)' = Text(m)
    BY DEF files, Text
  <2>6. \A j \in DOMAIN lines' : j \in DOMAIN lines \/ j = last
    BY <2>1
  <2>7. c + 1 <= d
    BY <1>1, <1>5
  <2>8. n \in Nat
    BY Typed
  <2>9. \A j \in DOMAIN lines : lines[j].from \in Nat /\ at[j] \in Nat
    BY LineOfFile DEF Enumerated
  <2>. HIDE DEF line, last
  <2>10. ASSUME NEW i \in DOMAIN lines', NEW j \in DOMAIN lines', i < j
         PROVE  \/ lines'[i].from < lines'[j].from
                \/ lines'[i].from = lines'[j].from /\ new[i] < new[j]
    <3>0. last \in Nat
      BY <2>1 DEF last
    <3>1. i \in DOMAIN lines
      BY <2>1, <2>6, <2>10, <3>0
    <3>2. CASE j \in DOMAIN lines
      <4>1. \/ lines[i].from < lines[j].from
            \/ lines[i].from = lines[j].from /\ at[i] < at[j]
        BY <2>10, <3>1, <3>2 DEF Enumerated, InOrder
      <4>. QED  BY <2>1, <2>3, <3>1, <3>2, <4>1
    <3>3. CASE j = last
      <4>1. lines[i].from < n \/ (lines[i].from = n /\ at[i] <= c)
        BY <3>1 DEF Enumerated
      <4>2. /\ lines'[j].from = n /\ new[j] = c + 1
            /\ lines'[i] = lines[i] /\ new[i] = at[i] /\ at[i] \in Nat
        BY <2>1, <2>3, <2>4, <2>9, <3>1, <3>3
      <4>. QED  BY <1>1, <4>1, <4>2
    <3>. QED  BY <2>6, <3>2, <3>3
  <2>11. InOrder(new)'
    BY <2>10 DEF InOrder
  <2>12. Faithful(new)'
    <3>. SUFFICES ASSUME NEW j \in DOMAIN lines'
                  PROVE  /\ new[j] \in Beginnings(Text(lines'[j].from))
                         /\ lines'[j].text = LineAt(Text(lines'[j].from), new[j])
      BY <2>5 DEF Faithful
    <3>1. CASE j \in DOMAIN lines
      BY <2>1, <2>3, <3>1 DEF Enumerated, Faithful
    <3>2. CASE j = last
      BY <1>1, <2>1, <2>3, <2>4, <3>2
    <3>. QED  BY <2>6, <3>1, <3>2
  <2>13. ASSUME NEW j \in DOMAIN lines'
         PROVE  /\ lines'[j].from \in Nat
                /\ lines'[j].from < n \/ (lines'[j].from = n /\ new[j] <= d)
    <3>1. CASE j \in DOMAIN lines
      <4>1. lines[j].from < n \/ (lines[j].from = n /\ at[j] <= c)
        BY <3>1 DEF Enumerated
      <4>2. lines'[j] = lines[j] /\ new[j] = at[j] /\ at[j] \in Nat /\ lines[j].from \in Nat
        BY <2>1, <2>3, <2>9, <3>1
      <4>. QED  BY <1>1, <4>1, <4>2
    <3>2. CASE j = last
      BY <2>1, <2>3, <2>4, <2>7, <2>8, <3>2
    <3>. QED  BY <2>6, <3>1, <3>2
  <2>14. ASSUME NEW m \in 1..(n - 1) PROVE Complete(new, m)'
    <3>. SUFFICES ASSUME NEW q \in Beginnings(Text(m))
                  PROVE  \E j \in DOMAIN lines' : lines'[j].from = m /\ new[j] = q
      BY <2>5 DEF Complete
    <3>1. Complete(at, m)
      BY DEF Enumerated
    <3>2. PICK j \in DOMAIN lines : lines[j].from = m /\ at[j] = q
      BY <3>1 DEF Complete
    <3>. QED  BY <2>1, <2>3, <3>2
  <2>15. ASSUME NEW q \in 1..d, q \in Beginnings(t)
         PROVE  \E j \in DOMAIN lines' : lines'[j].from = n /\ new[j] = q
    <3>1. CASE q <= c
      <4>1. PICK j \in DOMAIN lines : lines[j].from = n /\ at[j] = q
        BY <1>1, <2>15, <3>1 DEF Enumerated
      <4>. QED  BY <2>1, <2>3, <4>1
    <3>2. CASE q > c
      <4>1. q = c + 1
        <5>1. c < q /\ q <= c + k
          BY <1>1, <2>15, <3>2
        <5>. QED  BY <1>2, <2>15, <5>1
      <4>2. last \in DOMAIN lines'
        BY <2>1 DEF last
      <4>. QED  BY <2>1, <2>3, <2>4, <4>1, <4>2
    <3>. QED  BY <1>1, <3>1, <3>2
  <2>16. new \in [DOMAIN lines' -> Nat]
    BY <2>1, <2>2
  <2>17. Text(n)' = t
    BY <1>1, <2>5
  <2>18. Enumerated(new, n, d)'
    BY <2>11, <2>12, <2>13, <2>14, <2>15, <2>16, <2>17 DEF Enumerated
  <2>. QED  BY <2>18
<1>. QED  BY <1>1, <1>4, <1>5

LEMMA SplitLineLines == ASSUME IInv, QInv, LInv, SplitLine PROVE LInv'
<1>1. /\ UNCHANGED files /\ pc = "split" /\ next \in 1..Len(args) /\ next <= Len(args)
      /\ Len(args) \in Nat /\ TypeOK
  BY Typed, LenNat DEF SplitLine, IInv, Placed, Reading, TypeOK
<1>2. Quiet' <=> Quiet
  BY <1>1, QuietSame
<1>. SUFFICES ASSUME Quiet PROVE LInv'
  BY <1>2, UnquietLines
<1>. DEFINE t == Here.text
            S == {"x", "y", "newline"}
<1>3. t \in Seq(S) /\ t \in Genuine /\ Len(t) \in Nat
  <2>1. t \in Seq(S)
    BY <1>1, QuietHere DEF File
  <2>. QED  BY <2>1 DEF Genuine
<1>4. /\ Len(buf) <= Len(t) /\ buf = SubSeq(t, Cut + 1, Len(t))
      /\ Cut > 0 => t[Cut] = "newline"
  BY <1>1 DEF LInv, Holds
<1>5. PICK at : Enumerated(at, next, Cut)
  BY <1>1 DEF LInv
<1>6. PICK k \in 1..(Len(buf) + 1) :
         /\ IsBreak(k)
         /\ IF k = 1 THEN UNCHANGED <<lines, lists>> ELSE AddTag(SubSeq(buf, 1, k - 1))
         /\ IF k > Len(buf) THEN next' = next + 1 /\ nread' = nread + 1 /\ pc' = "next"
                            ELSE UNCHANGED <<next, nread, pc>>
         /\ buf' = SubSeq(buf, k + 1, Len(buf))
  BY DEF SplitLine
<1>7. Len(buf) \in Nat
  BY <1>1, LenNat DEF TypeOK
<1>8. PICK c \in 0..Len(t) : c = Cut /\ Len(buf) = Len(t) - c
  BY <1>3, <1>4, <1>7 DEF Cut
<1>. HIDE DEF t, S
<1>9. /\ \A l \in 1..Len(buf) : buf[l] = t[c + l]
      /\ SubSeq(buf, 1, k - 1) = SubSeq(t, c + 1, c + k - 1)
      /\ k <= Len(buf) => buf' = SubSeq(t, c + k + 1, Len(t)) /\ Len(buf') = Len(t) - (c + k)
  <2>1. buf = SubSeq(t, c + 1, Len(t))
    BY <1>4, <1>8
  <2>2. k <= Len(buf) => k \in 1..Len(buf)
    BY <1>7
  <2>3. /\ \A l \in 1..Len(buf) : buf[l] = t[c + l]
        /\ \A i \in 1..(Len(buf) + 1) : SubSeq(buf, 1, i - 1) = SubSeq(t, c + 1, c + i - 1)
        /\ \A i \in 1..Len(buf) :
              /\ SubSeq(buf, i + 1, Len(buf)) = SubSeq(t, c + i + 1, Len(t))
              /\ Len(SubSeq(buf, i + 1, Len(buf))) = Len(t) - (c + i)
    <3>1. \A l \in 1..Len(buf) : buf[l] = t[c + l]
      BY <1>3, <2>1, Behind
    <3>2. ASSUME NEW i \in 1..(Len(buf) + 1)
          PROVE  SubSeq(buf, 1, i - 1) = SubSeq(t, c + 1, c + i - 1)
      BY <1>3, <2>1, Behind
    <3>3. ASSUME NEW i \in 1..Len(buf)
          PROVE  /\ SubSeq(buf, i + 1, Len(buf)) = SubSeq(t, c + i + 1, Len(t))
                 /\ Len(SubSeq(buf, i + 1, Len(buf))) = Len(t) - (c + i)
      BY <1>3, <2>1, Behind
    <3>. QED  BY <3>1, <3>2, <3>3
  <2>4. SubSeq(buf, 1, k - 1) = SubSeq(t, c + 1, c + k - 1)
    BY <2>3
  <2>. QED  BY <1>6, <2>2, <2>3, <2>4
<1>10. /\ k \in 1..(Len(t) - c + 1) /\ (k <= Len(buf) <=> c + k <= Len(t))
       /\ k \in Nat /\ c \in Nat /\ c + k \in Nat
  BY <1>3, <1>7, <1>8
<1>11. \A l \in 1..(k - 1) : t[c + l] # "newline"
  <2>1. \A l \in 1..(k - 1) : l \in 1..Len(buf)
    BY <1>7
  <2>. QED  BY <1>6, <1>9, <2>1 DEF IsBreak
<1>12. c + k <= Len(t) => t[c + k] = "newline"
  <2>1. c + k <= Len(t) => k \in 1..Len(buf) /\ k <= Len(buf)
    BY <1>10, <1>7
  <2>. QED  BY <1>6, <1>9, <2>1 DEF IsBreak
<1>13. IF k = 1 THEN lines' = lines
       ELSE lines' = Append(lines, [from |-> next, text |-> SubSeq(t, c + 1, c + k - 1)])
  BY <1>6, <1>9 DEF AddTag
<1>14. PICK d \in 0..Len(t) : d = IF c + k <= Len(t) THEN c + k ELSE Len(t)
  <2>1. (IF c + k <= Len(t) THEN c + k ELSE Len(t)) \in 0..Len(t)
    BY <1>3, <1>10
  <2>. QED  BY <2>1
<1>15. PICK n : n = next
  OBVIOUS
<1>16. PICK new : Enumerated(new, n, d)'
  <2>1. Enumerated(at, next, c)
    BY <1>5, <1>8
  <2>2. c > 0 => t[c] = "newline"
    BY <1>4, <1>8
  <2>3. k \in 1..(Len(t) - c + 1)
    BY <1>10
  <2>4. t = Here.text
    BY DEF t
  <2>5. /\ Enumerated(at, n, c) /\ n <= Len(args)
        /\ IF k = 1 THEN lines' = lines
           ELSE lines' = Append(lines, [from |-> n, text |-> SubSeq(t, c + 1, c + k - 1)])
    BY <1>1, <1>13, <1>15, <2>1
  <2>. QED
    BY <1>1, <1>3, <1>11, <1>12, <1>14, <1>15, <2>2, <2>3, <2>4, <2>5, LineAdded
<1>17. Text(n) = t /\ n \in Nat \ {0} /\ (\A m : Text(m)' = Text(m))
  BY <1>1, <1>15 DEF files, Text, Here, Arg, t
<1>18. CASE k <= Len(buf)
  <2>1. UNCHANGED <<next, pc>> /\ d = c + k
    BY <1>6, <1>7, <1>10, <1>14, <1>18
  <2>2. Here' = Here
    BY <1>1, <2>1 DEF files, Here, Arg
  <2>3. Cut' = d /\ Len(buf') <= Len(t) /\ buf' = SubSeq(t, Cut' + 1, Len(t))
    <3>1. Cut' = Len(t) - Len(buf')
      BY <2>2 DEF Cut, t
    <3>2. Len(t) - (Len(t) - (c + k)) = c + k /\ Len(t) - (c + k) <= Len(t)
      BY <1>3, <1>10
    <3>. QED  BY <1>9, <1>18, <2>1, <3>1, <3>2
  <2>4. Holds'
    BY <1>1, <1>10, <1>12, <1>18, <2>1, <2>2, <2>3 DEF Holds, t
  <2>5. Enumerated(new, next, d)'
    <3>1. n = next'
      BY <1>15, <2>1
    <3>. QED  BY <1>16, <3>1
  <2>. QED  BY <1>1, <2>1, <2>3, <2>4, <2>5 DEF LInv
<1>19. CASE k > Len(buf)
  <2>1. next' = next + 1 /\ pc' = "next" /\ d = Len(t)
    BY <1>6, <1>10, <1>14, <1>19, <1>7
  <2>2. Holds'
    BY <2>1 DEF Holds
  <2>3. Complete(new, n)'
    <3>1. Beginnings(t) \subseteq 1..Len(t)
      BY <1>3 DEF Beginnings, Genuine
    <3>2. \A q \in 1..Len(t) : q \in Beginnings(t) =>
             \E j \in DOMAIN lines' : lines'[j].from = n /\ new[j] = q
      BY <1>16, <1>17, <2>1 DEF Enumerated
    <3>. QED  BY <1>17, <3>1, <3>2 DEF Complete
  <2>4. ASSUME NEW m \in 1..n PROVE Complete(new, m)'
    <3>1. m \in 1..(n - 1) \/ m = n
      BY <1>17
    <3>2. \A i \in 1..(n - 1) : Complete(new, i)'
      BY <1>16 DEF Enumerated
    <3>. QED  BY <2>3, <3>1, <3>2
  <2>5. PICK up : up = n + 1 /\ up = next'
    BY <1>15, <2>1
  <2>6. Enumerated(new, up, 0)'
    <3>1. ASSUME NEW j \in DOMAIN lines'
          PROVE  lines'[j].from \in Nat /\ lines'[j].from < up
      <4>1. lines'[j].from \in Nat /\ (lines'[j].from < n \/ lines'[j].from = n)
        BY <1>16 DEF Enumerated
      <4>. QED  BY <1>17, <2>5, <4>1
    <3>2. new \in [DOMAIN lines' -> Nat] /\ InOrder(new)' /\ Faithful(new)'
      BY <1>16 DEF Enumerated
    <3>3. \A m \in 1..(up - 1) : Complete(new, m)'
      <4>1. 1..(up - 1) = 1..n
        BY <1>17, <2>5
      <4>. QED  BY <2>4, <4>1
    <3>4. 1..0 = {}
      OBVIOUS
    <3>. QED  BY <3>1, <3>2, <3>3, <3>4 DEF Enumerated
  <2>7. Enumerated(new, next, 0)'
    BY <2>5, <2>6
  <2>. QED  BY <2>1, <2>2, <2>7 DEF LInv
<1>. QED  BY <1>7, <1>10, <1>18, <1>19

LEMMA MainLines ==
  ASSUME IInv, QInv, LInv, Unknown \/ AllRead \/ AddWord \/ Search \/ AddFound \/ Ended
  PROVE  LInv'
<1>1. CASE Die
  BY <1>1, DieLines
<1>2. CASE Unknown
  <2>1. UNCHANGED files /\ next <= Len(args) /\ Arg.type = "other"
    BY <1>2 DEF Unknown, At, Return
  <2>2. ~ Quiet'
    BY <2>1, QuietHere, QuietSame
  <2>. QED  BY <2>2, UnquietLines
<1>3. CASE ~ Die /\ (AllRead \/ AddWord \/ Search \/ AddFound \/ Ended)
  <2>1. /\ UNCHANGED <<files, next, lines>> /\ pc \notin {"dead", "split"}
        /\ pc' \in {"words", "search", "done"}
    BY <1>3 DEF AllRead, AddWord, Search, AddFound, Ended, files, main, reader
  <2>2. Holds'
    BY <2>1 DEF Holds
  <2>. QED  BY <2>1, <2>2, ListedSame
<1>. QED  BY <1>1, <1>2, <1>3

LEMMA OthersLines == ASSUME IInv, Others PROVE LInv'
<1>1. \E f, c : Write(f, c)
  BY DEF Others
<1>2. acts' # 0
  BY <1>1 DEF Write, IInv, TypeOK
<1>. QED  BY <1>2, UnquietLines DEF Quiet

LEMMA NextLines == IInv /\ QInv /\ LInv /\ [Next]_vars => LInv'
<1>. SUFFICES ASSUME IInv, QInv, LInv, [Next]_vars PROVE LInv'
  OBVIOUS
<1>1. CASE UNCHANGED vars
  <2>1. UNCHANGED <<files, next, lines, pc, buf, size>>
    BY <1>1 DEF vars, main, reader
  <2>2. (Quiet' <=> Quiet) /\ Here' = Here /\ Cut' = Cut
    BY <2>1, QuietSame DEF files, Here, Arg, Cut
  <2>3. Holds'
    BY <2>1, <2>2 DEF LInv, Holds
  <2>. QED  BY <2>1, <2>2, <2>3, EnumeratedSame DEF LInv
<1>2. CASE Step
  BY <1>2, PlainLines, GzipLines, XzLines, SplitLineLines, MainLines DEF Step
<1>3. CASE Others
  BY <1>3, OthersLines
<1>. QED  BY <1>1, <1>2, <1>3 DEF Next, Stopped

-----------------------------------------------------------------------------
(* Theorems.                                                               *)

(***************************************************************************)
(* Every reachable state is well typed: in particular no step looks at a   *)
(* file that is not open, and every line is one that was counted           *)
(* (getlines.c:98-211).                                                    *)
(***************************************************************************)
THEOREM TypeCorrect == Spec => []TypeOK
<1>1. IInv => TypeOK
  BY DEF IInv
<1>. QED  BY <1>1, InitInv, NextInv, PTL DEF Spec

(***************************************************************************)
(* No array is ever filled beyond its memory, for any first capacities the *)
(* assumptions allow and any numbers of lines, words and threads           *)
(* (util.c:80-103, getlines.c:70-74, neotags.c:380-391).                   *)
(***************************************************************************)
THEOREM RoomSuffices == Spec => []WithinRoom
<1>1. IInv => WithinRoom
  BY DEF IInv, TypeOK, ListsOK, WithinRoom, Inside, Room, Spare, Found, List
<1>. QED  BY <1>1, InitInv, NextInv, PTL DEF Spec

(***************************************************************************)
(* Whatever others do, memory that was never set does not get into a line  *)
(* of a plain file, nor into any line while nobody touches the files       *)
(* (getlines.c:104-113, 137-145, 184-216).                                 *)
(***************************************************************************)
THEOREM NeverUnset == Spec => []NothingMadeUp
<1>1. IInv /\ QInv => NothingMadeUp
  <2>. SUFFICES ASSUME QInv, NEW k \in DOMAIN lines, NEW c \in DOMAIN lines[k].text,
                       lines[k].text[c] = "?"
                PROVE  args[lines[k].from].type # "none" /\ ~ Quiet
    BY DEF NothingMadeUp
  <2>1. lines[k].text \notin Genuine
    <3>. SUFFICES ASSUME lines[k].text \in Genuine PROVE FALSE
      OBVIOUS
    <3>1. lines[k].text[c] \in {"x", "y", "newline"}
      BY DEF Genuine
    <3>. QED  BY <3>1
  <2>. QED  BY <2>1 DEF QInv, LinesGenuine
<1>. QED  BY <1>1, InitInv, NextInv, InitQuiet, NextQuiet, PTL DEF Spec

(***************************************************************************)
(* None of the ways to die is reached with files nobody touches, unless    *)
(* they hold no line at all (getlines.c:104, 140, 193-209,                 *)
(* archive_util_xz.c:190-239).                                             *)
(***************************************************************************)
THEOREM QuietReadable == Spec => []QuietFilesDoNotKill
<1>1. QInv => QuietFilesDoNotKill
  BY DEF QInv, Calm, QuietFilesDoNotKill
<1>. QED  BY <1>1, InitInv, NextInv, InitQuiet, NextQuiet, PTL DEF Spec

(***************************************************************************)
(* Files that nobody touches are read completely and in order: the array   *)
(* holds exactly their lines that are not empty, for any files, however    *)
(* they are compressed and however read() divides them (getlines.c:59-75,  *)
(* neotags.c:79-81).                                                       *)
(***************************************************************************)
THEOREM EveryLineRead == Spec => []LinesOfFiles
<1>1. IInv /\ LInv => LinesOfFiles
  <2>. SUFFICES ASSUME IInv, LInv, Quiet, pc \in {"next", "words", "search", "done"}
                PROVE  \E at \in [DOMAIN lines ->
                                    UNION {DOMAIN Text(n) : n \in 1..(next - 1)}] :
                          /\ InOrder(at) /\ Faithful(at)
                          /\ \A j \in DOMAIN lines : lines[j].from < next
                          /\ \A n \in 1..(next - 1) : Complete(at, n)
    BY DEF LinesOfFiles
  <2>1. PICK at : Enumerated(at, next, 0)
    BY DEF LInv
  <2>2. ASSUME NEW j \in DOMAIN lines
        PROVE  /\ lines[j].from < next
               /\ at[j] \in UNION {DOMAIN Text(n) : n \in 1..(next - 1)}
    <3>1. lines[j].from < next \/ (lines[j].from = next /\ at[j] <= 0)
      BY <2>1 DEF Enumerated
    <3>2. lines[j].from \in DOMAIN args
      BY LineOfFile DEF IInv
    <3>3. lines[j].from \in 1..Len(args) /\ next \in Nat /\ Len(args) \in Nat
      BY LineOfFile, Typed DEF IInv
    <3>4. at[j] \in Beginnings(Text(lines[j].from))
      BY <2>1 DEF Enumerated, Faithful
    <3>5. at[j] \in DOMAIN Text(lines[j].from)
      BY <3>4 DEF Beginnings
    <3>6. lines[j].from < next
      <4>1. disk[args[lines[j].from].name].text \in Seq({"x", "y", "newline"})
        <5>1. args[lines[j].from] \in [type : Types, name : Names]
          BY <3>3, Typed, Nth DEF IInv
        <5>2. disk[args[lines[j].from].name] \in File
          BY <3>2, <5>1, Typed DEF IInv, Quiet
        <5>. QED  BY <5>2 DEF File
      <4>2. at[j] \in 1..Len(Text(lines[j].from))
        BY <3>5, <4>1 DEF Text
      <4>3. at[j] >= 1
        BY <4>2
      <4>. QED  BY <3>1, <4>2, <4>3
    <3>7. lines[j].from \in 1..(next - 1)
      BY <3>3, <3>6
    <3>. QED  BY <3>5, <3>6, <3>7
  <2>3. at \in [DOMAIN lines -> UNION {DOMAIN Text(n) : n \in 1..(next - 1)}]
    BY <2>1, <2>2 DEF Enumerated
  <2>. QED  BY <2>1, <2>2, <2>3 DEF Enumerated
<1>. QED  BY <1>1, InitInv, NextInv, InitQuiet, NextQuiet, InitLines, NextLines, PTL DEF Spec

=============================================================================
