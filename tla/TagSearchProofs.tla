--------------------------- MODULE TagSearchProofs ---------------------------
(***************************************************************************)
(* Proofs about TagSearch, for any number of threads and any tags files.   *)
(***************************************************************************)
EXTENDS TagSearch, WellFoundedInduction, TLAPS

-----------------------------------------------------------------------------
(* The division of the lines.                                              *)

(* The quotient leaves room for all the parts. *)
LEMMA QuotFits ==
  ASSUME NEW n \in Nat
  PROVE  Quot(n) \in Nat /\ N * Quot(n) <= n
  BY SearchAssumption DEF Quot

(* Multiplication is monotonic. *)
LEMMA Times ==
  ASSUME NEW a \in Nat, NEW b \in Nat, NEW q \in Nat, a <= b
  PROVE  a * q <= b * q
  OBVIOUS

(* The lines before a number fall into blocks of a positive length. *)
LEMMA Block ==
  ASSUME NEW i \in Nat, NEW q \in Nat, q > 0
  PROVE  \E t \in Nat : t * q <= i /\ i < (t + 1) * q
<1>1. (i \div q) \in Nat /\ (i \div q) * q <= i /\ i < ((i \div q) + 1) * q
  OBVIOUS
<1>. QED  BY <1>1

(* The part of a thread is an interval inside the array. *)
LEMMA PartInside ==
  ASSUME NEW n \in Nat, NEW t \in Threads
  PROVE  /\ PartFirst(t, n) \in Nat /\ PartFirst(t, n) > 0
         /\ PartSize(t, n) \in Nat
         /\ PartFirst(t, n) + PartSize(t, n) - 1 <= n
<1>. DEFINE q == Quot(n)
<1>1. q \in Nat /\ N * q <= n
  BY QuotFits
<1>2. N \in Nat /\ N > 0 /\ t \in Nat /\ t + 1 <= N
  BY SearchAssumption DEF Threads
<1>. HIDE DEF q
<1>3. (t + 1) * q <= N * q
  BY <1>1, <1>2, Times
<1>4. t * q \in Nat /\ (t + 1) * q = t * q + q
  BY <1>1, <1>2
<1>5. (N - 1) * q \in Nat /\ N * q = (N - 1) * q + q
  BY <1>1, <1>2
<1>6. CASE t = N - 1
  BY <1>1, <1>2, <1>5, <1>6 DEF PartFirst, PartSize, q
<1>7. CASE t # N - 1
  <2>1. PartFirst(t, n) = t * q + 1 /\ PartSize(t, n) = q
    BY <1>7 DEF PartFirst, PartSize, q
  <2>. QED  BY <2>1, <1>1, <1>3, <1>4, <1>5
<1>. QED  BY <1>6, <1>7

(* The part of a thread ends before that of a later thread begins. *)
LEMMA PartsInOrder ==
  ASSUME NEW n \in Nat, NEW s \in Threads, NEW t \in Threads, s < t
  PROVE  PartFirst(s, n) + PartSize(s, n) <= PartFirst(t, n)
<1>. DEFINE q == Quot(n)
<1>1. q \in Nat
  BY QuotFits
<1>2. s \in Nat /\ t \in Nat /\ s + 1 <= t /\ s # N - 1
  BY SearchAssumption DEF Threads
<1>. HIDE DEF q
<1>3. (s + 1) * q <= t * q
  BY <1>1, <1>2, Times
<1>4. s * q \in Nat /\ t * q \in Nat /\ (s + 1) * q = s * q + q
  BY <1>1, <1>2
<1>5. PartFirst(s, n) = s * q + 1 /\ PartSize(s, n) = q /\ PartFirst(t, n) = t * q + 1
  BY <1>2 DEF PartFirst, PartSize, q
<1>. QED  BY <1>1, <1>3, <1>4, <1>5

(* Every line belongs to a part. *)
LEMMA PartsCover ==
  ASSUME NEW n \in Nat, NEW i \in 1..n
  PROVE  \E t \in Threads : /\ PartFirst(t, n) <= i
                            /\ i < PartFirst(t, n) + PartSize(t, n)
<1>. DEFINE q == Quot(n)
<1>1. q \in Nat /\ N * q <= n
  BY QuotFits
<1>2. N \in Nat /\ N > 0 /\ i \in Nat /\ 1 <= i /\ i <= n /\ i - 1 \in Nat
  BY SearchAssumption
<1>. HIDE DEF q
<1>3. (N - 1) * q \in Nat
  BY <1>1, <1>2
<1>4. CASE i > (N - 1) * q
  <2>1. N - 1 \in Threads
    BY <1>2 DEF Threads
  <2>2. PartFirst(N - 1, n) = (N - 1) * q + 1 /\ PartSize(N - 1, n) = n - (N - 1) * q
    BY DEF PartFirst, PartSize, q
  <2>. QED  BY <2>1, <2>2, <1>2, <1>3, <1>4
<1>5. CASE i <= (N - 1) * q
  <2>1. q > 0
    BY <1>1, <1>2, <1>5
  <2>2. PICK t \in Nat : t * q <= i - 1 /\ i - 1 < (t + 1) * q
    BY <1>1, <1>2, <2>1, Block
  <2>3. t * q \in Nat /\ (t + 1) * q = t * q + q
    BY <1>1
  <2>4. t < N - 1
    <3>1. SUFFICES ASSUME N - 1 <= t PROVE FALSE
      BY <1>2
    <3>2. (N - 1) * q <= t * q
      BY <1>1, <1>2, <3>1, Times
    <3>. QED  BY <3>2, <2>2, <2>3, <1>2, <1>3, <1>5
  <2>5. t \in Threads
    BY <2>4, <1>2 DEF Threads
  <2>6. PartFirst(t, n) = t * q + 1 /\ PartSize(t, n) = q
    BY <2>4 DEF PartFirst, PartSize, q
  <2>. QED  BY <2>2, <2>3, <2>5, <2>6, <1>1, <1>2
<1>. QED  BY <1>2, <1>3, <1>4, <1>5

(* The parts lie in the array, do not overlap, and cover it. *)
LEMMA PartsDivide ==
  ASSUME tags \in Seq(Line)
  PROVE  /\ \A t \in Threads : PartFirst(t, Len(tags)) \in Nat /\ Part(t) \subseteq DOMAIN tags
         /\ \A s, t \in Threads : s # t => Part(s) \cap Part(t) = {}
         /\ \A i \in DOMAIN tags : \E t \in Threads : i \in Part(t)
<1>. DEFINE n == Len(tags)
<1>1. n \in Nat /\ DOMAIN tags = 1..n
  OBVIOUS
<1>. HIDE DEF n
<1>2. \A t \in Threads : /\ PartFirst(t, n) \in Nat /\ PartFirst(t, n) > 0
                         /\ PartSize(t, n) \in Nat
                         /\ PartFirst(t, n) + PartSize(t, n) - 1 <= n
  BY <1>1, PartInside
<1>3. \A t \in Threads : Part(t) = PartFirst(t, n) .. (PartFirst(t, n) + PartSize(t, n) - 1)
  BY DEF Part, n
<1>4. ASSUME NEW t \in Threads
      PROVE  PartFirst(t, Len(tags)) \in Nat /\ Part(t) \subseteq DOMAIN tags
  BY <1>1, <1>2, <1>3 DEF n
<1>5. ASSUME NEW s \in Threads, NEW t \in Threads, s < t
      PROVE  Part(s) \cap Part(t) = {}
  <2>1. PartFirst(s, n) + PartSize(s, n) <= PartFirst(t, n)
    BY <1>1, <1>5, PartsInOrder
  <2>. QED  BY <2>1, <1>2, <1>3
<1>6. ASSUME NEW s \in Threads, NEW t \in Threads, s # t
      PROVE  Part(s) \cap Part(t) = {}
  <2>1. s < t \/ t < s
    BY <1>6, SearchAssumption DEF Threads
  <2>. QED  BY <2>1, <1>5
<1>7. ASSUME NEW i \in DOMAIN tags
      PROVE  \E t \in Threads : i \in Part(t)
  <2>1. PICK t \in Threads : PartFirst(t, n) <= i /\ i < PartFirst(t, n) + PartSize(t, n)
    BY <1>1, PartsCover
  <2>2. i \in Part(t)
    BY <2>1, <1>1, <1>2, <1>3
  <2>. QED  BY <2>2
<1>. QED  BY <1>4, <1>6, <1>7

-----------------------------------------------------------------------------
(* The filter.                                                             *)

(* An accepted line has a kind and a name, in both implementations. *)
LEMMA PairType ==
  ASSUME NEW l \in Line, Eligible(l)
  PROVE  Pair(l) \in Kinds \X Names
<1>1. l \in Tag /\ l.kind \in Kinds
  BY DEF Line, Eligible, Tag
<1>. QED  BY <1>1, FilterAssumption DEF Pair, Tag

LEMMA MatchingTypes ==
  ASSUME tags \in Seq(Line), NEW words
  PROVE  /\ Matching(tags, words) \subseteq Kinds \X Names
         /\ PyMatching(tags, words) \subseteq Kinds \X Names
<1>1. \A i \in DOMAIN tags : tags[i] \in Line
  OBVIOUS
<1>. QED  BY <1>1, PairType DEF Matching, PyMatching, Accepts, PyAccepts

(* What is printed is a name, with or without its scope. *)
LEMMA GroupsTypes ==
  ASSUME NEW A, A \subseteq Kinds \X Names
  PROVE  Groups(A, vim) \subseteq Kinds \X Names
<1>1. \A p \in A : p \in Kinds \X Names /\ Shown(A, p, vim) \in Names
  BY FilterAssumption DEF Shown
<1>2. Printed(A) \subseteq A
  BY DEF Printed
<1>. QED  BY <1>1, <1>2 DEF Groups

(* What bsearch can find is a name. *)
LEMMA KnownNames ==
  ASSUME NEW t \in Seq(Names)
  PROVE  Known(t) \subseteq Names
<1>1. Words(t) \subseteq Names
  BY DEF Words
<1>2. Tokens(t) \subseteq Names
  BY <1>1, SearchAssumption DEF Tokens
<1>. QED  BY <1>2, SearchAssumption DEF Known

-----------------------------------------------------------------------------
(* The inductive invariant.                                                *)

(* A thread has not gone past the line behind its part. *)
Places ==
    \A t \in Threads : next[t] = PartFirst(t, Len(tags)) \/ next[t] - 1 \in Part(t)

(* A line was cut once if its thread is past it, and never otherwise. *)
Cuts == \A t \in Threads : \A i \in Part(t) : scans[i] = IF i < next[t] THEN 1 ELSE 0

(* A list holds what was accepted of the lines its thread is past. *)
Lists ==
    \A t \in Threads : found[t] = {i \in Part(t) : i < next[t] /\ Accepts(tags[i], toks)}

(* The threads that are joined have come to the end of their parts. *)
Joins ==
    /\ pc = "start" => \A t \in Threads : next[t] = PartFirst(t, Len(tags))
    /\ (pc = "start" => started = 0) /\ (pc = "create" => started < N)
    /\ \A t \in Threads : t < joined => next[t] \notin Part(t)

(* What has been merged is what the threads found. *)
Merges ==
    /\ pc \in {"print", "done"} =>
          joined = N /\ merged = {i \in DOMAIN tags : Accepts(tags[i], toks)}
    /\ pc = "done" => groups = Groups(Found, vim)

IInv == TypeOK /\ Places /\ Cuts /\ Lists /\ Joins /\ Merges

LEMMA InitInv == Init => IInv
<1>. SUFFICES ASSUME Init PROVE IInv
  OBVIOUS
<1>1. tags \in Inputs /\ tags \in Seq(Line)
  BY SearchAssumption DEF Init
<1>2. \A t \in Threads : PartFirst(t, Len(tags)) \in Nat /\ next[t] = PartFirst(t, Len(tags))
  BY <1>1, PartsDivide DEF Init
<1>3. \A t \in Threads : \A i \in Part(t) : ~ (i < next[t]) /\ i \in DOMAIN tags
  <2>1. \A t \in Threads : PartSize(t, Len(tags)) \in Nat
    BY <1>1, PartInside
  <2>. QED  BY <1>1, <1>2, <2>1, PartsDivide DEF Part
<1>4. TypeOK
  BY <1>1, <1>2, SearchAssumption DEF TypeOK, Init
<1>5. Places /\ Joins
  BY <1>2, SearchAssumption DEF Places, Joins, Init, Threads
<1>6. Cuts
  BY <1>3 DEF Cuts, Init
<1>7. Lists
  BY <1>3 DEF Lists, Init
<1>8. Merges
  BY DEF Merges, Init
<1>. QED  BY <1>4, <1>5, <1>6, <1>7, <1>8 DEF IInv

(* What a step that scans no line leaves as it was. *)
LEMMA Idle ==
  ASSUME Places, Cuts, Lists, UNCHANGED <<tags, toks, next, scans, found>>
  PROVE  Places' /\ Cuts' /\ Lists'
<1>1. \A t \in Threads : Part(t)' = Part(t)
  BY DEF Part
<1>2. Places'
  BY <1>1 DEF Places
<1>3. Cuts'
  BY <1>1 DEF Cuts
<1>4. Lists'
  BY <1>1 DEF Lists
<1>. QED  BY <1>2, <1>3, <1>4

(* The buffer is cut into words before any line is looked at. *)
LEMMA TokenizeInv == IInv /\ Tokenize => IInv'
<1>. SUFFICES ASSUME IInv, Tokenize PROVE IInv'
  OBVIOUS
<1>1. tags \in Seq(Line) /\ text \in Seq(Names)
  BY SearchAssumption DEF IInv, TypeOK
<1>2. \A t \in Threads : Part(t)' = Part(t)
  BY DEF Part, Tokenize, input
<1>3. toks' \subseteq Names
  <2>1. PICK last \in {0, 1} :
          /\ last = 0 \/ text # <<>>
          /\ toks' = Known(SubSeq(text, 1, Len(text) - last))
    BY DEF Tokenize
  <2>2. Len(text) - last \in Nat /\ Len(text) - last <= Len(text)
    BY <1>1, <2>1
  <2>3. SubSeq(text, 1, Len(text) - last) \in Seq(Names)
    BY <1>1, <2>2
  <2>. QED  BY <2>1, <2>3, KnownNames
<1>4. TypeOK'
  BY <1>3 DEF IInv, TypeOK, Tokenize, input
<1>5. Places' /\ Cuts'
  BY <1>2 DEF IInv, Places, Cuts, Tokenize, input
<1>6. \A t \in Threads : \A i \in Part(t) : ~ (i < next[t])
  <2>1. \A t \in Threads : /\ PartFirst(t, Len(tags)) \in Nat /\ PartSize(t, Len(tags)) \in Nat
                           /\ next[t] = PartFirst(t, Len(tags))
    BY <1>1, PartInside DEF IInv, Joins, Tokenize
  <2>. QED  BY <2>1 DEF Part
<1>7. Lists'
  <2>1. \A t \in Threads : found[t] = {}
    BY <1>6 DEF IInv, Lists
  <2>. QED  BY <2>1, <1>6, <1>2 DEF Lists, Tokenize
<1>8. Joins'
  <2>1. started' < N
    BY SearchAssumption DEF IInv, Joins, Tokenize
  <2>. QED  BY <2>1, <1>2 DEF IInv, Joins, Tokenize, input
<1>9. Merges'
  BY DEF IInv, Merges, Tokenize
<1>. QED  BY <1>4, <1>5, <1>7, <1>8, <1>9 DEF IInv

(* A thread that is not at the end of its part cuts one line more of it. *)
LEMMA ScanInv == \A t \in Threads : IInv /\ Scan(t) => IInv'
<1>. SUFFICES ASSUME NEW t \in Threads, IInv, Scan(t) PROVE IInv'
  OBVIOUS
<1>. DEFINE i == next[t]
<1>1. tags \in Seq(Line) /\ i \in Part(t) /\ t < started /\ pc \in {"create", "join"}
  BY SearchAssumption DEF IInv, TypeOK, Scan
<1>2. \A u \in Threads : Part(u)' = Part(u)
  BY DEF Part, Scan, input
<1>3. /\ \A u \in Threads : Part(u) \subseteq DOMAIN tags
      /\ \A u \in Threads : u # t => i \notin Part(u)
      /\ \A u \in Threads : \A j \in Part(u) : j \in Nat
  <2>1. DOMAIN tags \subseteq Nat
    BY <1>1
  <2>. QED  BY <1>1, <2>1, PartsDivide
<1>4. i \in DOMAIN tags /\ i \in Nat
  BY <1>1, <1>3
<1>5. /\ next' = [next EXCEPT ![t] = i + 1] /\ scans' = [scans EXCEPT ![i] = @ + 1]
      /\ found' = [found EXCEPT ![t] = IF Accepts(tags[i], toks) THEN @ \cup {i} ELSE @]
      /\ UNCHANGED <<tags, vim, text, inWord, pc, toks, started, joined, merged, groups>>
  BY DEF Scan, input
<1>. HIDE DEF i
<1>6. /\ next \in [Threads -> Nat] /\ found \in [Threads -> SUBSET DOMAIN tags]
      /\ scans \in [DOMAIN tags -> Nat]
  BY DEF IInv, TypeOK
<1>7. TypeOK'
  BY <1>4, <1>5, <1>6 DEF IInv, TypeOK
<1>8. next[t] = i /\ next'[t] = i + 1 /\ \A u \in Threads : u # t => next'[u] = next[u]
  BY <1>5, <1>6 DEF i
<1>9. Places'
  BY <1>1, <1>2, <1>4, <1>5, <1>8 DEF IInv, Places
<1>10. Cuts'
  <2>. SUFFICES ASSUME NEW u \in Threads, NEW j \in Part(u)
                PROVE  scans'[j] = IF j < next'[u] THEN 1 ELSE 0
    BY <1>2 DEF Cuts
  <2>1. j \in DOMAIN tags /\ j \in Nat /\ scans[j] = IF j < next[u] THEN 1 ELSE 0
    BY <1>3 DEF IInv, Cuts
  <2>2. CASE j = i
    <3>1. u = t
      BY <1>3, <2>2
    <3>2. scans'[j] = scans[j] + 1
      BY <1>4, <1>5, <1>6, <2>2
    <3>. QED  BY <3>1, <3>2, <2>1, <2>2, <1>8, <1>4
  <2>3. CASE j # i
    <3>1. scans'[j] = scans[j]
      BY <1>5, <1>6, <2>1, <2>3
    <3>2. CASE u = t
      BY <3>1, <3>2, <2>1, <2>3, <1>4, <1>8
    <3>3. CASE u # t
      BY <3>1, <3>3, <2>1, <1>8
    <3>. QED  BY <3>2, <3>3
  <2>. QED  BY <2>2, <2>3
<1>11. Lists'
  <2>. SUFFICES ASSUME NEW u \in Threads
                PROVE  found'[u] = {j \in Part(u) : j < next'[u] /\ Accepts(tags[j], toks)}
    BY <1>2, <1>5 DEF Lists
  <2>1. found[u] = {j \in Part(u) : j < next[u] /\ Accepts(tags[j], toks)}
    BY DEF IInv, Lists
  <2>2. CASE u # t
    BY <2>1, <2>2, <1>5, <1>6, <1>8
  <2>3. CASE u = t
    <3>1. found'[u] = IF Accepts(tags[i], toks) THEN found[u] \cup {i} ELSE found[u]
      BY <2>3, <1>5, <1>6
    <3>2. \A j \in Part(u) : j < next'[u] <=> j < next[u] \/ j = i
      BY <2>3, <1>3, <1>4, <1>8
    <3>. QED  BY <3>1, <3>2, <2>1, <2>3, <1>1
  <2>. QED  BY <2>2, <2>3
<1>12. Joins'
  <2>1. \A u \in Threads : u < joined => u # t
    BY <1>1, <1>8 DEF IInv, Joins
  <2>. QED  BY <2>1, <1>1, <1>2, <1>5, <1>8 DEF IInv, Joins
<1>13. Merges'
  BY <1>1, <1>5 DEF Merges
<1>. QED  BY <1>7, <1>9, <1>10, <1>11, <1>12, <1>13 DEF IInv

(* A thread that has not stopped in its part has looked at all of it. *)
LEMMA PartDone ==
  ASSUME IInv, NEW t \in Threads, next[t] \notin Part(t)
  PROVE  \A i \in Part(t) : i < next[t]
<1>1. tags \in Seq(Line)
  BY SearchAssumption DEF IInv, TypeOK
<1>2. /\ PartFirst(t, Len(tags)) \in Nat /\ PartSize(t, Len(tags)) \in Nat
      /\ next[t] \in Nat
  BY <1>1, PartInside DEF IInv, TypeOK
<1>. QED  BY <1>2 DEF IInv, Places, Part

(* When all threads are joined their lists are the accepted lines. *)
LEMMA MergeInv == IInv /\ Merge => IInv'
<1>. SUFFICES ASSUME IInv, Merge PROVE IInv'
  OBVIOUS
<1>1. tags \in Seq(Line)
  BY SearchAssumption DEF IInv, TypeOK
<1>2. \A t \in Threads : \A i \in Part(t) : i < next[t]
  <2>1. \A t \in Threads : t < joined
    BY SearchAssumption DEF Merge, Threads
  <2>. QED  BY <2>1, PartDone DEF IInv, Joins
<1>3. \A t \in Threads : found[t] = {i \in Part(t) : Accepts(tags[i], toks)}
  BY <1>2 DEF IInv, Lists
<1>4. merged' = {i \in DOMAIN tags : Accepts(tags[i], toks)}
  <2>1. \A i \in UNION {found[t] : t \in Threads} :
            i \in DOMAIN tags /\ Accepts(tags[i], toks)
    BY <1>1, <1>3, PartsDivide
  <2>2. ASSUME NEW i \in DOMAIN tags, Accepts(tags[i], toks)
        PROVE  i \in UNION {found[t] : t \in Threads}
    <3>1. PICK t \in Threads : i \in Part(t)
      BY <1>1, PartsDivide
    <3>2. i \in found[t]
      BY <3>1, <2>2, <1>3
    <3>. QED  BY <3>2
  <2>. QED  BY <2>1, <2>2 DEF Merge
<1>5. Places' /\ Cuts' /\ Lists'
  BY Idle DEF IInv, Merge, input
<1>6. TypeOK'
  BY <1>4 DEF IInv, TypeOK, Merge, input
<1>7. Joins'
  <2>1. \A t \in Threads : Part(t)' = Part(t)
    BY DEF Part, Merge, input
  <2>. QED  BY <2>1 DEF IInv, Joins, Merge, input
<1>8. Merges'
  BY <1>4 DEF IInv, Merges, Merge, input
<1>. QED  BY <1>5, <1>6, <1>7, <1>8 DEF IInv

(* A thread is created; one is joined at the end of its part. *)
LEMMA CreateJoinInv == IInv /\ (Create \/ Join) => IInv'
<1>. SUFFICES ASSUME IInv, Create \/ Join PROVE IInv'
  OBVIOUS
<1>1. N \in Nat /\ N > 0 /\ started \in 0..N /\ joined \in 0..N
  BY SearchAssumption DEF IInv, TypeOK
<1>2. UNCHANGED <<tags, vim, text, inWord, toks, next, found, scans, merged, groups>>
  BY DEF Create, Join, input
<1>3. Places' /\ Cuts' /\ Lists'
  BY <1>2, Idle DEF IInv
<1>4. \A t \in Threads : Part(t)' = Part(t)
  BY <1>2 DEF Part
<1>5. CASE Create
  <2>1. started' \in 0..N /\ (started + 1 # N => started' < N)
    BY <1>1, <1>5 DEF Create, IInv, Joins
  <2>2. TypeOK'
    BY <2>1, <1>2, <1>5 DEF IInv, TypeOK, Create
  <2>3. Joins'
    BY <2>1, <1>2, <1>4, <1>5 DEF IInv, Joins, Create
  <2>4. Merges'
    BY <1>5 DEF Merges, Create
  <2>. QED  BY <1>3, <2>2, <2>3, <2>4 DEF IInv
<1>6. CASE Join
  <2>1. TypeOK'
    BY <1>1, <1>2, <1>6 DEF IInv, TypeOK, Join
  <2>2. \A t \in Threads : t < joined' => t < joined \/ t = joined
    BY <1>1, <1>6 DEF Join, Threads
  <2>3. Joins'
    BY <2>2, <1>2, <1>4, <1>6 DEF IInv, Joins, Join
  <2>4. Merges'
    BY <1>6 DEF Merges, Join
  <2>. QED  BY <1>3, <2>1, <2>3, <2>4 DEF IInv
<1>. QED  BY <1>5, <1>6

(* The steps that only move on, and those that answer. *)
LEMMA AnswerInv ==
  IInv /\ (NoBinary \/ PrintTags \/ Python \/ \E t \in Threads : ScanDies(t)) => IInv'
<1>. SUFFICES ASSUME IInv, NoBinary \/ PrintTags \/ Python \/ \E t \in Threads : ScanDies(t)
              PROVE  IInv'
  OBVIOUS
<1>1. UNCHANGED <<tags, vim, text, inWord, toks, started, next, found, scans, joined, merged>>
  BY DEF NoBinary, PrintTags, Python, ScanDies, input
<1>2. tags \in Seq(Line)
  BY SearchAssumption DEF IInv, TypeOK
<1>3. Places' /\ Cuts' /\ Lists'
  BY <1>1, Idle DEF IInv
<1>4. \A t \in Threads : Part(t)' = Part(t)
  BY <1>1 DEF Part
<1>5. pc' \in {"python", "done", "pydone"} /\ (pc' = "done" <=> PrintTags)
  BY DEF NoBinary, PrintTags, Python, ScanDies
<1>6. Joins'
  BY <1>1, <1>4, <1>5 DEF IInv, Joins
<1>7. Merges'
  <2>1. PrintTags => groups' = Groups(Found, vim)' /\ pc = "print"
    BY <1>1 DEF PrintTags, Found
  <2>. QED  BY <2>1, <1>1, <1>5 DEF IInv, Merges
<1>8. groups' \in {NoAnswer} \cup SUBSET (Kinds \X Names)
  <2>1. CASE PrintTags
    <3>1. Found = Matching(tags, toks)
      BY <2>1 DEF IInv, Merges, Found, Matching, PrintTags
    <3>2. Found \subseteq Kinds \X Names
      BY <3>1, <1>2, MatchingTypes
    <3>. QED  BY <3>2, <2>1, GroupsTypes DEF PrintTags
  <2>2. CASE Python
    BY <2>2, <1>2, MatchingTypes DEF Python
  <2>3. CASE NoBinary \/ \E t \in Threads : ScanDies(t)
    BY <2>3 DEF NoBinary, ScanDies, IInv, TypeOK
  <2>. QED  BY <2>1, <2>2, <2>3
<1>9. TypeOK'
  BY <1>1, <1>5, <1>8 DEF IInv, TypeOK
<1>. QED  BY <1>3, <1>6, <1>7, <1>9 DEF IInv

LEMMA NextInv == IInv /\ [Next]_vars => IInv'
<1>1. IInv /\ UNCHANGED vars => IInv'
  <2>. SUFFICES ASSUME IInv, UNCHANGED vars PROVE IInv'
    OBVIOUS
  <2>1. UNCHANGED <<tags, vim, text, inWord, pc, toks, started, next, found, scans, joined,
                    merged, groups>>
    BY DEF vars
  <2>2. Places' /\ Cuts' /\ Lists' /\ \A t \in Threads : Part(t)' = Part(t)
    BY <2>1, Idle DEF IInv, Part
  <2>3. TypeOK' /\ Joins' /\ Merges'
    BY <2>1, <2>2 DEF IInv, TypeOK, Joins, Merges, Found
  <2>. QED  BY <2>2, <2>3 DEF IInv
<1>. QED
  BY <1>1, TokenizeInv, ScanInv, MergeInv, CreateJoinInv, AnswerInv DEF Next, Done

(* Every reachable state satisfies the inductive invariant. *)
LEMMA Inductive == Spec => []IInv
  BY InitInv, NextInv, PTL DEF Spec

-----------------------------------------------------------------------------
(***************************************************************************)
(* Type correctness, for any number of threads and any tags files: every   *)
(* line a thread looks at or keeps is one of the array                     *)
(* (neotags.c:330-333, 393).                                               *)
(***************************************************************************)
THEOREM TypeCorrect == Spec => []TypeOK
  BY Inductive, PTL DEF IInv

(***************************************************************************)
(* No line is cut by two threads, and when all of them are joined every    *)
(* line has been cut (neotags.c:323-333, 395).                             *)
(***************************************************************************)
THEOREM LinesDivided == Spec => []ScannedOnce
<1>1. IInv => ScannedOnce
  <2>. SUFFICES ASSUME IInv PROVE ScannedOnce
    OBVIOUS
  <2>1. tags \in Seq(Line)
    BY SearchAssumption DEF IInv, TypeOK
  <2>2. ASSUME NEW i \in DOMAIN tags PROVE scans[i] <= 1
    <3>1. PICK t \in Threads : i \in Part(t)
      BY <2>1, PartsDivide
    <3>. QED  BY <3>1 DEF IInv, Cuts
  <2>3. ASSUME pc = "print", NEW i \in DOMAIN tags PROVE scans[i] = 1
    <3>1. PICK t \in Threads : i \in Part(t)
      BY <2>1, PartsDivide
    <3>2. t < joined
      BY <2>3, SearchAssumption DEF IInv, Merges, Threads
    <3>3. i < next[t]
      BY <3>1, <3>2, PartDone DEF IInv, Joins
    <3>. QED  BY <3>1, <3>3 DEF IInv, Cuts
  <2>. QED  BY <2>2, <2>3 DEF ScannedOnce
<1>. QED  BY <1>1, Inductive, PTL

(***************************************************************************)
(* The threads implement the search of TagQuery: their answer is what the  *)
(* filter makes of all the lines (neotags.c:321-375).                      *)
(***************************************************************************)
THEOREM QueryImplemented == Spec => ImplementsQuery
<1>. DEFINE answer == IF pc \in {"print", "done"} THEN Found ELSE NoAnswer
<1>1. Init => Query!QueryInit
  BY DEF Init, Query!QueryInit
<1>2. ASSUME IInv, IInv', [Next]_vars
      PROVE  [Query!Prepare \/ Query!Answer]_<<tags, toks, answer>>
  <2>1. CASE Merge
    <3>1. answer = NoAnswer /\ answer' = Found' /\ UNCHANGED <<tags, toks>>
      BY <2>1 DEF Merge, input
    <3>2. Found' = Matching(tags, toks)
      <4>1. tags' = tags /\ toks' = toks /\ pc' = "print"
        BY <2>1 DEF Merge, input
      <4>2. merged' = {i \in DOMAIN tags : Accepts(tags[i], toks)}
        BY <4>1, <1>2 DEF IInv, Merges
      <4>. QED  BY <4>1, <4>2 DEF Found, Matching
    <3>3. Matching(tags, toks) = Query!Matching(tags, toks)
      BY DEF Matching, Accepts, Eligible, InOrder, Pair,
             Query!Matching, Query!Accepts, Query!Eligible, Query!InOrder, Query!Pair
    <3>. QED  BY <3>1, <3>2, <3>3 DEF Query!Answer
  <2>2. CASE Tokenize
    BY <2>2 DEF Tokenize, input, Query!Prepare
  <2>3. CASE PrintTags \/ Done \/ UNCHANGED vars
    BY <2>3 DEF PrintTags, Done, vars, input, Found
  <2>4. CASE NoBinary \/ Create \/ Join \/ Python
             \/ \E t \in Threads : Scan(t) \/ ScanDies(t)
    BY <2>4 DEF NoBinary, Create, Join, Python, Scan, ScanDies, input
  <2>. QED  BY <1>2, <2>1, <2>2, <2>3, <2>4 DEF Next
<1>. QED
  BY <1>1, <1>2, Inductive, PTL DEF Spec, ImplementsQuery, Query!QuerySpec

-----------------------------------------------------------------------------
(* What is highlighted.                                                    *)

(* A set of numbers has a least one. *)
LEMMA LeastNumber ==
  ASSUME NEW S, S \subseteq Nat, S # {}
  PROVE  \E m \in S : \A j \in S : ~ (j < m)
<1>. DEFINE R == {c \in Nat \X Nat : c[1] < c[2]}
<1>1. IsWellFoundedOn(R, Nat)
  BY NatLessThanWellFounded DEF OpToRel
<1>2. PICK m \in S : \A j \in S : ~ (<<j, m>> \in R)
  BY <1>1, WFMin
<1>3. \A j \in S : <<j, m>> \in R <=> j < m
  OBVIOUS
<1>. HIDE DEF R
<1>. QED  BY <1>2, <1>3

(* Of the pairs with one name that of the first letter is printed. *)
LEMMA NamePrinted ==
  ASSUME NEW A, A \subseteq Kinds \X Names, NEW p \in A
  PROVE  \E m \in Printed(A) : m[2] = p[2]
<1>. DEFINE S == {KindRank[q[1]] : q \in {r \in A : r[2] = p[2]}}
<1>1. S \subseteq Nat /\ S # {}
  BY FilterAssumption
<1>2. PICK m \in A : m[2] = p[2] /\ \A j \in S : ~ (j < KindRank[m[1]])
  <2>1. PICK k \in S : \A j \in S : ~ (j < k)
    BY <1>1, LeastNumber
  <2>2. PICK m \in A : m[2] = p[2] /\ k = KindRank[m[1]]
    OBVIOUS
  <2>. QED  BY <2>1, <2>2
<1>3. ASSUME NEW q \in A, Before(q, m), q[2] = m[2] PROVE FALSE
  <2>1. KindRank[q[1]] \in S
    BY <1>2, <1>3
  <2>2. q[1] \in Kinds /\ m[1] \in Kinds /\ NameRank[m[2]] \in Nat
    BY FilterAssumption
  <2>3. ~ (NameRank[m[2]] < NameRank[m[2]])
    BY <2>2
  <2>. QED  BY <1>2, <1>3, <2>1, <2>3 DEF Before
<1>4. m \in Printed(A)
  BY <1>3 DEF Printed, Neighbour
<1>. QED  BY <1>2, <1>4

(* At the end the array holds pairs of a letter and a name. *)
LEMMA FoundTypes ==
  ASSUME IInv, pc = "done"
  PROVE  Found \subseteq Kinds \X Names
<1>1. tags \in Seq(Line) /\ Found = Matching(tags, toks)
  BY SearchAssumption DEF IInv, TypeOK, Merges, Found, Matching
<1>. QED  BY <1>1, MatchingTypes

(***************************************************************************)
(* No name but the first gets lost when neighbours of one name are         *)
(* skipped, for any letters and names (neotags.c:204-208).                 *)
(***************************************************************************)
THEOREM NamesKept == Spec => []NamesShown
<1>1. IInv => NamesShown
  <2>. SUFFICES ASSUME IInv, pc = "done", NEW p \in Found
                PROVE  \/ \E q \in Found : IsFirst(Found, q) /\ q[2] = p[2]
                       \/ \E q \in groups : q[2] = Shown(Found, p, vim)
    BY DEF NamesShown
  <2>1. Found \subseteq Kinds \X Names
    BY FoundTypes
  <2>2. PICK m \in Printed(Found) : m[2] = p[2]
    BY <2>1, NamePrinted
  <2>3. groups = Groups(Found, vim) /\ m \in Found
    BY DEF IInv, Merges, Printed
  <2>4. CASE ~ IsFirst(Found, m)
    <3>1. <<m[1], Shown(Found, m, vim)>> \in groups
      BY <2>2, <2>3, <2>4 DEF Groups
    <3>2. Shown(Found, m, vim) = Shown(Found, p, vim)
      BY <2>2 DEF Shown
    <3>. QED  BY <3>1, <3>2
  <2>. QED  BY <2>2, <2>3, <2>4
<1>. QED  BY <1>1, Inductive, PTL

(* What a word of a part of the text is cut to is one of the words. *)
LEMMA SureKnown ==
  ASSUME text \in Seq(Names)
  PROVE  Tokens(Sure) \subseteq Known(text) /\ Tokens(Sure) \subseteq Known(Sure)
<1>1. CASE ~ inWord
  BY <1>1 DEF Sure, Known
<1>2. CASE inWord
  <2>1. Words(SubSeq(text, 1, Len(text) - 1)) \subseteq Words(text)
    <3>. SUFFICES ASSUME NEW i \in DOMAIN SubSeq(text, 1, Len(text) - 1)
                  PROVE  SubSeq(text, 1, Len(text) - 1)[i] \in Words(text)
      BY DEF Words
    <3>1. CASE text = <<>>
      BY <3>1
    <3>2. CASE text # <<>>
      <4>1. Len(text) - 1 \in Nat /\ i \in 1..(Len(text) - 1)
        BY <3>2
      <4>2. SubSeq(text, 1, Len(text) - 1)[i] = text[i] /\ i \in DOMAIN text
        BY <4>1
      <4>. QED  BY <4>2 DEF Words
    <3>. QED  BY <3>1, <3>2
  <2>2. Tokens(Sure) \subseteq Tokens(text)
    BY <2>1, <1>2 DEF Sure, Tokens
  <2>. QED  BY <2>2 DEF Known
<1>. QED  BY <1>1, <1>2

(* bsearch can find every word in front of the one that ends the text. *)
Findable == pc \in {"create", "join", "print", "done"} => Tokens(Sure) \subseteq toks

LEMMA FindableInv == Spec => []Findable
<1>1. Init => Findable
  BY DEF Init, Findable
<1>2. TypeOK /\ Findable /\ [Next]_vars => Findable'
  <2>. SUFFICES ASSUME TypeOK, Findable, [Next]_vars PROVE Findable'
    OBVIOUS
  <2>1. CASE Tokenize
    <3>1. text \in Seq(Names) /\ Tokens(Sure)' = Tokens(Sure)
      BY <2>1, SearchAssumption DEF TypeOK, Tokenize, input, Tokens, Words, Sure
    <3>2. PICK last \in (IF inWord /\ text # <<>> THEN {0, 1} ELSE {0}) :
             toks' = Known(SubSeq(text, 1, Len(text) - last))
      BY <2>1 DEF Tokenize
    <3>3. CASE last = 0
      <4>1. SubSeq(text, 1, Len(text) - last) = text
        BY <3>1, <3>3
      <4>. QED  BY <4>1, <3>1, <3>2, SureKnown DEF Findable
    <3>4. CASE last = 1
      <4>1. SubSeq(text, 1, Len(text) - last) = Sure
        BY <3>2, <3>4 DEF Sure
      <4>. QED  BY <4>1, <3>1, <3>2, SureKnown DEF Findable
    <3>. QED  BY <3>2, <3>3, <3>4
  <2>2. CASE ~ Tokenize
    <3>1. UNCHANGED <<text, inWord, toks>>
      BY <2>2 DEF Next, NoBinary, Create, Scan, ScanDies, Join, Merge, PrintTags, Python,
                  Done, vars, input
    <3>2. pc' \in {"create", "join", "print", "done"} =>
              pc \in {"create", "join", "print", "done"}
      BY <2>2 DEF Next, NoBinary, Create, Scan, ScanDies, Join, Merge, PrintTags, Python,
                  Done, vars, input
    <3>. QED  BY <3>1, <3>2 DEF Findable, Tokens, Words, Sure
  <2>. QED  BY <2>1, <2>2
<1>. QED  BY <1>1, <1>2, TypeCorrect, PTL DEF Spec

(***************************************************************************)
(* Of what python would highlight in the same text, every name but the one *)
(* printed first is highlighted, as some kind, if it stands in front of a  *)
(* last word that ends the text, does not begin with a digit, and has no   *)
(* '$' or '.' (neotags.py:619-625, neotags.c:399-446, tok.c:75-100).       *)
(***************************************************************************)
THEOREM BinaryAgrees == Spec => []BinaryFindsToo
<1>1. IInv /\ Findable /\ NamesShown => BinaryFindsToo
  <2>. SUFFICES ASSUME IInv, Findable, NamesShown, pc = "done", ~ vim,
                       NEW p \in PyMatching(tags, PyWords(Sure)),
                       p[2] \notin Special, Led[p[2]] = {p[2]}
                PROVE  \/ \E q \in Found : IsFirst(Found, q) /\ q[2] = p[2]
                       \/ \E q \in groups : q[2] = p[2]
    BY DEF BinaryFindsToo
  <2>1. PICK i \in DOMAIN tags : PyAccepts(tags[i], PyWords(Sure)) /\ p = Pair(tags[i])
    BY DEF PyMatching
  <2>2. p[2] = tags[i].name
    BY <2>1 DEF Pair
  <2>3. p[2] \in Words(Sure)
    BY <2>1, <2>2 DEF PyAccepts, PyWords
  <2>4. p[2] \in toks
    BY <2>3 DEF Tokens, Findable
  <2>5. Accepts(tags[i], toks)
    BY <2>1, <2>2, <2>4 DEF PyAccepts, Accepts
  <2>6. p \in Found
    BY <2>1, <2>5 DEF IInv, Merges, Found
  <2>7. Shown(Found, p, vim) = p[2]
    BY DEF Shown
  <2>. QED  BY <2>6, <2>7 DEF NamesShown
<1>. QED  BY <1>1, Inductive, FindableInv, NamesKept, PTL

=============================================================================
