----------------------------- MODULE TagSearch -----------------------------
(***************************************************************************)
(* One search for the tags of a buffer: neotags_bin, which divides the     *)
(* lines of the tags files among threads, the python method _bin_get_tags  *)
(* that runs it and reads its output, and the search in python that        *)
(* _parseTags falls back on when neotags_bin is not there or fails.        *)
(*                                                                         *)
(* A thread cuts the lines of its part into fields in place (strsep), one  *)
(* line per step.  Lists of accepted tags are sets of line numbers here:   *)
(* the array is sorted before anything depends on the order.               *)
(***************************************************************************)
EXTENDS TagFilter

CONSTANTS
    N,         \* number of threads
    Inputs,    \* the tags files of this instance: sequences of lines
    Texts,     \* the texts of a buffer: sequences of letters, digits and '_'
    VimTexts,  \* the texts of a vim script: in its words may be a ':' too
    Led,       \* a word from its first letter or '_' on, or nothing
    Fragment,  \* of a word with a ':', the beginning that is as long as Bare
    Pieces,    \* the parts that ':' divides a word into
    NoAnswer   \* nothing has been found yet

Threads == 0..(N - 1)

ASSUME SearchAssumption ==
    /\ N \in Nat \ {0}
    /\ Inputs \subseteq Seq(Line)
    /\ Texts \subseteq Seq(Names) /\ VimTexts \subseteq Seq(Names)
    /\ Led \in [Names -> SUBSET Names]
    /\ Fragment \in [Names -> Names] /\ Pieces \in [Names -> SUBSET Names]

VARIABLES
    tags,    \* the lines of all tags files, one after the other
    vim,     \* TRUE: the buffer is a vim script
    text,    \* the words of the buffer, in their order
    inWord,  \* TRUE: the text ends with its last word
    pc,      \* where the search is
    toks,    \* the words bsearch can find
    started, \* number of threads created
    next,    \* the line each thread looks at next
    found,   \* the lines each thread has put into its list
    scans,   \* how often each line was cut
    joined,  \* number of threads joined
    merged,  \* the lines in the array alldata
    groups   \* the pairs of kind and name that are highlighted

vars == <<tags, vim, text, inWord, pc, toks, started, next, found, scans, joined,
          merged, groups>>

input == <<tags, vim, text, inWord>>

Words(t) == {t[i] : i \in DOMAIN t}

(* strsep_f: what a word begins with must not be a digit. *)
Tokens(t) == UNION {Led[w] : w \in Words(t)}

(* tokenize: in a vim script a word with a ':' is followed by a fragment. *)
Known(t) == IF vim THEN Tokens(t) \cup {Fragment[w] : w \in Tokens(t)} ELSE Tokens(t)

(* tokenize of utils.py: ':' ends a word in every language, a digit does not. *)
PyWords(t) == IF vim THEN UNION {Pieces[w] : w \in Words(t)} ELSE Words(t)

-----------------------------------------------------------------------------
(* The division of the lines. *)

Quot(n) == n \div N

(* Slip: the remainder goes to the first thread, the others start as before. *)
PartSizeFirst(t, n) == IF t = 0 THEN n - ((N - 1) * Quot(n)) ELSE Quot(n)

(* tags->lst + (i * quot) *)
PartFirst(t, n) == (t * Quot(n)) + 1

(* num: the last thread takes what the division leaves *)
PartSize(t, n) == IF t = N - 1 THEN n - ((N - 1) * Quot(n)) ELSE Quot(n)

Part(t) == PartFirst(t, Len(tags)) .. (PartFirst(t, Len(tags)) + PartSize(t, Len(tags)) - 1)

-----------------------------------------------------------------------------
Init ==
    /\ tags \in Inputs
    /\ vim \in BOOLEAN
    /\ text \in (IF vim THEN VimTexts ELSE Texts)
    /\ inWord \in BOOLEAN
    /\ pc = "start"
    /\ toks = {}
    /\ started = 0
    /\ next = [t \in Threads |-> PartFirst(t, Len(tags))]
    /\ found = [t \in Threads |-> {}]
    /\ scans = [i \in DOMAIN tags |-> 0]
    /\ joined = 0
    /\ merged = {}
    /\ groups = NoAnswer

(***************************************************************************)
(* _parseTags: if self.__neotags_bin is None.  A neotags_bin that does not *)
(* know the language of the buffer dies before it has read any tags, which *)
(* has the same effect.                                                    *)
(***************************************************************************)
NoBinary ==
    /\ pc = "start"
    /\ pc' = "python"
    /\ UNCHANGED <<input, toks, started, next, found, scans, joined, merged, groups>>

(***************************************************************************)
(* main and tokenize.  The length of a word that ends the text is computed *)
(* from the null pointer that strsep_f leaves, so bsearch need not find it *)
(* unless it occurs once more.  No tags at all is an error.                *)
(***************************************************************************)
Tokenize ==
    /\ pc = "start"
    /\ \E last \in (IF inWord /\ text # <<>> THEN {0, 1} ELSE {0}) :
          toks' = Known(SubSeq(text, 1, Len(text) - last))
    /\ pc' = IF tags = <<>> THEN "python" ELSE "create"
    /\ UNCHANGED <<input, started, next, found, scans, joined, merged, groups>>

(* Slip: the loop makes one thread more. *)
CreateOneMore ==
    /\ pc = "create"
    /\ started' = started + 1
    /\ pc' = IF started = N THEN "join" ELSE "create"
    /\ UNCHANGED <<input, toks, next, found, scans, joined, merged, groups>>

(* tok_search: pthread_create *)
Create ==
    /\ pc = "create"
    /\ started' = started + 1
    /\ pc' = IF started + 1 = N THEN "join" ELSE "create"
    /\ UNCHANGED <<input, toks, next, found, scans, joined, merged, groups>>

(* Slip: a thread that accepts a line forgets the ones before. *)
ScanLast(t) ==
    /\ pc \in {"create", "join"}
    /\ t < started
    /\ next[t] \in Part(t)
    /\ next' = [next EXCEPT ![t] = @ + 1]
    /\ scans' = [scans EXCEPT ![next[t]] = @ + 1]
    /\ found' = [found EXCEPT ![t] = IF Accepts(tags[next[t]], toks) THEN {next[t]} ELSE @]
    /\ UNCHANGED <<input, pc, toks, started, joined, merged, groups>>

(* do_tok_search: one round of its loop *)
Scan(t) ==
    /\ pc \in {"create", "join"}
    /\ t < started
    /\ next[t] \in Part(t)
    /\ next' = [next EXCEPT ![t] = @ + 1]
    /\ scans' = [scans EXCEPT ![next[t]] = @ + 1]
    /\ found' = [found EXCEPT ![t] =
                    IF Accepts(tags[next[t]], toks) THEN @ \cup {next[t]} ELSE @]
    /\ UNCHANGED <<input, pc, toks, started, joined, merged, groups>>

(***************************************************************************)
(* A buffer without words: uniq holds one pointer that was never set, and  *)
(* bsearch follows it.  If that ends the process, python takes over.       *)
(***************************************************************************)
ScanDies(t) ==
    /\ pc \in {"create", "join"}
    /\ t < started
    /\ next[t] \in Part(t)
    /\ text = <<>>
    /\ Eligible(tags[next[t]]) /\ tags[next[t]].file # OwnFile
    /\ pc' = "python"
    /\ UNCHANGED <<input, toks, started, next, found, scans, joined, merged, groups>>

(* tok_search: pthread_join, in the order of the threads *)
Join ==
    /\ pc = "join"
    /\ joined < N
    /\ next[joined] \notin Part(joined)
    /\ joined' = joined + 1
    /\ UNCHANGED <<input, pc, toks, started, next, found, scans, merged, groups>>

(* tok_search: the lists become one array, which is sorted *)
Merge ==
    /\ pc = "join"
    /\ joined = N
    /\ merged' = UNION {found[t] : t \in Threads}
    /\ pc' = "print"
    /\ UNCHANGED <<input, toks, started, next, found, scans, joined, groups>>

Found == {Pair(tags[i]) : i \in merged}

(* print_tags, print_tags_vim or errx(0), and the loop of _bin_get_tags *)
PrintTags ==
    /\ pc = "print"
    /\ groups' = Groups(Found, vim)
    /\ pc' = "done"
    /\ UNCHANGED <<input, toks, started, next, found, scans, joined, merged>>

(***************************************************************************)
(* _get_tags.  Python takes comments out by rules of its own, and only in  *)
(* some languages (see Strip), so that its words may be others.            *)
(***************************************************************************)
Python ==
    /\ pc = "python"
    /\ \E t \in (IF vim THEN VimTexts ELSE Texts) :
          groups' = PyMatching(tags, PyWords(t))
    /\ pc' = "pydone"
    /\ UNCHANGED <<input, toks, started, next, found, scans, joined, merged>>

Done == pc \in {"done", "pydone"} /\ UNCHANGED vars

Next ==
    \/ NoBinary \/ Tokenize \/ Create
    \/ \E t \in Threads : Scan(t) \/ ScanDies(t)
    \/ Join \/ Merge \/ PrintTags \/ Python \/ Done

Spec == Init /\ [][Next]_vars

-----------------------------------------------------------------------------
(* Properties.                                                              *)

(***************************************************************************)
(* The type invariant: in particular every line a thread looks at is one   *)
(* of the array, and what it puts into its list are lines of its part      *)
(* (neotags.c:330-333, 393).                                               *)
(***************************************************************************)
TypeOK ==
    /\ tags \in Inputs /\ vim \in BOOLEAN
    /\ text \in (IF vim THEN VimTexts ELSE Texts) /\ inWord \in BOOLEAN
    /\ pc \in {"start", "create", "join", "print", "python", "done", "pydone"}
    /\ toks \subseteq Names
    /\ started \in 0..N
    /\ joined \in 0..N
    /\ next \in [Threads -> Nat]
    /\ found \in [Threads -> SUBSET DOMAIN tags]
    /\ scans \in [DOMAIN tags -> Nat]
    /\ merged \subseteq DOMAIN tags
    /\ groups \in {NoAnswer} \cup SUBSET (Kinds \X Names)

(***************************************************************************)
(* No line is cut by two threads: strsep leaves a null pointer in place of *)
(* the line, and the second thread would follow it.  When all threads are  *)
(* joined every line has been cut (neotags.c:323-333, 395).                *)
(***************************************************************************)
ScannedOnce ==
    /\ \A i \in DOMAIN tags : scans[i] <= 1
    /\ pc = "print" => \A i \in DOMAIN tags : scans[i] = 1

(***************************************************************************)
(* However the threads interleave, the array that is printed holds what    *)
(* the filter makes of all lines (neotags.c:357-375).                      *)
(***************************************************************************)
Query == INSTANCE TagQuery WITH
            lines <- tags, known <- toks,
            answer <- IF pc \in {"print", "done"} THEN Found ELSE NoAnswer
ImplementsQuery == Query!QuerySpec

(***************************************************************************)
(* Although print_tags skips a pair whose neighbour has the same name in   *)
(* another kind, no name gets lost this way: every accepted name except    *)
(* the one printed first is highlighted as some kind, in a vim script      *)
(* maybe without its scope (neotags.c:204-208, id.c:75-87).                *)
(***************************************************************************)
NamesShown ==
    pc = "done" =>
        \A p \in Found :
            \/ \E q \in Found : IsFirst(Found, q) /\ q[2] = p[2]
            \/ \E q \in groups : q[2] = Shown(Found, p, vim)

(* The text without a last word whose length tokenize does not know. *)
Sure == IF inWord THEN SubSeq(text, 1, Len(text) - 1) ELSE text

(***************************************************************************)
(* Turning the binary on loses no tag (neotags.py:974-983): of what the    *)
(* python search would highlight in the same text, every name but the one  *)
(* printed first is highlighted, as some kind, if it stands in front of a  *)
(* last word that ends the text, does not begin with a digit, and has no   *)
(* '$' or '.' (neotags.py:619-625, neotags.c:399-446, tok.c:75-100).  Not  *)
(* in vim scripts, whose words the two cut differently.                    *)
(***************************************************************************)
BinaryFindsToo ==
    pc = "done" /\ ~ vim =>
        \A p \in PyMatching(tags, PyWords(Sure)) :
            \/ p[2] \in Special \/ Led[p[2]] # {p[2]}
            \/ \E q \in Found : IsFirst(Found, q) /\ q[2] = p[2]
            \/ \E q \in groups : q[2] = p[2]

=============================================================================
