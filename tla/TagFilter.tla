----------------------------- MODULE TagFilter -----------------------------
(***************************************************************************)
(* The lines of a tags file and the filter both implementations apply to   *)
(* them: do_tok_search in neotags_bin/src/neotags.c, and find_tags with    *)
(* _parse in rplugin/python3/neotags.  A line of the model is a line of    *)
(* the file with the fields that the filter looks at.                      *)
(***************************************************************************)
EXTENDS Naturals, Sequences, FiniteSets

CONSTANTS
    Names,      \* names of tags, and words of the buffer
    Kinds,      \* the letters ctags gives a tag
    Langs,      \* the languages ctags gives a tag
    Files,      \* the files tags are defined in
    Comment,    \* an empty line, or one that begins with '!'
    NoField,    \* a field the line does not have
    Order,      \* the letters in neotags#<ft>#order
    Equivalent, \* neotags#<ft>#equivalent, the identity elsewhere
    Wanted,     \* the languages the binary takes for the one of the buffer
    PyWanted,   \* those that python does: fewer in objc and objcpp
    Ignored,    \* g:neotags_ignored_tags
    OwnFile,    \* the file in the buffer
    Special,    \* names that contain '$' or '.'
    KindRank,   \* the order of the letters
    NameRank,   \* the order of the names: by length, then by memcmp
    Bare        \* a name behind its first ':', or the name if it has none

ASSUME FilterAssumption ==
    /\ Order \subseteq Kinds
    /\ Equivalent \in [Kinds -> Kinds]
    /\ OwnFile \in Files
    /\ PyWanted \subseteq Wanted
    /\ NoField \notin Kinds \cup Langs
    /\ KindRank \in [Kinds -> Nat] /\ NameRank \in [Names -> Nat]
    /\ Bare \in [Names -> Names]
    /\ \A k, l \in Kinds : KindRank[k] = KindRank[l] => k = l
    /\ \A m, n \in Names : NameRank[m] = NameRank[n] => m = n

Tag == [name : Names, kind : Kinds \cup {NoField},
        lang : Langs \cup {NoField}, file : Files]

Line == Tag \cup {Comment}

(* in_order: the letter is replaced by its equivalent first. *)
InOrder(kind) == Equivalent[kind] \in Order

(* The part of the filter that does not depend on the buffer. *)
Eligible(l) ==
    /\ l # Comment
    /\ l.kind # NoField /\ l.lang # NoField
    /\ InOrder(l.kind)
    /\ l.lang \in Wanted
    /\ l.name \notin Ignored

(* Slip: a letter that has an equivalent is looked up before it is replaced. *)
AcceptsRaw(l, toks) ==
    /\ Eligible(l) /\ l.kind \in Order
    /\ l.file = OwnFile \/ l.name \in toks

(* do_tok_search: the tag is one of the file itself, or in the buffer. *)
Accepts(l, toks) == Eligible(l) /\ (l.file = OwnFile \/ l.name \in toks)

(* find_tags and _parse: in the buffer, or of a name no word can equal. *)
PyAccepts(l, words) ==
    /\ Eligible(l) /\ l.lang \in PyWanted
    /\ l.name \in words \/ l.name \in Special

Pair(l) == <<Equivalent[l.kind], l.name>>

Matching(tags, toks) == {Pair(tags[i]) : i \in {j \in DOMAIN tags : Accepts(tags[j], toks)}}

(* _parse: groups[key].add *)
PyMatching(tags, words) ==
    {Pair(tags[i]) : i \in {j \in DOMAIN tags : PyAccepts(tags[j], words)}}

(* tag_cmp: by letter, then by name *)
Before(p, q) ==
    \/ KindRank[p[1]] < KindRank[q[1]]
    \/ p[1] = q[1] /\ NameRank[p[2]] < NameRank[q[2]]

(* q is the neighbour in front of p in the sorted array A. *)
Neighbour(A, q, p) == Before(q, p) /\ \A r \in A : ~ (Before(q, r) /\ Before(r, p))

IsFirst(A, p) == p \in A /\ \A q \in A : ~ Before(q, p)

(* Slip: the loop ends one element too early. *)
PrintedButLast(A) ==
    {p \in A : /\ \A q \in A : Neighbour(A, q, p) => q[2] # p[2]
               /\ \E q \in A : IsFirst(A, p) \/ Before(p, q)}

(* print_tags: an element is skipped if its neighbour has the same name.   *)
Printed(A) ==
    {p \in A : \A q \in A : Neighbour(A, q, p) => q[2] # p[2]}

(***************************************************************************)
(* print_tags_vim: a name loses its scope if the first element of the      *)
(* array, not the one that is printed, is a function.                      *)
(***************************************************************************)
Shown(A, p, vim) ==
    IF vim /\ \E q \in A : IsFirst(A, q) /\ q[1] = "f" THEN Bare[p[2]] ELSE p[2]

(***************************************************************************)
(* _bin_get_tags: the lines of the output that are a group and a name.     *)
(* id_lang prints without a newline in front of the first tag, which so    *)
(* gets into a group of another name.                                      *)
(***************************************************************************)
Groups(A, vim) ==
    {<<p[1], Shown(A, p, vim)>> : p \in {q \in Printed(A) : ~ IsFirst(A, q)}}

=============================================================================
