-------------------------------- MODULE Growth --------------------------------
(***************************************************************************)
(* The arrays of pointers of neotags_bin that grow: how many pointers are  *)
(* in one, the capacity it is believed to have, and how many the memory    *)
(* has room for.  No state; ReadTags fills the arrays.                     *)
(***************************************************************************)
EXTENDS Integers

CONSTANTS
    InitTags,    \* INIT_TAGS
    TagsInc,     \* TAGS_INC
    InitBackups, \* the 1024 of main
    InitStrings  \* INIT_STRINGS

ASSUME GrowthAssumption ==
    /\ InitTags \in Nat
    /\ TagsInc \in Nat \ {0}
    /\ InitBackups \in Nat \ {0}
    /\ InitStrings \in Nat \ {0, 1}

List == [num : Nat, max : Nat, room : Nat]

NewList(max) == [num |-> 0, max |-> max, room |-> max]

(* INIT_MAX: a thread's array; nmalloc is given the size of a string, which *)
(* is that of three pointers.                                               *)
NewFound(part) ==
    LET max == (part \div 2) * 3 IN [num |-> 0, max |-> max, room |-> 3 * max]

(* realloc, then the store *)
Grown(l, max) == [num |-> l.num + 1, max |-> max, room |-> max]

Stored(l) == [l EXCEPT !.num = @ + 1]

(* Slip: the array grows when it is beyond its capacity. *)
AddToListLate(l) ==
    IF l.num = l.max + 1 THEN Grown(l, (l.max * 3) \div 2) ELSE Stored(l)

AddToList(l) ==
    IF l.num = l.max - 1 THEN Grown(l, (l.max * 3) \div 2) ELSE Stored(l)

AddBackup(l) ==
    IF l.num >= l.max - 1 THEN Grown(l, 2 * l.max) ELSE Stored(l)

(* Slip: the store is in the branch that does not grow. *)
AddLineElse(l) ==
    IF l.num = l.max
    THEN [l EXCEPT !.max = @ + TagsInc, !.room = l.max + TagsInc]
    ELSE Stored(l)

(* ll_strsep *)
AddLine(l) == IF l.num = l.max THEN Grown(l, l.max + TagsInc) ELSE Stored(l)

(* Every store was into the memory of the array. *)
Inside(l) == l.num <= l.room

=============================================================================
