---------------------------- MODULE ProjectTable ----------------------------
(***************************************************************************)
(* The dictionary of projects that neotags keeps in g:neotags_settings_file*)
(* and what the four commands of rplugin/python3/neotags/utils.py compute  *)
(* from it.  A python dictionary keeps its insertion order, and so does    *)
(* the JSON text made of it: the table is a sequence of records.           *)
(***************************************************************************)
EXTENDS Naturals, Sequences

CONSTANTS
    Paths,     \* directories, as os.path.realpath returns them
    Above,     \* the directories above a directory, itself included
    Existing,  \* the directories for which os.path.exists is true
    Dirs       \* what is given as an extra directory

ASSUME TableAssumption ==
    /\ Above \in [Paths -> SUBSET Paths]
    /\ \A p \in Paths : p \in Above[p]
    /\ Existing \subseteq Paths

Project == [path : Paths, run : {0, 1}, dirs : SUBSET Dirs]

Command == [kind : {"setBase"}, path : Paths, run : {0, 1}]
           \cup [kind : {"removeBase"}, path : Paths]
           \cup [kind : {"addExtraDir", "removeExtraDir"}, path : Paths, dir : Dirs]

(* The tables: a dictionary has every key once. *)
Table == {t \in Seq(Project) :
             \A m, n \in DOMAIN t : t[m].path = t[n].path => m = n}

Has(t, p) == \E i \in DOMAIN t : t[i].path = p

(* The projects whose directory is the common path with p. *)
Covering(t, p) == {i \in DOMAIN t : t[i].path \in Above[p]}

(* get_project_path: the first of them in the order of the dictionary *)
First(t, p) == CHOOSE i \in Covering(t, p) : \A j \in Covering(t, p) : i <= j

(* Slip: a new base goes to the front. *)
AddBaseFirst(t, p, run) ==
    IF p \in Existing /\ ~Has(t, p)
    THEN <<[path |-> p, run |-> run, dirs |-> {}]>> \o t ELSE t

(* Slip: a base that is known is added once more. *)
AddBaseAgain(t, p, run) ==
    IF p \in Existing
    THEN Append(t, [path |-> p, run |-> run, dirs |-> {}]) ELSE t

(* do_set_base *)
AddBase(t, p, run) ==
    IF p \in Existing /\ ~Has(t, p)
    THEN Append(t, [path |-> p, run |-> run, dirs |-> {}]) ELSE t

(* Slip: the record behind the base is removed as well. *)
RemoveBaseAndNext(t, p) ==
    IF ~Has(t, p) THEN t
    ELSE LET i == CHOOSE i \in DOMAIN t : t[i].path = p
         IN  SubSeq(t, 1, i - 1) \o SubSeq(t, i + 2, Len(t))

(* do_remove_base *)
RemoveBase(t, p) ==
    IF ~Has(t, p) THEN t
    ELSE LET i == CHOOSE i \in DOMAIN t : t[i].path = p
         IN  SubSeq(t, 1, i - 1) \o SubSeq(t, i + 1, Len(t))

(* do_add_extra_dir *)
AddExtraDir(t, p, d) ==
    IF Covering(t, p) = {} THEN t
    ELSE [t EXCEPT ![First(t, p)].dirs = @ \cup {d}]

(* do_remove_extra_dir *)
RemoveExtraDir(t, p, d) ==
    IF Covering(t, p) = {} THEN t
    ELSE [t EXCEPT ![First(t, p)].dirs = @ \ {d}]

(* What a command makes of the table; the same table when it has nothing to *)
(* do, and then the code writes nothing.                                    *)
Result(t, c) ==
    CASE c.kind = "setBase"        -> AddBase(t, c.path, c.run)
      [] c.kind = "removeBase"     -> RemoveBase(t, c.path)
      [] c.kind = "addExtraDir"    -> AddExtraDir(t, c.path, c.dir)
      [] c.kind = "removeExtraDir" -> RemoveExtraDir(t, c.path, c.dir)

=============================================================================
