----------------------------- MODULE MCProjects -----------------------------
(***************************************************************************)
(* Small instances of Projects: a directory "a" with "a/b" below it, and   *)
(* "c" beside it; "gone" does not exist.                                   *)
(***************************************************************************)
EXTENDS Projects, TLC

MCPaths == {"a", "a/b", "c", "gone"}
MCAbove == [p \in MCPaths |-> IF p = "a/b" THEN {"a", "a/b"} ELSE {p}]
MCExisting == {"a", "a/b", "c"}

SetBase(p) == [kind |-> "setBase", path |-> p, run |-> 1]
Remove(p) == [kind |-> "removeBase", path |-> p]

MCAll == {SetBase(p) : p \in MCPaths} \cup {Remove(p) : p \in {"a", "a/b"}}
         \cup [kind : {"addExtraDir", "removeExtraDir"}, path : {"a/b"}, dir : Dirs]

Symmetry == Permutations(Instances)
=============================================================================
