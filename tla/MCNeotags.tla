----------------------------- MODULE MCNeotags -----------------------------
(***************************************************************************)
(* Small instances of Neotags for TLC.  Filetype "c" has two keys, "py"    *)
(* one, "txt" is supported by no ftplugin file and "help" is ignored.      *)
(***************************************************************************)
EXTENDS Neotags, TLC

MCFiletypesC == {"c", "py"}
MCFiletypesHelp == {"c", "help"}
MCFiletypesThree == {"c", "py", "txt"}

OrderOf(f) == CASE f = "c" -> <<"c#f", "c#v">>
                [] f = "py" -> <<"python#c">>
                [] OTHER -> <<>>

MCOrderC == [f \in MCFiletypesC |-> OrderOf(f)]
MCOrderThree == [f \in MCFiletypesThree |-> OrderOf(f)]
MCOrderHelp == [f \in MCFiletypesHelp |-> OrderOf(f)]

MCKeys == {"c#f", "c#v", "python#c"}

Symmetry == Permutations(Handlers)
=============================================================================
