------------------------------ MODULE TagQuery ------------------------------
(***************************************************************************)
(* What a search promises: its answer is what the filter makes of all the  *)
(* lines, no matter how the work is divided (neotags.c:427-432).           *)
(***************************************************************************)
EXTENDS TagFilter

CONSTANT NoAnswer

VARIABLES lines, known, answer

QueryInit == answer = NoAnswer

(* The buffer is cut into words. *)
Prepare == answer = NoAnswer /\ UNCHANGED <<lines, answer>>

Answer ==
    /\ answer = NoAnswer
    /\ answer' = Matching(lines, known)
    /\ UNCHANGED <<lines, known>>

QuerySpec == QueryInit /\ [][Prepare \/ Answer]_<<lines, known, answer>>

=============================================================================
