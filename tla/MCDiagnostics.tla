--------------------------- MODULE MCDiagnostics ---------------------------
(* The model of Diagnostics for TLC: the handlers are interchangeable. *)
EXTENDS Diagnostics, TLC

Symmetry == Permutations(Handlers)

=============================================================================
