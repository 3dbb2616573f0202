-------------------------- MODULE ProjectRegistry --------------------------
(***************************************************************************)
(* What the project commands promise: one table of projects, changed by    *)
(* each command in one step (README.md:100-103, 112).                      *)
(***************************************************************************)
EXTENDS ProjectTable

VARIABLE registry

RegistryInit == registry = <<>>

Execute(c) == registry' = Result(registry, c)

RegistryNext == \E c \in Command : Execute(c)

RegistrySpec == RegistryInit /\ [][RegistryNext]_registry

=============================================================================
