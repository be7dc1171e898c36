--------------------------- MODULE MCInstallQueue ---------------------------
(* Instances of InstallQueue for TLC. *)
EXTENDS InstallQueue, TLC

\* Softwares, formulae and handlers are interchangeable.
Symmetry ==
  Permutations(Softwares) \cup Permutations(Formulae) \cup Permutations(Clients)
=============================================================================
