---------------------------- MODULE MCPackageGate ----------------------------
(* Instances of PackageGate for TLC. *)
EXTENDS PackageGate, TLC
=============================================================================
