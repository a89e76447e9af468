----------------------------- MODULE MCRegistry -----------------------------
(* Instances of Registry for TLC. *)
EXTENDS Registry, TLC

\* Requests of one run, and the VM ids, are interchangeable.
RegistrySymmetry == Permutations(Reqs) \cup Permutations(Vms)

=============================================================================
