--------------------------- MODULE MCProvisioning ---------------------------
(* Small instances of Provisioning for TLC. *)
EXTENDS Provisioning, TLC

ContainerSymmetry == Permutations(Containers)
=============================================================================
