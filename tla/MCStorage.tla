------------------------------ MODULE MCStorage ------------------------------
(* Storage for TLC: applications only differ by name.                      *)
EXTENDS Storage, TLC

AppSymmetry == Permutations(Apps)

=============================================================================
