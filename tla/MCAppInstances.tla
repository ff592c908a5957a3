---------------------------- MODULE MCAppInstances ----------------------------
(* Constants of AppInstances for TLC.  Every unit belongs to the same      *)
(* application, as dde-file-manager has both a service and launched        *)
(* instances.                                                              *)
EXTENDS AppInstances, TLC

CONSTANTS a1

OneAppUnits == [u \in Units |-> a1]

(* Launches of one application, random ids and file contents only differ   *)
(* by name.                                                                *)
LaunchSymmetry  == Permutations(Launches) \cup Permutations(Versions)
ServiceSymmetry == Permutations(Uuids) \cup Permutations(Versions)

=============================================================================
