-------------------------- MODULE MCAutoDynamicData --------------------------
(* Small instances of AutoDynamicData for TLC.                             *)
EXTENDS AutoDynamicData, TLC

Symmetry ==
  Permutations(Objects) \cup Permutations(Instances)
    \cup Permutations(TypeSupports) \cup Permutations(Contents)

AllFaults == FaultKinds
NoFaults == {}
=============================================================================
