------------------------ MODULE MCGenericDataWriter -------------------------
(* Small instances of GenericDataWriter for TLC.                           *)
EXTENDS GenericDataWriter, TLC

Symmetry ==
  Permutations(Writers) \cup Permutations(Supports)
    \cup Permutations(DataWriters) \cup Permutations(TopicNames)

NoFaults == {}
AllFaults == FaultKinds
=============================================================================
