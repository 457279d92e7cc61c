----------------------------- MODULE MCDataPath -----------------------------
(* Small instances of DataPath for TLC.                                    *)
EXTENDS DataPath, TLC

KindsMain == <<"optional", "pointer">>
KindsTwo == <<"vector", "optional">>

Symmetry == Permutations(Writers) \cup Permutations(Values)

NoFaults == {}
AllFaults == FaultKinds
=============================================================================
