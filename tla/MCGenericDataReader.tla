------------------------- MODULE MCGenericDataReader -------------------------
(* Small instances of GenericDataReader for TLC.                           *)
EXTENDS GenericDataReader, TLC

Symmetry == Permutations(Handles)

NoSamples == {}
NoFaults == {}
AllFaults == FaultKinds
CtorFaults == FaultKinds \ {"narrow", "return_loan"}
=============================================================================
