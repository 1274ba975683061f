------------------------------- MODULE MCDRR -------------------------------
(***************************************************************************)
(* Small instances of DRR for TLC.                                          *)
(***************************************************************************)
EXTENDS DRR, TLC

\* The flows are interchangeable: only the order of creation tells them apart.
FlowSymmetry == Permutations(Flows)
=============================================================================
