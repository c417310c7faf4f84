----------------------------- MODULE MCCountSync ------------------------------
(***************************************************************************)
(* CountSync for TLC.  No symmetry: the run has a liveness property.       *)
(***************************************************************************)
EXTENDS CountSync

\* Bound: of a browser that is not calm, about which the other properties say nothing,
\* the run follows FieldKeepsItsMeaning on one stat only.
Explored == calm \/ edits <= 1
===============================================================================
