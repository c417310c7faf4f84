------------------------------ MODULE MCSession -------------------------------
(***************************************************************************)
(* Session for TLC: the tabs of a browser are alike.                       *)
(***************************************************************************)
EXTENDS Session, TLC

Symmetry == Permutations(Tabs)
===============================================================================
