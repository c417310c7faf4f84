--------------------------- MODULE MCPathService ---------------------------
(***************************************************************************)
(* PathService for TLC: users, names and request slots are model values,   *)
(* alike among themselves.                                                 *)
(***************************************************************************)
EXTENDS PathService, TLC

Symmetry == Permutations(Users) \cup Permutations(PathNames)
            \cup Permutations(StatNames) \cup Permutations(Requests)

\* Bounds: two stats, of which the second only among paths of one name; one answer
\* that has not left yet.
Small ==
    /\ Cardinality(stats) <= 2
    /\ Cardinality(stats) + Cardinality({x.name : x \in paths}) <= 3
    /\ Cardinality({r \in Requests : req[r].pc = "answered"}) <= 1
=============================================================================
