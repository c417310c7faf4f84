------------------------------- MODULE MCPages --------------------------------
(***************************************************************************)
(* Pages for TLC.  No symmetry: one of the properties is a liveness        *)
(* property.                                                               *)
(***************************************************************************)
EXTENDS Pages

\* Bound: when the last token has been made, the run follows the requests that may still
\* change cookies or keys without another one.
Explored ==
    \/ nextNr \in Numbers
    \/ \E t \in Tabs : tab[t].pc \in {"setCookies", "removeCookies", "Logout"}
===============================================================================
