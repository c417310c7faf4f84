--------------------------- MODULE MCQuotaStreak ---------------------------
(***************************************************************************)
(* QuotaStreak for TLC.  Periods of 1 and 2 hours are short enough for two *)
(* to pass in a run; half hours are rounded down to hours.                 *)
(***************************************************************************)
EXTENDS QuotaStreak, TLC

\* No property but TypeOK, which is proved for all, speaks of what follows.
Explored == steady

Symmetry == Permutations(Names) \cup Permutations(Readers)
=============================================================================
