----------------------------- MODULE MCRecordSet -----------------------------
(* The heap files in a database file of a few pages.                          *)
EXTENDS RecordSet, TLC

Symmetry == Permutations(Names) \cup Permutations(Values)

\* Where a second set makes the state space large, states in which a page has
\* been unlinked through a stale pointer are reached but not left.
Undamaged == ~damaged
=============================================================================
