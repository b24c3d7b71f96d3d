--------------------------- MODULE MCMonthlyReport ---------------------------
(***************************************************************************)
(* Safety: two wrappers, so that one looks at the marker while the other   *)
(* writes it; two versions, so that an interrupted publication meets       *)
(* changed data; three edits, as many as remove a whole publication.            *)
(* Liveness: one wrapper, one version, no edits.                           *)
(***************************************************************************)
EXTENDS MonthlyReport, TLC

Symmetry == Permutations(Wrapper) \cup Permutations(Versions)
=============================================================================
