-------------------------- MODULE MCWeeklyLauncher --------------------------
(***************************************************************************)
(* Two launchers, one of them started by an operator, in a coarse unit of  *)
(* time: the window is three units long for the children and four for the   *)
(* launchers, a child may take two and a retry waits for one, so that a    *)
(* third attempt falls out of the window or into its last instant.          *)
(***************************************************************************)
EXTENDS WeeklyLauncher
=============================================================================
