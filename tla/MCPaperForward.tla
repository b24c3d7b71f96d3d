--------------------------- MODULE MCPaperForward ---------------------------
(***************************************************************************)
(* PaperForward on small instances.  The cfgs give Weeks, Executions and   *)
(* Verdicts their values:                                                   *)
(*   safety    two weeks, so that one week's recovery, audit and evidence  *)
(*             meet the next week's admission; one execution with fills    *)
(*             and one without, which record_missed_windows tells apart;   *)
(*   liveness  one week, one execution and one verdict: each strong        *)
(*             fairness condition multiplies the cost of the check;        *)
(*   findings  two weeks, one property each that the code violates.        *)
(***************************************************************************)
EXTENDS PaperForward
=============================================================================
