CONSTANTS
  Weeks = 2
  Executions = {"PARTIAL_EXECUTION", "NO_REBALANCE_REQUIRED"}
  Verdicts = {"RECONCILIATION_FAILURE"}
SPECIFICATION Spec
INVARIANT ExecutedAtMostOnce
INVARIANT WindowsAgreeWithRuns
INVARIANT BaselineGoverned
PROPERTY KillSwitchHolds
PROPERTY EvidenceBeforeNextTrade
PROPERTY ImplementsSchedule
