CONSTANTS
  Weeks = 1
  Executions = {"PARTIAL_EXECUTION"}
  Verdicts = {"RECONCILIATION_FAILURE"}
SPECIFICATION FairSpec
PROPERTY ClosedWindowsAreRecorded
PROPERTY ExecutionsAreFinalized
