CONSTANTS
  Launchers = {l1, l2}
  GateStart = 1
  GateEnd = 4
  Close = 3
  Timeout = 2
  RetryDelay = 1
  MaxAttempts = 3
  Horizon = 6
  None = None
  Other = Other
SPECIFICATION Spec
INVARIANT TradedOnce
INVARIANT SuccessIsDecided
PROPERTY DeferralEndsAttempts
PROPERTY LauncherEnds
CHECK_DEADLOCK FALSE
