CONSTANTS
  Process = {p1, p2, p3, p4}
  None = None
  Backups = {b1, b2}
  Names = {n1}
  Authorities = {x1, x2}
  MaxWrites = 2
  MaxReleases = 1
  Writer = Writer
  Junk = Junk
  Order <- Universe
  MaxRetries = 1
  MaxAge = 1
  MaxSkew = 1
  MaxCandleAge = 0
  Window = {1, 2}
  Midnight = 1
  MaxClock = 3
  Lags <- Exact
  Candidate = {c1, c2, c3, c4}
  ExpectedTrials = 3
  MaxRecords = 7
  Partial = Partial
  Plans <- Schedules
  Governed <- MondayNight
  Instants <- Edges
SYMMETRY Symmetry
SPECIFICATION MCSpec
CHECK_DEADLOCK FALSE
INVARIANT TypesOK
INVARIANT OneWriter
INVARIANT SidecarNamesOwnerOrLeaver
INVARIANT ArchiveIsACut
INVARIANT IdentityIsArchived
INVARIANT SilentAfterRateLimit
INVARIANT AdmittedIsCurrent
INVARIANT FinalTestIsEarned
INVARIANT SealAgrees
INVARIANT ChainNeverForks
INVARIANT OneSchedule
