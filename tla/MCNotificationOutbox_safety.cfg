CONSTANTS
  Paper = {"weekly"}
  Monthly = {"monthly"}
  NoMessage = NoMessage
  MaxAttempts = 3
  MaxAudits = 2
  Decodable = TRUE
SPECIFICATION Spec
INVARIANT NoUnattendedDuplicate
INVARIANT RetryableMeansUndelivered
INVARIANT OutboxAgreesWithAttempts
PROPERTY DoubtNeedsOperator
