CONSTANTS
  Paper = {"weekly"}
  Monthly = {"monthly"}
  NoMessage = NoMessage
  MaxAttempts = 3
  MaxAudits = 2
  Decodable = FALSE
SPECIFICATION Spec
INVARIANT RetryableMeansUndelivered
