SPECIFICATION Spec
CONSTANTS
  Conn = {c1, c2}
  Jobs <- ActionJobs
  Chunks = 2
  Gone = Gone
  MaxFailures = 1
  MaxRefusals = 1
INVARIANT TypeOK AckedMeansDone StoredWhole KeptUntilStored
PROPERTY SenderReturns Delivered
CHECK_DEADLOCK FALSE
