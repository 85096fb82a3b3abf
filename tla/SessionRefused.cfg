SPECIFICATION Spec
CONSTANTS
  Conn = {c1}
  Jobs <- ActionJobs
  Chunks = 1
  Gone = Gone
  MaxFailures = 0
  MaxRefusals = 1
PROPERTY WholeTransactionFails
CHECK_DEADLOCK FALSE
