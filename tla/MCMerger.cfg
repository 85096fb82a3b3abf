SPECIFICATION Spec
CONSTANTS
  Name = {a, b, d}
  Dir = {d}
  Star = Star
  None = None
  Worker = {w1, w2}
  MaxTime = 3
  MaxFailures = 1
INVARIANT TypeOK NothingLost ApplyAfterAll
SYMMETRY WorkerSymmetry
CHECK_DEADLOCK FALSE
