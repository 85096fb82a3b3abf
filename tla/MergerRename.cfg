SPECIFICATION Spec
CONSTANTS
  Name = {a, b}
  Dir = {}
  Star = Star
  None = None
  Worker = {w1, w2}
  MaxTime = 3
  MaxFailures = 1
INVARIANT RenameHasName
SYMMETRY WorkerSymmetry
CHECK_DEADLOCK FALSE
