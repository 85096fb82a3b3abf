SPECIFICATION Spec
CONSTANTS
  Name = {a, b, d}
  Dir = {d}
  Star = Star
  None = None
  Worker = {w1, w2}
  MaxTime = 2
  MaxFailures = 1
PROPERTY EverythingSent ApplyFollows
CHECK_DEADLOCK FALSE
