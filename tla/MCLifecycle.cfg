SPECIFICATION Spec
CONSTANTS
  MaxEvents = 1
  MaxBacks = 1
INVARIANT TypeOK NoneLeftBehind Quiet
PROPERTY UnlocksWhatIsHeld StopReturns
CHECK_DEADLOCK FALSE
