SPECIFICATION Spec
CONSTANTS
  Name = {a, b}
  Order <- Bits
  Worker = {w1, w2}
  NoFile = NoFile
  Nobody = Nobody
  MaxTime = 3
  MaxCrashes = 2
INVARIANT TypeOK Remembered InHand
PROPERTY RefilledIfSound
CONSTRAINT Sound
SYMMETRY NameSymmetry
CHECK_DEADLOCK FALSE
