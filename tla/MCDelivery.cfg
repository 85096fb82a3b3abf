SPECIFICATION DeliverySpec
CONSTANTS
  None = None
  Created = Created
  Path <- DirPath
  Time <- DirTime
  Below <- DirBelow
  Moves <- DirMoves
  Rebase <- DirRebase
INVARIANTS Converged PastRestorable
PROPERTY EverythingDelivered
CHECK_DEADLOCK FALSE
