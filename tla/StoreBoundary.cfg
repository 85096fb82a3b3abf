SPECIFICATION Spec
CONSTANTS
  None = None
  Created = Created
  Path <- MCPath
  Time <- MCTime
  Below <- MCBelow
  Moves <- MCMoves
  Rebase <- MCRebase
PROPERTY DeletedWriteArchived
CHECK_DEADLOCK FALSE
