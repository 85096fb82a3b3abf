SPECIFICATION Spec
CONSTANTS
  None = None
  Created = Created
  Path <- MCPath
  Time <- MCTime
  Below <- MCBelow
  Moves <- MCMoves
  Rebase <- MCRebase
INVARIANT TypeOK
PROPERTY ImplementsArchive AppliedChangesHold
CHECK_DEADLOCK FALSE
