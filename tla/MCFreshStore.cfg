SPECIFICATION FreshSpec
CONSTANTS
  None = None
  Created = Created
  Path <- MCPath
  Time <- MCTime
  Below <- MCBelow
  Moves <- MCMoves
  Rebase <- MCRebase
INVARIANT OneCopyPerVersion ContentFollowsRenames
PROPERTY ContentsKept
CHECK_DEADLOCK FALSE
