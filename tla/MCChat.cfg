SPECIFICATION FairSpec
CONSTANTS
  alice = alice bob = bob carol = carol None = None
  Users <- MCUsers
  Creator = alice
  Settings <- MCSettings
INVARIANT NothingSkipped
INVARIANT PositionsSound
 
CHECK_DEADLOCK FALSE
