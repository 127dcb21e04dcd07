SPECIFICATION Spec
CONSTANTS
  r1 = r1
  r2 = r2
  r3 = r3
  k1 = k1
  k2 = k2
  w1 = w1
  w2 = w2
  w3 = w3
  x = x
  NoCmd = NoCmd
  Replica <- MCReplica
  Leader = r1
  Home = r2
  Coord <- MCCoord
  CoordOf <- MCCoordOf
  Attempts <- MCAttempts
  Cmd <- MCCmd
  Key <- MCKey
  KeyOf <- MCKeyOf
  Writes <- MCCmd
CHECK_DEADLOCK FALSE
INVARIANTS
  CommitAnswered
