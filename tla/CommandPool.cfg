SPECIFICATION Spec
CONSTANTS
  w1 = w1
  w2 = w2
  r1 = r1
  o1 = o1
  x1 = x1
  k1 = k1
  k2 = k2
  NoCmd = NoCmd
  Cmd <- MCCmd
  Key <- MCKey
  KeyOf <- MCKeyOf
  Writes <- MCWrites
  OrigOnly <- MCOrigOnly
INVARIANTS
  TypeOK
  RecoverIdTracksWrites
  AcceptedWriteRecoverable
  CountersExact
PROPERTIES
  RecoveryFreezesPool
  PromiseKeptUntilApplied
  LeaderChecksInFlight
