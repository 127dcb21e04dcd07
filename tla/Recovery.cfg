SPECIFICATION Spec
CONSTANTS
  w1 = w1
  k1 = k1
  s1 = s1
  s2 = s2
  s3 = s3
  NoCmd = NoCmd
  NoSid = NoSid
  Cmd <- OneCmd
  Key <- MCKey
  KeyOf <- OneKeyOf
  Writes <- OneCmd
  Replica <- Servers
  Dispatched <- OneCmd
  Home = s1
  FirstLeader = s2
  Electable = {s1}
  InitEpochs <- ZeroEpochs
  MaxEpoch = 3
  MaxElections = 1
  MaxCrashes = 1
CHECK_DEADLOCK FALSE
INVARIANTS
  TypeOK
  FastCommitRecoverable
  FinishKeepsPromises
