SPECIFICATION Spec
CONSTANTS
  w1 = w1
  k1 = k1
  s1 = s1
  s2 = s2
  s3 = s3
  NoCmd = NoCmd
  NoSid = NoSid
  Cmd <- OneCmd
  Key <- MCKey
  KeyOf <- OneKeyOf
  Writes <- OneCmd
  Replica <- Pair
  Dispatched <- NoCmds
  Home = s1
  FirstLeader = s2
  Electable = {s1, s2}
  InitEpochs <- PairEpochs
  MaxEpoch = 3
  MaxElections = 2
  MaxCrashes = 0
CHECK_DEADLOCK FALSE
INVARIANT
  RecSetAgreement
