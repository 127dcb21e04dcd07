SPECIFICATION Spec
CONSTANTS
  a = a
  b = b
  c = c
  h1 = h1
  c1 = c1
  c2 = c2
  Server <- Servers
  Cmd = {c1, c2}
  Host <- Servers
  HostOf <- OwnHost
  Failing = {}
  kMaxInFlightPerFollower = 2
  MaxTerm = 2
  Timeouts <- Rivals
  MaxLog = 2
  MaxSends = 3
SYMMETRY Symmetric
INVARIANTS
  StateMachineSafety
  MatchIsReplicated
CHECK_DEADLOCK FALSE
PROPERTY
  ImplementsReplicatedLog
