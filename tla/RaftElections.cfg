SPECIFICATION Spec
CONSTANTS
  a = a
  b = b
  c = c
  h1 = h1
  c1 = c1
  c2 = c2
  Server <- Servers
  Cmd = {c1}
  Host = {h1}
  HostOf <- OneHost
  Failing = {h1}
  kMaxInFlightPerFollower = 1
  MaxTerm = 3
  Timeouts <- Returns
  MaxLog = 1
  MaxSends = 1
INVARIANTS
  TypeOK
  OneWinnerPerTerm
CHECK_DEADLOCK FALSE
