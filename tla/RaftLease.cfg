SPECIFICATION LeaseSpec
CONSTANTS
  a = a
  b = b
  c = c
  Server <- Servers
  Cmd = {}
  Host <- Servers
  HostOf <- OwnHost
  Failing = {}
  kMaxInFlightPerFollower = 2
  MaxTerm = 2
  Timeouts <- Rivals
  MaxLog = 0
  MaxSends = 3
  kReadLeaseDurationUs = 2
  MaxNow = 3
CHECK_DEADLOCK FALSE
INVARIANT
  AtMostOneLease
