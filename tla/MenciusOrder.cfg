SPECIFICATION Spec
CONSTANTS
  c1 = c1
  c2 = c2
  c3 = c3
  x = x
  y = y
  N = 3
  Cmd <- Cmds
  Key <- Keys
  KeyOf <- OnKey
  MaxSlot = 4
  Proposer <- Proposes
CHECK_DEADLOCK FALSE
INVARIANT
  ConflictsInOneOrder
