SPECIFICATION Spec
CONSTANTS
  None = None
  p1 = p1
  p2 = p2
  p3 = p3
  Proc <- Two
  MaxCores = 1
  Pipe <- OnePipe
  Fd = {0, 1}
  SIZE = 4
  Byte = {0}
  MaxLen = 1
  MaxCalls = 6
INVARIANTS ExitGoesOn
CHECK_DEADLOCK FALSE
