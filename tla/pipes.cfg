SPECIFICATION Spec
CONSTANTS
  None = None
  p1 = p1
  p2 = p2
  p3 = p3
  Proc <- MCProc
  MaxCores = 2
  Pipe <- OnePipe
  Fd = {0, 1}
  SIZE = 4
  Byte = {0, 1}
  MaxLen = 2
  MaxCalls = 6
SYMMETRY Symmetry
INVARIANTS EndsCounted EofIsFinal  LevelKept
PROPERTIES PipeIsQueue
CHECK_DEADLOCK FALSE
