SPECIFICATION Spec
CONSTANTS
  Name = {"a"}
  Dir = {"d"}
  NBlocks = 8
  NSeg = 4
  SegCap = 2
  LongOps = {"unlink"}
  PerBlock = 4
  Lens = {1, 4}
  MaxRuns = 2
  Ops = {"write", "unlink", "rename", "sync", "mkdir", "truncate", "snapshot", "ioerror"}
  MaxCalls = 3
  Setup <- Holes
  MaxCrash = 1
INVARIANTS BlocksOwnedOnce ReadsBack 
 
CHECK_DEADLOCK FALSE
