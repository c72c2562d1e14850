SPECIFICATION Spec
CONSTANTS
  Name = {"a"}
  Dir = {"d", "e"}
  NBlocks = 4
  NSeg = 2
  SegCap = 2
  LongOps = {}
  PerBlock = 2
  Lens = {0}
  MaxRuns = 2
  Ops = {"write", "unlink", "rename", "sync", "mkdir", "renamedir"}
  MaxCalls = 4
  Setup <- NoSetup
  MaxCrash = 1
INVARIANTS CheckpointMakesRoom
 
CHECK_DEADLOCK FALSE
