SPECIFICATION FairSpec
CONSTANTS
  N = 3
  Core = {c0, c1}
  BSP = c0
  NoCore = none
  ForceTicks = 3
  MaxSkip = 1
  MaxWait = 7
  Weight <- MCWeight
  Merit <- MCMerit
  Performance = {2}
INVARIANTS
  UserWaitBounded
PROPERTIES
  ReadyRuns
  
