SPECIFICATION FairSpec
CONSTANTS
  Pid <- Pids2
  Core = {c0, c1}
  BSP = c0
  NoCore = none
  MsiCore = {c0}
  MaxUser = 2
  Calls = {"spawn", "exit", "wait", "trywait", "detach", "reparent"}
  Signal = {"SIGTERM"}
PROPERTIES
  WaitEnds
