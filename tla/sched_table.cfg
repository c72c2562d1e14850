SPECIFICATION Spec
CONSTANTS
  Pid <- Pids2
  Core = {c0, c1}
  BSP = c0
  NoCore = none
  MsiCore = {c0}
  MaxUser = 2
  Calls = {"spawn", "thread", "exit", "wait"}
  Signal = {"SIGKILL", "SIGSTOP", "SIGCONT"}
INVARIANTS
  OnOneCore
  FreedOffCore
  WaitTargetLive
  AnyWaitCovered
