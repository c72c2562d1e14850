SPECIFICATION FairSpec
CONSTANTS
  p1 = p1  p2 = p2  a1 = a1  s1 = s1
  Pid = {p1, p2}
  Core = {c1}
  NoTask = NoTask
  Space = {s1}
  space <- OneSpace
  Addr = {a1}
  NoAddr = NoAddr
  Val = {0}
  Zero = 0
  Bucket = {0}
  futex_bucket <- OneBucket
  ctid_ptr <- ClearTid
  Token = {}
  NoToken = NoToken
  Backend = {}
  SleepFor = {2}
  Timeout = {1}
  Signal = {"SIGKILL", "SIGCONT"}
  MsiCore = {}
  TSC_MAX = 3
  MaxCount = 2
INVARIANTS CountCovers DeadlineCovered
PROPERTY TimedWaitEnds
CHECK_DEADLOCK FALSE
