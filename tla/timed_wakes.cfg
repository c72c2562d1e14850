SPECIFICATION Spec
CONSTANTS
  p1 = p1  p2 = p2  a1 = a1  s1 = s1
  Pid = {p1, p2}
  Core = {c1, c2}
  NoTask = NoTask
  Space = {s1}
  space <- OneSpace
  Addr = {a1}
  NoAddr = NoAddr
  Val = {0, 1}
  Zero = 0
  Bucket = {0}
  futex_bucket <- OneBucket
  ctid_ptr <- NoClearTid
  Token = {t1}
  NoToken = NoToken
  Backend = {b1}
  SleepFor = {}
  Timeout = {}
  Signal = {"SIGSTOP"}
  MsiCore = {c1, c2}
  TSC_MAX = 1
  MaxCount = 2
INVARIANTS WaiterFindable NoLostFutexWake NoLostReadiness
CHECK_DEADLOCK FALSE
SYMMETRY Symmetry
