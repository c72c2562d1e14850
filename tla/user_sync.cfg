SPECIFICATION FairSpec
CONSTANTS
  r = r
  s1 = s1
  s2 = s2
  Thread = {r, s1, s2}
  Receiver = r
  Scenes = {"mutex", "channel", "once", "rw"}
  MaxQueue = 2
  MaxHandles = 2
INVARIANTS
  MutexWaiterSeen
  MessageSeen
  NoneMeansDrained
  OnceInitialised
  RwSound
PROPERTIES
  MutexIsLock
  OnceReturns
CHECK_DEADLOCK FALSE
