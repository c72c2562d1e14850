SPECIFICATION Spec
CONSTANTS
  MAX_ORDER = 2
  Regions <- MCRegions
  Low = 1
  Windows <- MCWindows
  Holes <- MCHoles
  DmaLimit = 14
  Proc = {1, 2}
  MAX_VMAS = 3
  VPages = 4
  Sizes = {1, 3}
  HeapPages = 1
  MaxCalls = 4
INVARIANTS   AreasMatchTable
PROPERTIES BuddiesMerge
CHECK_DEADLOCK FALSE
