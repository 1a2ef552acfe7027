SPECIFICATION Spec
CONSTANTS
  NUM_USER_BLK = 5
  NUM_META_BLK = 3
  NUM_WL = 2
  NUM_LPN = 4
  NUM_NAND_CMD = 4
  MAX_JNL_ENTRY = 3
  NUM_MAP_SLICE = 1
  SIZE_FREE_POOL = 2
  GC_TRIG_BLK_CNT = 1
  MAX_GC_READ = 2
  MaxWrites = 10
  ShutdownFrom = 0
  MaxCycle = 0
  Shutdowns = {}
  ReadLPNs = {}
  ReadFrom = 0
  RewriteLPNs = {0, 2}
  TimeoutTasks = {}
INVARIANTS
  TypeOK
  MapIntegrity
  LatestIsMapped
  NoEraseOfValid
  ProgramsInOrder
  PoolBlocks
  TaskArmed
  BusyIsRequested
  SavedIsJournal
PROPERTIES
  EraseSavedBeforeUse
CHECK_DEADLOCK FALSE
