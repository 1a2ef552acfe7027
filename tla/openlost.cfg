SPECIFICATION Spec
CONSTANTS
  NUM_USER_BLK = 5
  NUM_META_BLK = 2
  NUM_WL = 2
  NUM_LPN = 4
  NUM_NAND_CMD = 8
  MAX_JNL_ENTRY = 3
  NUM_MAP_SLICE = 1
  SIZE_FREE_POOL = 2
  GC_TRIG_BLK_CNT = 1
  MAX_GC_READ = 2
  MaxWrites = 9
  ShutdownFrom = 9
  MaxCycle = 1
  Shutdowns = {"SD_Sudden"}
  ReadLPNs = {}
  ReadFrom = 0
  RewriteLPNs = {0, 2}
  TimeoutTasks = {}
INVARIANTS
  LatestIsMapped
CHECK_DEADLOCK FALSE
