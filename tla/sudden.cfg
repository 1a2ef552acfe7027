SPECIFICATION Spec
CONSTANTS
  NUM_USER_BLK = 6
  NUM_META_BLK = 2
  NUM_WL = 2
  NUM_LPN = 3
  NUM_NAND_CMD = 8
  MAX_JNL_ENTRY = 3
  NUM_MAP_SLICE = 2
  SIZE_FREE_POOL = 3
  GC_TRIG_BLK_CNT = 2
  MAX_GC_READ = 2
  MaxWrites = 8
  ShutdownFrom = 5
  MaxCycle = 1
  Shutdowns = {"SD_Sudden"}
  ReadLPNs = {}
  ReadFrom = 0
  RewriteLPNs = {0, 2}
  TimeoutTasks = {3}
INVARIANTS
  LoadsLatest
  ResumeSound
  NoBlockLost
  ScanFitsJournal
CHECK_DEADLOCK FALSE
