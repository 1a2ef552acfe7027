SPECIFICATION Spec
CONSTANTS
  NUM_USER_BLK = 5
  NUM_META_BLK = 2
  NUM_WL = 5
  NUM_LPN = 9
  NUM_NAND_CMD = 6
  MAX_JNL_ENTRY = 4
  NUM_MAP_SLICE = 1
  SIZE_FREE_POOL = 2
  GC_TRIG_BLK_CNT = 1
  MAX_GC_READ = 2
  MaxWrites = 17
  ShutdownFrom = 0
  MaxCycle = 0
  Shutdowns = {}
  ReadLPNs = {}
  ReadFrom = 0
  RewriteLPNs = {2}
  TimeoutTasks = {2}
INVARIANTS
  IoPoolSuffices
  VictimGains
  MoveAccounts
  ErasePopsErase
CHECK_DEADLOCK FALSE
