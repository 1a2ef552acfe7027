SPECIFICATION Spec
CONSTANTS
  NUM_USER_BLK = 1
  NUM_META_BLK = 1
  NUM_WL = 1
  NUM_LPN = 1
  NUM_NAND_CMD = 3
  CHUNK_PER_BPG = 2
  Masks <- AnyMask
  Buf = {b1, b2, b3}
  Issuers = {"Mig"}
  MaxIssue = 3
INVARIANTS
  OneEvent
  DataWait
  BuffersOwned
PROPERTIES
  CommandsEnd
  ImplementsIo
