SPECIFICATION Spec
CONSTANTS
  NUM_NAND_CMD = 3
  CbKeys = {"User", "Meta"}
  NUM_IOCB = "none"
  NIL = NIL
  NUM_QUE = 3
  NUM_BUF = 1
  MaxBoot = 1
INVARIANTS
  QueuesHold
  OnePlace
