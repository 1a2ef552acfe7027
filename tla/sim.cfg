SPECIFICATION Spec
CONSTANTS
  NUM_EVENT = 5
  TICK = 300
  LONG_TIME = 2
  TASK_TIME = 50
  NandTimes = {98, 127}
INVARIANTS
  OneCpuEvent
  QueueSound
  NobodyOversleeps
PROPERTIES
  NoTurnBeforePowerOff
  HostGoesOn
  LoopGoesOn
  ImplementsSched
