SPECIFICATION FairSpec
CONSTANTS
  NR_TASKS = 3
  InitPriority = 2
  MaxPriority = 2
  MaxForks = 2
  Signals <- OneSignal
  Sent = {}
  AlarmTicks = {1}
  Increments = {}
  Masks = {}
PROPERTIES NoStarvation AlarmEndsPause
