SPECIFICATION Spec
CONSTANTS
  NR_TASKS = 3
  InitPriority = 1
  MaxPriority = 2
  MaxForks = 2
  Signals <- OneSignal
  Sent <- OneSignal
  AlarmTicks = {}
  Increments <- NiceArgs
  Masks <- MaskArgs
INVARIANTS CounterBounded CurrentRuns IdleOnlyWhenNothingRuns
 
