SPECIFICATION FairSpec
CONSTANTS
  NR_TASKS = 4
  MaxPid = 5
  InitMayDie = FALSE
INVARIANTS TypeOK PidsUnique FatherAlive NoLostChild
PROPERTY InitReaps
