SPECIFICATION Spec
CONSTANTS
  NProc = 2
  NFrames = 9
  NExec = 1
  NAddr = 3
  Val = {0, 1}
VIEW View
CHECK_DEADLOCK FALSE
INVARIANTS TypeOK  WritableIsPrivate
PROPERTY ImplementsPrivateMemory
