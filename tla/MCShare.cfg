SPECIFICATION Spec
CONSTANTS
  NProc = 2
  NFrames = 9
  NExec = 1
  NAddr = 2
  Val = {0, 1}
VIEW View
CHECK_DEADLOCK FALSE
INVARIANT CleanIsUnmodified
