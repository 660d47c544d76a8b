SPECIFICATION Spec
CONSTANTS
  ConCols = 8
  ConLines = 2
  ConMem = 27
  ConWord = 21
  ConNpar = 2
  ConDigits = {2}
  ConSeven = 5
  ConEight = 6
  TtySize = 3
  TtyLow = 1
  TtyRoom = 0
  TtyStartup = 1
  TtyVmin = 2
  TtyNr = 2
  TtyKeys = {"a", "nl", "cr", "eof", "erase", "kill", "intr"}
  TtyTexts <- MCTexts
  TtyInput = 3
INVARIANTS   TtyLinesExact
PROPERTIES TtyWriterWakes
CHECK_DEADLOCK FALSE
