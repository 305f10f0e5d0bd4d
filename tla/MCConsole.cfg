SPECIFICATION Spec
CONSTANTS
  Keys = {"RCTL", "LALT", "DEL", "A"}
  SerialChars = {"BS", "LF"}
  Outputs <- Printed
  CONSBUFSIZE = 3
  BUFLEN = 3
  CRT_ROWS = 3
  CRT_COLS = 3
  KbdBuffer = 2
  NUser = 2
  MaxInput = 4
  MaxOutput = 1
INVARIANTS ModifiersFollowKeys ScreenIsWindow EchoMatchesLine
PROPERTY ReadersSeeQueue
CHECK_DEADLOCK FALSE
