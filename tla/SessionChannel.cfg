CONSTANTS
  WINDOW_SIZE = 2
  MaxIn = 1
  MaxOut = 1
  MaxReadErrors = 1
  MaxWriteErrors = 1
SPECIFICATION LiveSpec
INVARIANTS
  NoProtocolError
  EofFindsProcess
PROPERTIES
  ServerClosesWithoutErrors
  StatusReceived
  SessionEnds
CHECK_DEADLOCK FALSE
