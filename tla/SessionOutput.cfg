CONSTANTS
  WINDOW_SIZE = 2
  MaxIn = 2
  MaxOut = 2
  MaxReadErrors = 0
  MaxWriteErrors = 0
SPECIFICATION Spec
PROPERTY
  OutputWritten
CHECK_DEADLOCK FALSE
