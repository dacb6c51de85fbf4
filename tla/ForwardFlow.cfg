CONSTANTS
  Peers = {c, s}
  MaxChannels = 1
  TCPIP_WINDOW_SIZE = 2
  NAddresses = 3
  MaxPacket = 2
  MaxOpens = 1
  MaxBytes = 3
  MaxErrors = 1
SPECIFICATION LiveSpec
INVARIANTS
  WindowsAgree
  EofAfterData
PROPERTIES
  ReadingResumes
  ClosesInTheEnd
CHECK_DEADLOCK FALSE
