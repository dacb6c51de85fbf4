CONSTANTS
  Peers = {c, s}
  MaxChannels = 2
  TCPIP_WINDOW_SIZE = 1
  NAddresses = 1
  MaxPacket = 1
  MaxOpens = 2
  MaxBytes = 1
  MaxErrors = 1
SPECIFICATION Spec
SYMMETRY PeerSymmetry
INVARIANTS
  NoProtocolError
  PacketsStayInChannel
CHECK_DEADLOCK FALSE
