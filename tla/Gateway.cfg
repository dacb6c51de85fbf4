SPECIFICATION Spec
CONSTANTS
  Gateways = {1, 2}
  Ports = {1, 2}
  WINDOW = 1
  NumChannels = 2
  STOP = 3
  START = 1
  Scenarios <- MCScenarios
INVARIANTS
  NoProtocolError
  ChannelsMatch
  PortsAgree
PROPERTIES
  EofAfterAllData
CHECK_DEADLOCK FALSE
