SPECIFICATION Spec
CONSTANTS
  HexWords <- MCHexWords
  SocketWords <- MCSocketWords
  GoodKeys <- MCGoodKeys
  Unwritable <- MCUnwritable
  LoginName <- MCLoginName
  Numbers <- MCNumbers
  ConfigFiles <- MCConfigFiles
  Scenes <- MCScenes
  Resolve <- MCResolve
  SessionId <- MCSessionId
  HelperFd <- MCHelperFd
  MaxPid = 9
CHECK_DEADLOCK FALSE
INVARIANTS
  EffectiveOptions
  TransportGetsOptions
  PidFileOwned
