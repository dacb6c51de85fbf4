CONSTANTS
  Threshold = 3
  BufferSize = 11
  Margin = 8
  MaxUp = 0
  MaxDown = 2
  MaxRekeys = 1
  MaxErrors = 1
SPECIFICATION Spec
INVARIANTS
  KeysAgree
  NoProtocolError
  NothingLost
  NothingWaits
CHECK_DEADLOCK FALSE
