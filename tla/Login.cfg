SPECIFICATION Spec
CONSTANTS
  MaxAttempts = 3
  MaxPrompts = 1
  MaxExchanges = 1
  MaxOther = 4
  Accounts <- MCAccounts
  Scenarios <- MCScenarios
  OtherRequests <- MCOtherRequests
  OtherReplies <- MCOtherReplies
INVARIANTS
  LoginPermitted
  HostKeyFirst
PROPERTIES
  LoginEnds
CHECK_DEADLOCK FALSE
