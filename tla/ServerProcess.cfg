SPECIFICATION Spec
CONSTANTS
  Scenes <- MCScenes
  ObjectStep = 1
  MinDisplay = 10
  MaxDisplay = 11
  MaxFaults = 1
INVARIANTS
  AnswersMatch
  LoginsRecorded
  ExitsReported
  DescriptorsPrivate
  DisplayKept
PROPERTIES
  Responsive
CHECK_DEADLOCK FALSE
