SPECIFICATION MCSpec
CONSTANTS
  Libraries <- MCLibraries
  FixedCapacity = 2
  Normalize <- MCNormalize
  NameOrder <- MCNameOrder
  HookTexts <- MCHookTexts
  NonAscii <- MCNonAscii
  PidTexts <- MCPidTexts
  MaxPid = 15
  Paths = {"", "out"}
  Program <- MCProgram
  Arguments <- MCArguments
  MaxOptions = 4
  MaxArguments = 3
  MaxWords = 6
  OwnPid = 7
INVARIANTS StartupTypeOK AcceptedAsGiven ArgumentsArriveIntact AcceptedOutputOpens OnlyLostRemain CompleteMeansClean
