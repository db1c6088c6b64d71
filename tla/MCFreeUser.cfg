SPECIFICATION Spec
CONSTANTS
  Text <- MCText
  TextData <- MCTextData
  CompUnits = {0}
  Lines = {1, 2}
  LineInfo <- StrayLineInfo
  ElfLoadAddress = 0
  LoadAddresses = {100}
  External = 50
  Entry = 10
  Signals = {"SIGTRAP", "SIGKILL"}
  PtyCapacity = 1
  MAX_OUTPUT_SIZE = 1
  PathParses = TRUE
  ExecMayFail = TRUE
  Keys = {"MSG_NONE", "MSG_CONFIRM", "MSG_QUIT", "MSG_RUN_DEBUGGEE", "MSG_TOGGLE_BREAKPOINT"}
  Disciplined = FALSE
INVARIANTS
  TypeOK
  NoLostStatus
  SessionMatchesProcess
  ReadNeverBlocks
  ShownWhereStopped
  QueueBounded
PROPERTIES
  NoTrapLoop
