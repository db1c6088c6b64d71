SPECIFICATION Spec
CONSTANTS
  Text <- MCText
  TextData <- MCTextData
  CompUnits = {0}
  Lines = {1}
  LineInfo <- MCLineInfo
  ElfLoadAddress = 0
  LoadAddresses = {100, 200}
  External = 50
  Entry = 10
  Signals = {"SIGSEGV", "SIGKILL"}
  PtyCapacity = 2
  MAX_OUTPUT_SIZE = 3
  PathParses = TRUE
  ExecMayFail = FALSE
  Keys = {"MSG_QUIT", "MSG_RUN_DEBUGGEE", "MSG_TOGGLE_BREAKPOINT"}
  Disciplined = TRUE
INVARIANTS
  NoDerail
  ArmedWhileRunning
PROPERTIES
  ImplementsDebuggedProgram
