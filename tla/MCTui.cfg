SPECIFICATION Spec
CONSTANTS
  MAX_INPUT_BUFFER = 4
  MIN_TERM_ROWS = 8
  SIZE_MODULUS = 256
  UINT_MODULUS = 64
  Keys = {"j", "k", "h", "l", "g", "G", "^U", "^D", "3", "^W", "^P", "enter", "space", "R", "q"}
  Terminals = {6, 8, 10}
  Units <- MCUnits
INVARIANTS
  TypeOK
  SelectionInBuffer
  PickerHasFocus
  UnitsAgree
PROPERTIES
  MotionShowsSelection
  OpenedNeverCrashes
