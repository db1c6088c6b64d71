SPECIFICATION ViewsSpec
CONSTANTS
  MAX_INPUT_BUFFER = 3
  MIN_TERM_ROWS = 8
  SIZE_MODULUS = 256
  UINT_MODULUS = 64
  Keys = {"j", "k", "l", "^W", "^P", "enter", "space"}
  Terminals = {8}
  Units <- MCUnits
  Text <- MCText
  TextData <- MCTextData
  CompUnits = {0, 1}
  Lines <- MCLines
  LineInfo <- MCLineInfo
  Undecodable = {43}
  Outside = {40}
INVARIANTS
  WindowsAgree
  SelectedLineIsShown
PROPERTIES
  SpaceActsOnSelectedRow
