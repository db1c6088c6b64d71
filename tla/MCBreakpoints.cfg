SPECIFICATION BreakpointsSpec
CONSTANTS
  Text <- MCText
  TextData <- MCTextData
  CompUnits = {0, 1}
  Lines = {1, 2, 3}
  LineInfo <- MCLineInfo
INVARIANTS
  BreakpointsTypeOK
  UniqueAddresses
  SourceBacked
  UniqueSources
PROPERTIES
  OneAddressPerToggle
  RemovalsRefineRecursion
