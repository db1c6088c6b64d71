SPECIFICATION Spec
CONSTANTS
  WIDTH = 16
  LineStrings <- MCLineStrings
  Files <- MCFiles
INVARIANTS
  TypeOK
  DecodesWhatWasWritten
  TruncationIsNoticed
  PathsResolve
  AddressesAreMapped
