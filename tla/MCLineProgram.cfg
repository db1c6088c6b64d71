SPECIFICATION Spec
CONSTANTS
  minimum_instruction_length = 2
  maximum_operations_per_instruction = 3
  default_is_stmt = TRUE
  line_base <- MCLineBase
  line_range = 4
  opcode_base = 13
  LINE_MODULUS = 8
  ProgramLengths <- MCProgramLengths
  SetAddresses = {0, 4}
  Discriminators = {1}
  Advances = {1, 3}
  FixedAdvances = {2}
  Increments = {2}
  SpecialOpcodes = {13, 20, 255}
  AddressFirst = TRUE
INVARIANTS
  TypeOK
  SequencesAreClosed
  RowsAscend
  MarksAreFresh
  SpecialInvertsChoice
