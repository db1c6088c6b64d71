---------------------------- MODULE DwarfProducer ----------------------------
(***************************************************************************)
(* The other side of .debug_line: units as a compiler means them, the bytes*)
(* it writes for them and the rows they stand for (DWARF 5, sections 6.2.2 *)
(* to 6.2.5 and 7.6).  Not code of the repository; what its reader is      *)
(* compared with.                                                          *)
(***************************************************************************)
EXTENDS LineHeader, SequencesExt

CONSTANT LineStrings  (* The strings of .debug_line_str, in order.           *)

(* The bytes of n, least significant first; those above a number's width are *)
(* zero.                                                                     *)
Fixed(n, bytes) ==
  [i \in 1..bytes |-> IF i <= WIDTH \div 8 THEN (n \div 2^(8 * (i - 1))) % 256 ELSE 0]

(* Groups of seven bits, every one but the last with the high bit; a producer*)
(* may pad a number with groups that change nothing.                         *)
Groups(n, count) ==
  [i \in 1..count |->
     ((n \div 2^(7 * (i - 1))) % 128) + (IF i < count THEN 128 ELSE 0)]

(* How many groups the number needs.                                         *)
UlebGroups(n) == Min({k \in 1..MAX_LEB : n < 2^(7 * k)})

SlebGroups(n) == Min({k \in 1..MAX_LEB : -(2^(7 * k - 1)) <= n /\ n < 2^(7 * k - 1)})

Uleb(n, padding) == Groups(n, UlebGroups(n) + padding)

Sleb(n, padding) == Groups(n, SlebGroups(n) + padding)

Terminated(string) == Append(string, 0)

LineStr == FlattenSeq([i \in DOMAIN LineStrings |-> Terminated(LineStrings[i])])

OffsetOf(string) ==
  LET k == CHOOSE i \in DOMAIN LineStrings : LineStrings[i] = string
  IN  Len(FlattenSeq([i \in 1..(k - 1) |-> Terminated(LineStrings[i])]))

OffsetBytes(unit) == IF unit.is_dwarf64 THEN 8 ELSE 4

EncodeNumber(form, n) ==
  CASE form = DW_FORM_udata -> Uleb(n, 0)
    [] form = DW_FORM_block -> <<2>> \o Fixed(n, 2)
    [] form = DW_FORM_data1 -> Fixed(n, 1)
    [] form = DW_FORM_data2 -> Fixed(n, 2)
    [] form = DW_FORM_data4 -> Fixed(n, 4)
    [] form = DW_FORM_data8 -> Fixed(n, 8)
    [] form = DW_FORM_data16 -> Fixed(n, 16)

(* Any time stamp, size or digest.                                           *)
Other == 130

EncodeField(unit, format, entry) ==
  CASE format.content_type = DW_LNCT_path /\ format.form_code = DW_FORM_string ->
         Terminated(entry.path)
    [] format.content_type = DW_LNCT_path /\ format.form_code # DW_FORM_string ->
         Fixed(OffsetOf(entry.path), OffsetBytes(unit))
    [] format.content_type = DW_LNCT_directory_index ->
         EncodeNumber(format.form_code, entry.directory_index)
    [] OTHER -> EncodeNumber(format.form_code, Other)

EncodeTable(unit, formats, entries) ==
  <<Len(formats)>>
  \o FlattenSeq([i \in DOMAIN formats |->
                   Uleb(formats[i].content_type, 0) \o Uleb(formats[i].form_code, 0)])
  \o Uleb(Len(entries), 0)
  \o FlattenSeq([i \in DOMAIN entries |->
                   FlattenSeq([j \in DOMAIN formats |->
                                 EncodeField(unit, formats[j], entries[i])])])

OperandCount(opcode) == IF opcode \in {2, 3, 4, 5, 9, 12} THEN 1 ELSE 0

(* What header_length counts.                                                *)
EncodeParameters(unit) ==
  <<unit.minimum_instruction_length, unit.maximum_operations_per_instruction,
    unit.default_is_stmt, unit.line_base % 256, unit.line_range, unit.opcode_base>>
  \o [opcode \in 1..(unit.opcode_base - 1) |-> OperandCount(opcode)]
  \o EncodeTable(unit, unit.directory_formats, unit.directories)
  \o EncodeTable(unit, unit.file_formats, unit.file_names)

ADDRESS_SIZE == WIDTH \div 8

EncodeOperand(i) ==
  CASE i.kind = "extended" /\ i.opcode = 2 -> Fixed(i.operand, ADDRESS_SIZE)
    [] i.kind = "extended" /\ i.opcode = 4 -> Uleb(i.operand, i.padding)
    [] i.kind = "standard" /\ i.opcode = 3 -> Sleb(i.operand, i.padding)
    [] i.kind = "standard" /\ i.opcode \in {2, 4, 5, 12} -> Uleb(i.operand, i.padding)
    [] i.kind = "standard" /\ i.opcode = 9 -> Fixed(i.operand, 2)
    [] OTHER -> << >>

EncodeInstruction(i) ==
  IF i.kind = "extended"
    THEN <<0>> \o Uleb(1 + Len(EncodeOperand(i)), 0) \o <<i.opcode>> \o EncodeOperand(i)
    ELSE <<i.opcode>> \o EncodeOperand(i)

EncodeProgram(unit) ==
  FlattenSeq([i \in DOMAIN unit.program |-> EncodeInstruction(unit.program[i])])

EncodeUnit(unit) ==
  LET parameters == EncodeParameters(unit)
      rest == Fixed(5, 2) \o <<ADDRESS_SIZE, 0>>
              \o Fixed(Len(parameters), OffsetBytes(unit))
              \o parameters \o EncodeProgram(unit)
  IN  (IF unit.is_dwarf64 THEN <<255, 255, 255, 255>> ELSE << >>)
      \o Fixed(Len(rest), OffsetBytes(unit)) \o rest

-----------------------------------------------------------------------------
(* The rows a program means: each register of a row from the instructions    *)
(* that bear on it, not by running them one after the other.                 *)

Is(i, kind, opcode) == i.kind = kind /\ i.opcode = opcode

IsSpecial(i) == i.kind = "special"

EndsSequence(i) == Is(i, "extended", 1)

AddsRow(i) == IsSpecial(i) \/ Is(i, "standard", 1) \/ EndsSequence(i)

LatestOf(indices, default) == IF indices = {} THEN default ELSE Max(indices)

(* The instructions of row k's sequence up to it.                            *)
Since(unit, k) ==
  (LatestOf({j \in 1..(k - 1) : EndsSequence(unit.program[j])}, 0) + 1)..k

(* The instructions since the row before.                                    *)
SinceRow(unit, k) ==
  (LatestOf({j \in 1..(k - 1) : AddsRow(unit.program[j])}, 0) + 1)..k

Chosen(unit, indices, kind, opcode) ==
  {j \in indices : Is(unit.program[j], kind, opcode)}

(* The last operand given for a register.                                    *)
OperandAt(unit, indices, kind, opcode, default) ==
  LET j == LatestOf(Chosen(unit, indices, kind, opcode), 0)
  IN  IF j = 0 THEN default ELSE unit.program[j].operand

LineIncrement(unit, i) ==
  CASE Is(i, "standard", 3) -> i.operand
    [] IsSpecial(i) -> unit.line_base + ((i.opcode - unit.opcode_base) % unit.line_range)
    [] OTHER -> 0

OperationAdvance(unit, i) ==
  CASE Is(i, "standard", 2) -> i.operand
    [] Is(i, "standard", 8) -> (255 - unit.opcode_base) \div unit.line_range
    [] IsSpecial(i) -> (i.opcode - unit.opcode_base) \div unit.line_range
    [] OTHER -> 0

(* The operation pointer of instruction k, from the last instruction that    *)
(* gave an address, or the advance to one, outright.                         *)
Pointer(unit, k) ==
  LET at[j \in 0..k] ==
        LET start == LatestOf(Chosen(unit, Since(unit, j), "extended", 2)
                              \cup Chosen(unit, Since(unit, j), "standard", 9), 0)
            operations ==
              MapThenSumSet(LAMBDA i : OperationAdvance(unit, unit.program[i]),
                            {i \in Since(unit, j) : i > start})
            from == CASE start = 0 -> 0
                      [] start > 0 /\ unit.program[start].kind = "extended" ->
                           unit.program[start].operand
                      [] OTHER -> unit.program[start].operand
                                  + (IF start - 1 \in Since(unit, j)
                                       THEN at[start - 1].address ELSE 0)
        IN  [address |-> from + unit.minimum_instruction_length *
                                (operations \div unit.maximum_operations_per_instruction),
             op_index |-> operations % unit.maximum_operations_per_instruction]
  IN  at[k]

MeantRow(unit, k) ==
  LET since == Since(unit, k)
      Given(opcode) == Chosen(unit, SinceRow(unit, k), "standard", opcode) # {}
  IN  [address |-> Wrap(Pointer(unit, k).address),
       op_index |-> Pointer(unit, k).op_index,
       line |-> (1 + MapThenSumSet(LAMBDA i : LineIncrement(unit, unit.program[i]), since))
                  % 2^(WIDTH \div 2),
       file |-> OperandAt(unit, since, "standard", 4, 1) % 2^(WIDTH \div 2),
       column |-> OperandAt(unit, since, "standard", 5, 0) % 2^(WIDTH \div 2),
       discriminator |-> OperandAt(unit, SinceRow(unit, k), "extended", 4, 0)
                           % 2^(WIDTH \div 2),
       is_stmt |-> (unit.default_is_stmt # 0)
                     # (Cardinality(Chosen(unit, since, "standard", 6)) % 2 = 1),
       basic_block |-> Given(7), prologue_end |-> Given(10), epilogue_begin |-> Given(11),
       end_sequence |-> EndsSequence(unit.program[k])]

(* Sequences in order, the last of them open.                                *)
MeantTable(unit) ==
  LET ends == SetToSortSeq({k \in DOMAIN unit.program : EndsSequence(unit.program[k])}, <)
      rows == {k \in DOMAIN unit.program : AddsRow(unit.program[k])}
      After(n) == IF n = 0 THEN 0 ELSE ends[n]
      RowsOf(n) == {k \in rows : k > After(n - 1) /\ (n <= Len(ends) => k <= ends[n])}
      RowSeq(n) == SetToSortSeq(RowsOf(n), <)
  IN  IF rows = {}
        THEN << >>
        ELSE [n \in 1..(Len(ends) + 1) |->
                [m \in 1..Cardinality(RowsOf(n)) |-> MeantRow(unit, RowSeq(n)[m])]]

(* Where a file of the unit is: a directory that is relative is in the first,*)
(* the directory of the compilation.                                         *)
Located(unit, file) ==
  LET directories == unit.directories
      named == directories[file.directory_index + 1].path
      directory == IF IsAbsolute(named)
                     THEN named ELSE directories[1].path \o <<Slash>> \o named
  IN  IF IsAbsolute(file.path) THEN file.path ELSE directory \o <<Slash>> \o file.path

=============================================================================
