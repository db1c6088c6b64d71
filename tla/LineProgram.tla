----------------------------- MODULE LineProgram -----------------------------
(***************************************************************************)
(* The line-number programs of .debug_line (src/dwarf.c): for each         *)
(* compilation unit a program of opcodes is run on a register machine that *)
(* appends rows to the unit's table, sequence after sequence.  A program is*)
(* any choice of opcodes and operands; its length is what the loop counts  *)
(* down.  Bytes are abstracted to whole opcodes with their operands, and   *)
(* of the registers only those of LineRegisters are kept.                  *)
(***************************************************************************)
EXTENDS LineRegisters

CONSTANTS
  ProgramLengths,   (* Per unit, the opcodes in its program.                 *)
  SetAddresses,     (* Operands of DW_LNE_set_address.                       *)
  Discriminators,   (* Operands of DW_LNE_set_discriminator.                 *)
  Advances,         (* Operands of DW_LNS_advance_pc.                        *)
  FixedAdvances,    (* Operands of DW_LNS_fixed_advance_pc.                  *)
  Increments,       (* Operands of DW_LNS_advance_line.                      *)
  SpecialOpcodes,   (* The special opcodes that occur.                       *)
  AddressFirst      (* An address is set only before a sequence's first row, *)
                    (* as compilers do.                                      *)

(* What programs are made of.                                                *)
ASSUME ProgramAssumption ==
  /\ ProgramLengths \in Seq(Nat)
  /\ SetAddresses \subseteq Nat /\ Discriminators \subseteq Nat
  /\ Advances \subseteq Nat /\ FixedAdvances \subseteq Nat
  /\ Increments \subseteq Int
  /\ SpecialOpcodes \subseteq opcode_base..255
  /\ AddressFirst \in BOOLEAN

VARIABLES
  comp_units,       (* line_info->comp_units: the finished tables.           *)
  line_info_table,  (* The sequences of the unit being decoded.              *)
  state_machine,    (* Its registers.                                        *)
  remaining,        (* Opcodes left of its program.                          *)
  marked            (* Marks and addresses given since the last row (history)*)

vars == <<comp_units, line_info_table, state_machine, remaining, marked>>

-----------------------------------------------------------------------------
(* decode_line_num_prog, an opcode at a time.                                *)

Init ==
  /\ comp_units = << >>
  /\ line_info_table = << >>
  /\ state_machine = reset_line_num_state_machine
  /\ remaining = IF ProgramLengths = << >> THEN 0 ELSE ProgramLengths[1]
  /\ marked = {}

Decodes == remaining > 0 /\ remaining' = remaining - 1 /\ UNCHANGED comp_units

(* A standard opcode is one below opcode_base.                               *)
Standard(opcode) == Decodes /\ opcode < opcode_base

(* The opcode changes registers and appends nothing.                         *)
Sets(r) == state_machine' = r /\ UNCHANGED line_info_table

AppendsRow(row) ==
  /\ line_info_table' = append_line_info_entry(line_info_table, row)
  /\ marked' = {}

OpenSequenceIsEmpty ==
  line_info_table # << >> => line_info_table[Len(line_info_table)] = << >>

DW_LNE_end_sequence ==
  /\ Decodes
  /\ AppendsRow([state_machine EXCEPT !.end_sequence = TRUE])
  /\ state_machine' = reset_line_num_state_machine

DW_LNE_set_address(address) ==
  /\ Decodes
  /\ AddressFirst => OpenSequenceIsEmpty
  /\ Sets([state_machine EXCEPT !.address = address, !.op_index = 0])
  /\ UNCHANGED marked

DW_LNE_set_discriminator(discriminator) ==
  /\ Decodes
  /\ Sets([state_machine EXCEPT !.discriminator = discriminator])
  /\ UNCHANGED marked

DW_LNS_copy ==
  /\ Standard(1)
  /\ AppendsRow(state_machine)
  /\ state_machine' = ForgetMarks(state_machine)

DW_LNS_advance_pc(op_advance) ==
  /\ Standard(2)
  /\ Sets(state_machine_advance_pc(state_machine, op_advance))
  /\ UNCHANGED marked

DW_LNS_advance_line(line_increment) ==
  /\ Standard(3)
  /\ Sets(advance_line(state_machine, line_increment))
  /\ UNCHANGED marked

(* DW_LNS_set_file, DW_LNS_set_column, DW_LNS_set_isa, and opcodes that are  *)
(* skipped.                                                                  *)
OtherOpcode ==
  /\ Decodes
  /\ UNCHANGED <<line_info_table, state_machine, marked>>

DW_LNS_negate_stmt ==
  /\ Standard(6)
  /\ Sets([state_machine EXCEPT !.is_stmt = ~@])
  /\ UNCHANGED marked

DW_LNS_const_add_pc ==
  /\ Standard(8)
  /\ Sets(state_machine_advance_pc(state_machine,
                                   (255 - opcode_base) \div line_range))
  /\ UNCHANGED marked

DW_LNS_fixed_advance_pc(fixed_advance) ==
  /\ Standard(9)
  /\ Sets([state_machine EXCEPT !.address = @ + fixed_advance, !.op_index = 0])
  /\ UNCHANGED marked

(* DW_LNS_set_basic_block, DW_LNS_set_prologue_end, DW_LNS_set_epilogue_begin*)
SetsMark(mark) ==
  /\ Standard(CASE mark = "basic_block" -> 7
                [] mark = "prologue_end" -> 10
                [] mark = "epilogue_begin" -> 11)
  /\ Sets([state_machine EXCEPT ![mark] = TRUE])
  /\ marked' = marked \cup {mark}

(* Mutant of Special: the marks are left for the next row.                   *)
Special_MarksKept(opcode) ==
  LET row == SpecialRow(state_machine, opcode)
  IN  /\ Decodes
      /\ AppendsRow(row)
      /\ state_machine' = row

Special(opcode) ==
  LET row == SpecialRow(state_machine, opcode)
  IN  /\ Decodes
      /\ AppendsRow(row)
      /\ state_machine' = ForgetMarks(row)

(* parse_debug_line_section: the next unit begins where a program ends.      *)
NextUnit ==
  /\ remaining = 0
  /\ Len(comp_units) < Len(ProgramLengths)
  /\ comp_units' = Append(comp_units, line_info_table)
  /\ line_info_table' = << >>
  /\ state_machine' = reset_line_num_state_machine
  /\ remaining' = IF Len(comp_units') < Len(ProgramLengths)
                    THEN ProgramLengths[Len(comp_units') + 1] ELSE 0
  /\ marked' = {}

Parsed == Len(comp_units) = Len(ProgramLengths) /\ UNCHANGED vars

Next ==
  \/ DW_LNE_end_sequence
  \/ \E a \in SetAddresses : DW_LNE_set_address(a)
  \/ \E d \in Discriminators : DW_LNE_set_discriminator(d)
  \/ DW_LNS_copy
  \/ \E n \in Advances : DW_LNS_advance_pc(n)
  \/ \E n \in Increments : DW_LNS_advance_line(n)
  \/ DW_LNS_negate_stmt \/ DW_LNS_const_add_pc \/ OtherOpcode
  \/ \E n \in FixedAdvances : DW_LNS_fixed_advance_pc(n)
  \/ \E mark \in Marks : SetsMark(mark)
  \/ \E opcode \in SpecialOpcodes : Special(opcode)
  \/ NextUnit \/ Parsed

Spec == Init /\ [][Next]_vars

-----------------------------------------------------------------------------
(* Properties.                                                               *)

(* Registers and tables have their types.                                    *)
TypeOK ==
  /\ comp_units \in Seq(Seq(Seq(LineInfoEntry)))
  /\ line_info_table \in Seq(Seq(LineInfoEntry))
  /\ state_machine \in LineInfoEntry
  /\ remaining \in Nat
  /\ marked \subseteq Marks

(* The tables lookups can meet.                                              *)
Tables == {line_info_table} \cup {comp_units[i] : i \in DOMAIN comp_units}

(* The operation pointer of a row, or register set, is not past another's.   *)
AtMost(p, q) ==
  \/ p.address < q.address
  \/ p.address = q.address /\ p.op_index <= q.op_index

Closed(table) ==
  \A i \in DOMAIN table :
    /\ i < Len(table) => table[i] # << >>
    /\ \A j \in DOMAIN table[i] :
         table[i][j].end_sequence <=> i < Len(table) /\ j = Len(table[i])

Ascending(table) ==
  \A i \in DOMAIN table :
    \A j, k \in DOMAIN table[i] : j < k => AtMost(table[i][j], table[i][k])

(* Every sequence but the last is ended, and a row ends a sequence only as   *)
(* its last row: get_assembly_buffer takes the last row of a sequence for the*)
(* end of its code, and get_instructions_for_line skips just that one.       *)
SequencesAreClosed == \A table \in Tables : Closed(table)

(* "Successive insertions into the same sequence must be monotonically       *)
(* increasing in the operation pointer" (append_line_info_entry): so they are*)
(* as long as addresses are set only at the beginning of a sequence.         *)
RowsAscend == \A table \in Tables : Ascending(table)

(* A row has the marks given since the row before it, and none left over from*)
(* an earlier row, sequence or unit.                                         *)
MarksAreFresh ==
  \A mark \in Marks : state_machine[mark] <=> mark \in marked

(* A special opcode advances the line and the operation pointer by the       *)
(* amounts a compiler that chose it meant (DWARF 5, 6.2.5.1): opcode =       *)
(* (line increment - line_base) + line_range * operation advance +           *)
(* opcode_base, whatever operation of an instruction it starts from.         *)
SpecialInvertsChoice ==
  LET Pointer(r) ==
        (r.address \div minimum_instruction_length)
          * maximum_operations_per_instruction + r.op_index
  IN  state_machine.address % minimum_instruction_length = 0 =>
        \A opcode \in SpecialOpcodes :
          LET row == SpecialRow(state_machine, opcode)
              increment == (row.line - state_machine.line - line_base) % LINE_MODULUS
              op_advance == Pointer(row) - Pointer(state_machine)
          IN  /\ increment < line_range
              /\ opcode = increment + line_range * op_advance + opcode_base

=============================================================================
