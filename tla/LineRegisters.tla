---------------------------- MODULE LineRegisters ----------------------------
(***************************************************************************)
(* The register machine that line-number programs run on (src/dwarf.c), for*)
(* the parameters in the header of one unit: what opcodes make of registers*)
(* and of the unit's table of rows.  Of the registers that are only set and*)
(* copied (file, column) a program's decoder may have more than these.     *)
(***************************************************************************)
EXTENDS Integers, Sequences

CONSTANTS
  minimum_instruction_length,
  maximum_operations_per_instruction,
  default_is_stmt,
  line_base,
  line_range,
  opcode_base,
  LINE_MODULUS      (* Number of values of a uint32_t.                       *)

(* A zero divisor in the header would end the debugger with SIGFPE.          *)
ASSUME HeaderAssumption ==
  /\ minimum_instruction_length \in 0..255
  /\ maximum_operations_per_instruction \in 1..255
  /\ default_is_stmt \in BOOLEAN
  /\ line_base \in -128..127
  /\ line_range \in 1..255
  /\ opcode_base \in 1..255
  /\ LINE_MODULUS \in Nat /\ LINE_MODULUS > 1

Marks == {"basic_block", "prologue_end", "epilogue_begin"}

LineInfoEntry ==
  [address : Nat, op_index : Nat, line : Nat, discriminator : Nat,
   is_stmt : BOOLEAN, basic_block : BOOLEAN, end_sequence : BOOLEAN,
   prologue_end : BOOLEAN, epilogue_begin : BOOLEAN]

-----------------------------------------------------------------------------
(* The register machine.                                                     *)

reset_line_num_state_machine ==
  [address |-> 0, op_index |-> 0, line |-> 1, discriminator |-> 0,
   is_stmt |-> default_is_stmt, basic_block |-> FALSE, end_sequence |-> FALSE,
   prologue_end |-> FALSE, epilogue_begin |-> FALSE]

(* Mutant of append_line_info_entry: the row that ends a sequence opens none.*)
append_line_info_entry_NotClosed(table, row) ==
  LET open == IF table = << >> THEN << << >> >> ELSE table
  IN  [open EXCEPT ![Len(open)] = Append(@, row)]

(* The last sequence is the open one; a row that ends it opens another.      *)
append_line_info_entry(table, row) ==
  LET open == IF table = << >> THEN << << >> >> ELSE table
      filled == [open EXCEPT ![Len(open)] = Append(@, row)]
  IN  IF row.end_sequence THEN Append(filled, << >>) ELSE filled

(* Mutant of state_machine_advance_pc: the operation index is not counted in *)
(* when instructions are.                                                    *)
state_machine_advance_pc_IndexDropped(r, op_advance) ==
  [r EXCEPT
     !.address = @ + minimum_instruction_length *
                       (op_advance \div maximum_operations_per_instruction),
     !.op_index = (@ + op_advance) % maximum_operations_per_instruction]

state_machine_advance_pc(r, op_advance) ==
  LET ops == r.op_index + op_advance
  IN  [r EXCEPT
         !.address = @ + minimum_instruction_length *
                           (ops \div maximum_operations_per_instruction),
         !.op_index = ops % maximum_operations_per_instruction]

(* Mutant of advance_line: the line is not cut to 32 bits.                   *)
advance_line_Signed(r, increment) == [r EXCEPT !.line = @ + increment]

advance_line(r, increment) == [r EXCEPT !.line = (@ + increment) % LINE_MODULUS]

(* A row's marks and discriminator are its own.                              *)
ForgetMarks(r) ==
  [r EXCEPT !.discriminator = 0, !.basic_block = FALSE,
            !.prologue_end = FALSE, !.epilogue_begin = FALSE]

(* Mutant of SpecialRow: the line is computed from the opcode as it is.      *)
SpecialRow_Unadjusted(r, opcode) ==
  state_machine_advance_pc(advance_line(r, line_base + (opcode % line_range)),
                           (opcode - opcode_base) \div line_range)

(* What a special opcode makes of the registers before it appends them.      *)
SpecialRow(r, opcode) ==
  LET adjusted_opcode == opcode - opcode_base
  IN  state_machine_advance_pc(
        advance_line(r, line_base + (adjusted_opcode % line_range)),
        adjusted_opcode \div line_range)

=============================================================================
