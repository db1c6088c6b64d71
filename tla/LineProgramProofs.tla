-------------------------- MODULE LineProgramProofs --------------------------
(***************************************************************************)
(* Theorems about LineProgram, for every header and every program: the     *)
(* registers and tables have their types, sequences are closed, marks are  *)
(* fresh, and rows ascend if the program is one a compiler writes.         *)
(***************************************************************************)
EXTENDS LineProgram, NumberLemmas, TLAPS

-----------------------------------------------------------------------------
(* What appending a row does to a table.                                     *)

Table == Seq(Seq(LineInfoEntry))

(* The index and the rows of the sequence rows are appended to.              *)
OpenIndex(table) == IF table = << >> THEN 1 ELSE Len(table)

OpenRows(table) == IF table = << >> THEN << >> ELSE table[Len(table)]

(* Appending changes the open sequence, and adds one if that has ended.      *)
LEMMA AppendedTable ==
  ASSUME NEW t \in Table, NEW row \in LineInfoEntry
  PROVE  LET n == OpenIndex(t)
             u == append_line_info_entry(t, row)
         IN  /\ u \in Table
             /\ Len(u) = IF row.end_sequence THEN n + 1 ELSE n
             /\ \A i \in 1..(n - 1) : i \in DOMAIN t /\ u[i] = t[i]
             /\ n \in Nat \ {0}
             /\ OpenRows(t) \in Seq(LineInfoEntry)
             /\ u[n] = Append(OpenRows(t), row)
             /\ row.end_sequence => u[n + 1] = << >>
<1> DEFINE n == OpenIndex(t)
           open == IF t = << >> THEN << << >> >> ELSE t
           filled == [open EXCEPT ![Len(open)] = Append(@, row)]
           u == append_line_info_entry(t, row)
<1>1. u = IF row.end_sequence THEN Append(filled, << >>) ELSE filled
  BY DEF append_line_info_entry
<1>2. open \in Table /\ Len(open) = n /\ n \in Nat \ {0}
  BY DEF Table, OpenIndex
<1>3. open[n] = OpenRows(t) /\ OpenRows(t) \in Seq(LineInfoEntry)
  BY <1>2 DEF Table, OpenIndex, OpenRows
<1>4. \A i \in 1..(n - 1) : i \in DOMAIN t /\ open[i] = t[i]
  BY <1>2 DEF Table, OpenIndex
<1> HIDE DEF open, n
<1>5. Append(open[n], row) \in Seq(LineInfoEntry)
  BY <1>3
<1>6. /\ filled \in Table /\ Len(filled) = n
      /\ filled[n] = Append(open[n], row)
      /\ \A i \in 1..(n - 1) : filled[i] = open[i]
  BY <1>2, <1>5 DEF Table
<1> HIDE DEF filled
<1>7. /\ Append(filled, << >>) \in Table
      /\ Len(Append(filled, << >>)) = n + 1
      /\ Append(filled, << >>)[n + 1] = << >>
      /\ \A i \in 1..n : Append(filled, << >>)[i] = filled[i]
  BY <1>2, <1>6 DEF Table
<1>8. n \in 1..n /\ \A i \in 1..(n - 1) : i \in 1..n
  BY <1>2
<1> HIDE DEF u
<1> QED
  BY <1>1, <1>2, <1>3, <1>4, <1>6, <1>7, <1>8 DEF n, u

(* A row after an open sequence's rows, ending it or not, keeps a table      *)
(* closed.                                                                   *)
LEMMA AppendKeepsClosed ==
  ASSUME NEW t \in Table, Closed(t), NEW row \in LineInfoEntry
  PROVE  Closed(append_line_info_entry(t, row))
<1> DEFINE n == OpenIndex(t)
           rows == OpenRows(t)
           u == append_line_info_entry(t, row)
<1>1. /\ u \in Table
      /\ Len(u) = IF row.end_sequence THEN n + 1 ELSE n
      /\ \A i \in 1..(n - 1) : i \in DOMAIN t /\ u[i] = t[i]
      /\ n \in Nat \ {0}
      /\ rows \in Seq(LineInfoEntry)
      /\ u[n] = Append(rows, row)
      /\ row.end_sequence => u[n + 1] = << >>
  BY AppendedTable
<1>2. \A j \in DOMAIN rows : ~rows[j].end_sequence
  BY DEF Closed, OpenRows, Table
<1>3. \A i \in 1..(n - 1) : i < Len(t)
  BY DEF OpenIndex, Table
<1>4. row.end_sequence \in BOOLEAN
  BY DEF LineInfoEntry
<1> HIDE DEF n, rows, u
<1>5. ASSUME NEW i \in DOMAIN u
      PROVE  /\ i < Len(u) => u[i] # << >>
             /\ \A j \in DOMAIN u[i] :
                  u[i][j].end_sequence <=> i < Len(u) /\ j = Len(u[i])
  <2>1. CASE i \in 1..(n - 1)
    <3>1. i \in DOMAIN t /\ u[i] = t[i] /\ i < Len(t) /\ i < Len(u)
      BY <1>1, <1>3, <1>4, <2>1
    <3> QED
      BY <3>1 DEF Closed
  <2>2. CASE i = n
    <3>1. /\ Len(u[n]) = Len(rows) + 1
          /\ \A j \in 1..Len(rows) : u[n][j] = rows[j]
          /\ u[n][Len(rows) + 1] = row
          /\ DOMAIN u[n] = 1..(Len(rows) + 1)
          /\ DOMAIN rows = 1..Len(rows) /\ Len(rows) \in Nat
      BY <1>1
    <3>2. n < Len(u) <=> row.end_sequence
      BY <1>1, <1>4
    <3>3. u[n] # << >>
      BY <3>1
    <3>4. ASSUME NEW j \in DOMAIN u[n]
          PROVE  u[n][j].end_sequence <=> n < Len(u) /\ j = Len(u[n])
      <4>1. CASE j \in 1..Len(rows)
        BY <1>2, <3>1, <4>1
      <4>2. CASE j = Len(rows) + 1
        BY <3>1, <3>2, <4>2
      <4> QED
        BY <3>1, <4>1, <4>2
    <3> QED
      BY <2>2, <3>3, <3>4
  <2>3. CASE i = n + 1
    BY <1>1, <1>4, <2>3 DEF Table
  <2>4. i \in 1..(n - 1) \/ i = n \/ i = n + 1
    <3>1. i \in 1..Len(u)
      BY <1>1 DEF Table
    <3>2. Len(u) = n \/ Len(u) = n + 1
      BY <1>1, <1>4
    <3> QED
      BY <1>1, <3>1, <3>2
  <2> QED
    BY <2>1, <2>2, <2>3, <2>4
<1> QED
  BY <1>5 DEF Closed, u

(* A row that is not behind the open sequence's rows keeps a table ascending.*)
LEMMA AppendKeepsAscending ==
  ASSUME NEW t \in Table, Ascending(t), NEW row \in LineInfoEntry,
         \A j \in DOMAIN OpenRows(t) : AtMost(OpenRows(t)[j], row)
  PROVE  Ascending(append_line_info_entry(t, row))
<1> DEFINE n == OpenIndex(t)
           rows == OpenRows(t)
           u == append_line_info_entry(t, row)
<1>1. /\ u \in Table
      /\ Len(u) = IF row.end_sequence THEN n + 1 ELSE n
      /\ \A i \in 1..(n - 1) : i \in DOMAIN t /\ u[i] = t[i]
      /\ n \in Nat \ {0}
      /\ rows \in Seq(LineInfoEntry)
      /\ u[n] = Append(rows, row)
      /\ row.end_sequence => u[n + 1] = << >>
  BY AppendedTable
<1>2. \A j, k \in DOMAIN rows : j < k => AtMost(rows[j], rows[k])
  BY DEF Ascending, OpenRows, Table
<1>3. row.end_sequence \in BOOLEAN
  BY DEF LineInfoEntry
<1>4. \A j \in DOMAIN rows : AtMost(rows[j], row)
  OBVIOUS
<1> HIDE DEF n, rows, u
<1>5. ASSUME NEW i \in DOMAIN u, NEW j \in DOMAIN u[i], NEW k \in DOMAIN u[i], j < k
      PROVE  AtMost(u[i][j], u[i][k])
  <2>1. CASE i \in 1..(n - 1)
    BY <1>1, <1>5, <2>1 DEF Ascending
  <2>2. CASE i = n
    <3>1. /\ \A l \in 1..Len(rows) : u[n][l] = rows[l]
          /\ u[n][Len(rows) + 1] = row
          /\ DOMAIN u[n] = 1..(Len(rows) + 1)
          /\ DOMAIN rows = 1..Len(rows) /\ Len(rows) \in Nat
      BY <1>1
    <3>2. CASE k \in 1..Len(rows)
      <4>1. j \in 1..Len(rows)
        BY <1>5, <2>2, <3>1, <3>2
      <4> QED
        BY <1>2, <1>5, <2>2, <3>1, <3>2, <4>1
    <3>3. CASE k = Len(rows) + 1
      <4>1. j \in 1..Len(rows)
        BY <1>5, <2>2, <3>1, <3>3
      <4> QED
        BY <1>4, <2>2, <3>1, <3>3, <4>1
    <3> QED
      BY <2>2, <3>1, <3>2, <3>3
  <2>3. CASE i = n + 1
    BY <1>1, <1>3, <2>3 DEF Table
  <2>4. i \in 1..(n - 1) \/ i = n \/ i = n + 1
    <3>1. u \in Seq(Seq(LineInfoEntry))
      BY <1>1 DEF Table
    <3>2. DOMAIN u = 1..Len(u)
      BY <3>1
    <3>3. Len(u) = n \/ Len(u) = n + 1
      BY <1>1, <1>3
    <3> QED
      BY <1>1, <3>2, <3>3
  <2> QED
    BY <2>1, <2>2, <2>3, <2>4
<1> QED
  BY <1>5 DEF Ascending, u

-----------------------------------------------------------------------------
(* What the opcodes do to the registers.                                     *)

(* The header fields a program's meaning depends on.                         *)
LEMMA HeaderFacts ==
  /\ minimum_instruction_length \in Nat
  /\ maximum_operations_per_instruction \in Nat
  /\ maximum_operations_per_instruction > 0
  /\ line_base \in Int
  /\ line_range \in Nat
  /\ line_range > 0
  /\ opcode_base \in Nat
  /\ opcode_base <= 255
  /\ LINE_MODULUS \in Nat
  /\ LINE_MODULUS > 1
<1>1. /\ minimum_instruction_length \in 0..255
      /\ maximum_operations_per_instruction \in 1..255
      /\ line_base \in -128..127
      /\ line_range \in 1..255
      /\ opcode_base \in 1..255
      /\ LINE_MODULUS \in Nat /\ LINE_MODULUS > 1
  BY HeaderAssumption
<1> QED
  BY <1>1

(* Quotient and remainder of natural numbers.                                *)
LEMMA Division ==
  ASSUME NEW a \in Nat, NEW m \in Nat, m > 0
  PROVE  a \div m \in Nat /\ a % m \in Nat /\ (a \div m = 0 => a % m = a)
<1>1. a \div m \in Nat
  OBVIOUS
<1>2. a % m \in Nat
  OBVIOUS
<1>3. a \div m = 0 => a % m = a
  OBVIOUS
<1> QED
  BY <1>1, <1>2, <1>3

(* Advancing moves the operation pointer forward and nothing else.           *)
LEMMA AdvancedPc ==
  ASSUME NEW r \in LineInfoEntry, NEW op_advance \in Nat
  PROVE  LET q == state_machine_advance_pc(r, op_advance)
         IN  /\ q \in LineInfoEntry
             /\ q.end_sequence = r.end_sequence
             /\ \A mark \in Marks : q[mark] = r[mark]
             /\ minimum_instruction_length > 0 => AtMost(r, q)
<1> DEFINE ops == r.op_index + op_advance
           instructions == ops \div maximum_operations_per_instruction
           q == state_machine_advance_pc(r, op_advance)
<1>1. ops \in Nat /\ r.op_index <= ops /\ r.address \in Nat /\ r.op_index \in Nat
  BY DEF LineInfoEntry
<1>2. /\ maximum_operations_per_instruction \in Nat
      /\ maximum_operations_per_instruction > 0
      /\ minimum_instruction_length \in Nat
  BY HeaderFacts
<1> HIDE DEF ops
<1>3. /\ instructions \in Nat
      /\ ops % maximum_operations_per_instruction \in Nat
      /\ instructions = 0 => ops % maximum_operations_per_instruction = ops
  BY <1>1, <1>2, Division
<1> HIDE DEF instructions
<1>4. /\ minimum_instruction_length * instructions \in Nat
      /\ minimum_instruction_length > 0 /\ instructions > 0 =>
           minimum_instruction_length * instructions > 0
  BY <1>2, <1>3
<1>5. q = [r EXCEPT !.address = @ + minimum_instruction_length * instructions,
                    !.op_index = ops % maximum_operations_per_instruction]
  BY DEF state_machine_advance_pc, ops, instructions
<1>6. /\ q \in LineInfoEntry
      /\ q.address = r.address + minimum_instruction_length * instructions
      /\ q.op_index = ops % maximum_operations_per_instruction
      /\ q.end_sequence = r.end_sequence
      /\ \A mark \in Marks : q[mark] = r[mark]
  <2> DEFINE a == r.address + minimum_instruction_length * instructions
             x == ops % maximum_operations_per_instruction
  <2>1. a \in Nat /\ x \in Nat
    BY <1>1, <1>3, <1>4
  <2>2. q = [r EXCEPT !.address = a, !.op_index = x]
    BY <1>5
  <2> HIDE DEF a, x, q
  <2>3. /\ q \in LineInfoEntry /\ q.address = a /\ q.op_index = x
        /\ q.end_sequence = r.end_sequence
        /\ q.basic_block = r.basic_block
        /\ q.prologue_end = r.prologue_end
        /\ q.epilogue_begin = r.epilogue_begin
    BY <2>1, <2>2 DEF LineInfoEntry
  <2> QED
    BY <2>3 DEF Marks, a, x
<1> HIDE DEF q
<1>7. minimum_instruction_length > 0 => AtMost(r, q)
  BY <1>1, <1>3, <1>4, <1>6 DEF AtMost
<1> QED
  BY <1>6, <1>7 DEF q

(* Advancing the line changes nothing else, and cuts it to its width.        *)
LEMMA AdvancedLine ==
  ASSUME NEW r \in LineInfoEntry, NEW increment \in Int
  PROVE  LET q == advance_line(r, increment)
         IN  /\ q \in LineInfoEntry
             /\ q.address = r.address /\ q.op_index = r.op_index
             /\ q.end_sequence = r.end_sequence
             /\ \A mark \in Marks : q[mark] = r[mark]
<1> DEFINE line == (r.line + increment) % LINE_MODULUS
<1>1. r.line + increment \in Int
  BY DEF LineInfoEntry
<1>2. line \in Nat
  BY <1>1, HeaderFacts
<1> HIDE DEF line
<1>3. advance_line(r, increment) = [r EXCEPT !.line = line]
  BY DEF advance_line, line
<1> QED
  BY <1>2, <1>3 DEF LineInfoEntry, Marks

(* What is forgotten after a row.                                            *)
LEMMA ForgottenMarks ==
  ASSUME NEW r \in LineInfoEntry
  PROVE  LET q == ForgetMarks(r)
         IN  /\ q \in LineInfoEntry
             /\ q.address = r.address /\ q.op_index = r.op_index
             /\ q.end_sequence = r.end_sequence
             /\ \A mark \in Marks : ~q[mark]
<1> DEFINE q == ForgetMarks(r)
<1>1. /\ q \in LineInfoEntry
      /\ q.address = r.address /\ q.op_index = r.op_index
      /\ q.end_sequence = r.end_sequence
      /\ q.basic_block = FALSE
      /\ q.prologue_end = FALSE
      /\ q.epilogue_begin = FALSE
  BY DEF ForgetMarks, LineInfoEntry
<1> QED
  BY <1>1 DEF Marks

(* A special opcode moves the operation pointer forward.                     *)
LEMMA SpecialRowFacts ==
  ASSUME NEW r \in LineInfoEntry, NEW opcode \in SpecialOpcodes
  PROVE  LET q == SpecialRow(r, opcode)
         IN  /\ q \in LineInfoEntry
             /\ q.end_sequence = r.end_sequence
             /\ minimum_instruction_length > 0 => AtMost(r, q)
<1> DEFINE adjusted_opcode == opcode - opcode_base
           increment == line_base + (adjusted_opcode % line_range)
           op_advance == adjusted_opcode \div line_range
           p == advance_line(r, increment)
           q == state_machine_advance_pc(p, op_advance)
<1>1. adjusted_opcode \in Nat
  <2>1. SpecialOpcodes \subseteq opcode_base..255
    BY ProgramAssumption
  <2> QED
    BY <2>1, HeaderFacts
<1> HIDE DEF adjusted_opcode
<1>2. adjusted_opcode % line_range \in Nat /\ op_advance \in Nat
  BY <1>1, HeaderFacts, Division
<1>3. increment \in Int
  BY <1>2, HeaderFacts
<1> HIDE DEF increment, op_advance
<1>4. /\ p \in LineInfoEntry
      /\ p.address = r.address /\ p.op_index = r.op_index
      /\ p.end_sequence = r.end_sequence
  BY <1>3, AdvancedLine
<1> HIDE DEF p
<1>5. /\ q \in LineInfoEntry
      /\ q.end_sequence = p.end_sequence
      /\ minimum_instruction_length > 0 => AtMost(p, q)
  BY <1>2, <1>4, AdvancedPc
<1>6. q = SpecialRow(r, opcode)
  BY DEF SpecialRow, q, p, increment, op_advance, adjusted_opcode
<1> QED
  BY <1>4, <1>5, <1>6 DEF AtMost

-----------------------------------------------------------------------------
(* The inductive invariant.  The registers never hold the end mark between   *)
(* opcodes, or rows after an end would look like ends themselves.            *)

LineInv ==
  /\ TypeOK
  /\ ~state_machine.end_sequence
  /\ SequencesAreClosed
  /\ MarksAreFresh

(* An opcode that changes registers: no table changes, so only the registers'*)
(* part of the invariant is at stake.                                        *)
LEMMA SetsPreserves ==
  ASSUME LineInv, Decodes, NEW r \in LineInfoEntry, Sets(r),
         ~r.end_sequence, marked' \subseteq Marks,
         \A mark \in Marks : r[mark] <=> mark \in marked'
  PROVE  LineInv'
<1>1. TypeOK'
  BY DEF LineInv, TypeOK, Decodes, Sets
<1>2. ~state_machine'.end_sequence /\ MarksAreFresh'
  BY DEF Sets, MarksAreFresh
<1>3. SequencesAreClosed'
  BY DEF LineInv, SequencesAreClosed, Tables, Decodes, Sets
<1> QED
  BY <1>1, <1>2, <1>3 DEF LineInv

(* An opcode that appends a row and leaves registers without marks.          *)
LEMMA AppendsPreserves ==
  ASSUME LineInv, Decodes, NEW row \in LineInfoEntry, AppendsRow(row),
         state_machine' \in LineInfoEntry, ~state_machine'.end_sequence,
         \A mark \in Marks : ~state_machine'[mark]
  PROVE  LineInv'
<1>1. line_info_table \in Table /\ Closed(line_info_table)
  BY DEF LineInv, TypeOK, Table, SequencesAreClosed, Tables
<1>2. line_info_table' \in Table
  BY <1>1, AppendedTable DEF AppendsRow
<1>3. Closed(line_info_table')
  BY <1>1, AppendKeepsClosed DEF AppendsRow
<1>4. TypeOK'
  BY <1>2 DEF LineInv, TypeOK, Table, Decodes, AppendsRow
<1>5. SequencesAreClosed'
  BY <1>3 DEF LineInv, SequencesAreClosed, Tables, Decodes
<1>6. MarksAreFresh'
  BY DEF MarksAreFresh, AppendsRow
<1> QED
  BY <1>4, <1>5, <1>6 DEF LineInv

(* The registers a sequence begins with.                                     *)
LEMMA ResetRegisters ==
  LET q == reset_line_num_state_machine
  IN  /\ q \in LineInfoEntry
      /\ ~q.end_sequence
      /\ \A mark \in Marks : ~q[mark]
<1>1. default_is_stmt \in BOOLEAN
  BY HeaderAssumption
<1> QED
  BY <1>1 DEF reset_line_num_state_machine, LineInfoEntry, Marks

(* One step lemma for each opcode, and one for the loop over units.          *)
LEMMA EndSequencePreserves ==
  ASSUME LineInv, DW_LNE_end_sequence
  PROVE  LineInv'
<1> DEFINE row == [state_machine EXCEPT !.end_sequence = TRUE]
<1>1. row \in LineInfoEntry
  BY DEF LineInv, TypeOK, LineInfoEntry
<1>2. Decodes /\ AppendsRow(row) /\ state_machine' = reset_line_num_state_machine
  BY DEF DW_LNE_end_sequence
<1> HIDE DEF row
<1> QED
  BY <1>1, <1>2, ResetRegisters, AppendsPreserves

(* A copy appends the registers as they are and forgets the marks.           *)
LEMMA CopyPreserves ==
  ASSUME LineInv, DW_LNS_copy
  PROVE  LineInv'
<1>1. /\ Decodes /\ AppendsRow(state_machine)
      /\ state_machine' = ForgetMarks(state_machine)
  BY DEF DW_LNS_copy, Standard
<1>2. state_machine \in LineInfoEntry /\ ~state_machine.end_sequence
  BY DEF LineInv, TypeOK
<1> QED
  BY <1>1, <1>2, ForgottenMarks, AppendsPreserves

(* A special opcode advances, appends and forgets the marks.                 *)
LEMMA SpecialPreserves ==
  ASSUME LineInv, NEW opcode \in SpecialOpcodes, Special(opcode)
  PROVE  LineInv'
<1> DEFINE row == SpecialRow(state_machine, opcode)
<1>1. Decodes /\ AppendsRow(row) /\ state_machine' = ForgetMarks(row)
  BY DEF Special
<1>2. state_machine \in LineInfoEntry /\ ~state_machine.end_sequence
  BY DEF LineInv, TypeOK
<1>3. row \in LineInfoEntry /\ ~row.end_sequence
  BY <1>2, SpecialRowFacts
<1> HIDE DEF row
<1> QED
  BY <1>1, <1>3, ForgottenMarks, AppendsPreserves

(* Opcodes that set a register that is not a mark.                           *)
LEMMA RegisterPreserves ==
  ASSUME LineInv, Decodes, UNCHANGED marked, NEW r \in LineInfoEntry, Sets(r),
         r.end_sequence = state_machine.end_sequence,
         \A mark \in Marks : r[mark] = state_machine[mark]
  PROVE  LineInv'
<1>1. ~r.end_sequence /\ marked' \subseteq Marks
  BY DEF LineInv, TypeOK
<1>2. \A mark \in Marks : r[mark] <=> mark \in marked'
  BY DEF LineInv, MarksAreFresh
<1> QED
  BY <1>1, <1>2, SetsPreserves

(* Setting the address clears op_index and appends nothing.                  *)
LEMMA AddressPreserves ==
  ASSUME LineInv, NEW a \in SetAddresses, DW_LNE_set_address(a)
  PROVE  LineInv'
<1> DEFINE r == [state_machine EXCEPT !.address = a, !.op_index = 0]
<1>1. a \in Nat
  BY ProgramAssumption
<1>2. /\ r \in LineInfoEntry
      /\ r.end_sequence = state_machine.end_sequence
      /\ r.basic_block = state_machine.basic_block
      /\ r.prologue_end = state_machine.prologue_end
      /\ r.epilogue_begin = state_machine.epilogue_begin
  BY <1>1 DEF LineInv, TypeOK, LineInfoEntry
<1>3. Decodes /\ UNCHANGED marked /\ Sets(r)
  BY DEF DW_LNE_set_address
<1> HIDE DEF r
<1>4. \A mark \in Marks : r[mark] = state_machine[mark]
  BY <1>2 DEF Marks
<1> QED
  BY <1>2, <1>3, <1>4, RegisterPreserves

(* A discriminator is no mark.                                               *)
LEMMA DiscriminatorPreserves ==
  ASSUME LineInv, NEW d \in Discriminators, DW_LNE_set_discriminator(d)
  PROVE  LineInv'
<1> DEFINE r == [state_machine EXCEPT !.discriminator = d]
<1>1. d \in Nat
  BY ProgramAssumption
<1>2. /\ r \in LineInfoEntry
      /\ r.end_sequence = state_machine.end_sequence
      /\ r.basic_block = state_machine.basic_block
      /\ r.prologue_end = state_machine.prologue_end
      /\ r.epilogue_begin = state_machine.epilogue_begin
  BY <1>1 DEF LineInv, TypeOK, LineInfoEntry
<1>3. Decodes /\ UNCHANGED marked /\ Sets(r)
  BY DEF DW_LNE_set_discriminator
<1> HIDE DEF r
<1>4. \A mark \in Marks : r[mark] = state_machine[mark]
  BY <1>2 DEF Marks
<1> QED
  BY <1>2, <1>3, <1>4, RegisterPreserves

(* Nor is is_stmt.                                                           *)
LEMMA NegateStmtPreserves ==
  ASSUME LineInv, DW_LNS_negate_stmt
  PROVE  LineInv'
<1> DEFINE r == [state_machine EXCEPT !.is_stmt = ~@]
<1>1. /\ r \in LineInfoEntry
      /\ r.end_sequence = state_machine.end_sequence
      /\ r.basic_block = state_machine.basic_block
      /\ r.prologue_end = state_machine.prologue_end
      /\ r.epilogue_begin = state_machine.epilogue_begin
  BY DEF LineInv, TypeOK, LineInfoEntry
<1>2. Decodes /\ UNCHANGED marked /\ Sets(r)
  BY DEF DW_LNS_negate_stmt, Standard
<1> HIDE DEF r
<1>3. \A mark \in Marks : r[mark] = state_machine[mark]
  BY <1>1 DEF Marks
<1> QED
  BY <1>1, <1>2, <1>3, RegisterPreserves

(* A fixed advance moves the address without the operation index.            *)
LEMMA FixedAdvancePreserves ==
  ASSUME LineInv, NEW n \in FixedAdvances, DW_LNS_fixed_advance_pc(n)
  PROVE  LineInv'
<1> DEFINE address == state_machine.address + n
           r == [state_machine EXCEPT !.address = address, !.op_index = 0]
<1>1. address \in Nat
  <2>1. n \in Nat /\ state_machine.address \in Nat
    BY ProgramAssumption DEF LineInv, TypeOK, LineInfoEntry
  <2> QED
    BY <2>1
<1>2. Decodes /\ UNCHANGED marked /\ Sets(r)
  BY DEF DW_LNS_fixed_advance_pc, Standard
<1> HIDE DEF address
<1>3. /\ r \in LineInfoEntry
      /\ r.end_sequence = state_machine.end_sequence
      /\ r.basic_block = state_machine.basic_block
      /\ r.prologue_end = state_machine.prologue_end
      /\ r.epilogue_begin = state_machine.epilogue_begin
  BY <1>1 DEF LineInv, TypeOK, LineInfoEntry
<1> HIDE DEF r
<1>4. \A mark \in Marks : r[mark] = state_machine[mark]
  BY <1>3 DEF Marks
<1> QED
  BY <1>2, <1>3, <1>4, RegisterPreserves

(* Any advance, by as many operations as the opcode says, sets registers.    *)
LEMMA AdvancePcPreserves ==
  ASSUME LineInv, Decodes, UNCHANGED marked, NEW n \in Nat,
         Sets(state_machine_advance_pc(state_machine, n))
  PROVE  LineInv'
<1>1. state_machine \in LineInfoEntry
  BY DEF LineInv, TypeOK
<1> QED
  BY <1>1, AdvancedPc, RegisterPreserves

(* A line is advanced modulo LINE_MODULUS, and stays a line.                 *)
LEMMA AdvanceLinePreserves ==
  ASSUME LineInv, NEW n \in Increments, DW_LNS_advance_line(n)
  PROVE  LineInv'
<1>1. state_machine \in LineInfoEntry
  BY DEF LineInv, TypeOK
<1>2. n \in Int
  BY ProgramAssumption
<1>3. Decodes /\ UNCHANGED marked /\ Sets(advance_line(state_machine, n))
  BY DEF DW_LNS_advance_line, Standard
<1> QED
  BY <1>1, <1>2, <1>3, AdvancedLine, RegisterPreserves

(* A mark is put in the registers and counted as given.                      *)
LEMMA MarkPreserves ==
  ASSUME LineInv, NEW mark \in Marks, SetsMark(mark)
  PROVE  LineInv'
<1> DEFINE r == [state_machine EXCEPT ![mark] = TRUE]
<1>1. Decodes /\ Sets(r) /\ marked' = marked \cup {mark}
  BY DEF SetsMark, Standard
<1>2. /\ r \in LineInfoEntry
      /\ r.end_sequence = state_machine.end_sequence
      /\ \A other \in Marks : r[other] = IF other = mark THEN TRUE ELSE state_machine[other]
  <2>1. CASE mark = "basic_block"
    BY <2>1 DEF LineInv, TypeOK, LineInfoEntry, Marks
  <2>2. CASE mark = "prologue_end"
    BY <2>2 DEF LineInv, TypeOK, LineInfoEntry, Marks
  <2>3. CASE mark = "epilogue_begin"
    BY <2>3 DEF LineInv, TypeOK, LineInfoEntry, Marks
  <2> QED
    BY <2>1, <2>2, <2>3 DEF Marks
<1> HIDE DEF r
<1>3. marked' \subseteq Marks /\ ~r.end_sequence
  BY <1>1, <1>2 DEF LineInv, TypeOK
<1>4. \A other \in Marks : r[other] <=> other \in marked'
  BY <1>1, <1>2 DEF LineInv, MarksAreFresh
<1> QED
  BY <1>1, <1>2, <1>3, <1>4, SetsPreserves

(* How far DW_LNS_const_add_pc advances.                                     *)
LEMMA ConstAddIsNat == (255 - opcode_base) \div line_range \in Nat
<1>1. 255 - opcode_base \in Nat
  BY HeaderFacts
<1> QED
  BY <1>1, HeaderFacts, Division

(* The next unit starts with an empty table, and the finished one is closed. *)
LEMMA NextUnitPreserves ==
  ASSUME LineInv, NextUnit
  PROVE  LineInv'
<1>1. /\ comp_units' = Append(comp_units, line_info_table)
      /\ line_info_table' = << >>
      /\ state_machine' = reset_line_num_state_machine
      /\ marked' = {}
  BY DEF NextUnit
<1>2. /\ comp_units \in Seq(Table) /\ line_info_table \in Table
      /\ line_info_table' \in Table
  BY <1>1 DEF LineInv, TypeOK, Table
<1>3. comp_units' \in Seq(Table)
  BY <1>1, <1>2
<1>4. remaining' \in Nat
  <2>1. Len(comp_units') \in Nat
    BY <1>3
  <2>2. ProgramLengths \in Seq(Nat)
    BY ProgramAssumption
  <2>3. \A i \in Nat : i < Len(ProgramLengths) => ProgramLengths[i + 1] \in Nat
    BY <2>2
  <2> QED
    BY <2>1, <2>3 DEF NextUnit
<1>5. TypeOK'
  BY <1>1, <1>2, <1>3, <1>4, ResetRegisters DEF TypeOK, Table
<1>6. SequencesAreClosed'
  <2>1. Closed(<< >>)
    BY DEF Closed
  <2>2. \A i \in DOMAIN comp_units' :
          \/ comp_units'[i] = line_info_table
          \/ i \in DOMAIN comp_units /\ comp_units'[i] = comp_units[i]
    <3>1. /\ Len(comp_units) \in Nat
          /\ DOMAIN comp_units = 1..Len(comp_units)
          /\ DOMAIN comp_units' = 1..(Len(comp_units) + 1)
          /\ comp_units'[Len(comp_units) + 1] = line_info_table
      BY <1>1, <1>2
    <3>2. \A i \in 1..Len(comp_units) : comp_units'[i] = comp_units[i]
      BY <1>1, <1>2
    <3> QED
      BY <3>1, <3>2
  <2>3. Closed(line_info_table) /\ \A i \in DOMAIN comp_units : Closed(comp_units[i])
    BY DEF LineInv, SequencesAreClosed, Tables
  <2> QED
    BY <1>1, <2>1, <2>2, <2>3 DEF SequencesAreClosed, Tables
<1>7. ~state_machine'.end_sequence /\ MarksAreFresh'
  BY <1>1, ResetRegisters DEF MarksAreFresh
<1> QED
  BY <1>5, <1>6, <1>7 DEF LineInv

(* The decoder's invariant is inductive.                                     *)
LEMMA LineStep == LineInv /\ [Next]_vars => LineInv'
<1> SUFFICES ASSUME LineInv, [Next]_vars
             PROVE  LineInv'
  OBVIOUS
<1>1. CASE DW_LNE_end_sequence
  BY <1>1, EndSequencePreserves
<1>2. CASE \E a \in SetAddresses : DW_LNE_set_address(a)
  BY <1>2, AddressPreserves
<1>3. CASE \E d \in Discriminators : DW_LNE_set_discriminator(d)
  BY <1>3, DiscriminatorPreserves
<1>4. CASE DW_LNS_copy
  BY <1>4, CopyPreserves
<1>5. CASE \E n \in Advances : DW_LNS_advance_pc(n)
  <2>1. PICK n \in Advances : DW_LNS_advance_pc(n)
    BY <1>5
  <2>2. n \in Nat
    BY ProgramAssumption
  <2> QED
    BY <2>1, <2>2, AdvancePcPreserves DEF DW_LNS_advance_pc, Standard
<1>6. CASE \E n \in Increments : DW_LNS_advance_line(n)
  BY <1>6, AdvanceLinePreserves
<1>7. CASE DW_LNS_negate_stmt
  BY <1>7, NegateStmtPreserves
<1>8. CASE DW_LNS_const_add_pc
  BY <1>8, ConstAddIsNat, AdvancePcPreserves DEF DW_LNS_const_add_pc, Standard
<1>9. CASE OtherOpcode
  BY <1>9 DEF OtherOpcode, Decodes, LineInv, TypeOK, SequencesAreClosed, Tables, MarksAreFresh
<1>10. CASE \E n \in FixedAdvances : DW_LNS_fixed_advance_pc(n)
  BY <1>10, FixedAdvancePreserves
<1>11. CASE \E mark \in Marks : SetsMark(mark)
  BY <1>11, MarkPreserves
<1>12. CASE \E opcode \in SpecialOpcodes : Special(opcode)
  BY <1>12, SpecialPreserves
<1>13. CASE NextUnit
  BY <1>13, NextUnitPreserves
<1>14. CASE UNCHANGED vars
  BY <1>14 DEF vars, LineInv, TypeOK, SequencesAreClosed, Tables, MarksAreFresh
<1> QED
  BY <1>1, <1>2, <1>3, <1>4, <1>5, <1>6, <1>7, <1>8, <1>9, <1>10, <1>11, <1>12,
     <1>13, <1>14 DEF Next, Parsed

(* At the start there are no tables and no marks.                            *)
LEMMA LineInit == Init => LineInv
<1> SUFFICES ASSUME Init PROVE LineInv
  OBVIOUS
<1>1. ProgramLengths \in Seq(Nat)
  BY ProgramAssumption
<1>2. ProgramLengths # << >> => ProgramLengths[1] \in Nat
  BY <1>1
<1>3. remaining \in Nat
  BY <1>2 DEF Init
<1>4. TypeOK /\ ~state_machine.end_sequence /\ MarksAreFresh
  BY <1>3, ResetRegisters DEF Init, TypeOK, MarksAreFresh
<1>5. SequencesAreClosed
  BY DEF Init, SequencesAreClosed, Tables, Closed
<1> QED
  BY <1>4, <1>5 DEF LineInv

-----------------------------------------------------------------------------
(* Types, closed sequences and fresh marks, together.                        *)
THEOREM LineInvariant == Spec => []LineInv
BY LineInit, LineStep, PTL DEF Spec

(* Registers and tables have their types, whatever a program does to them.   *)
THEOREM LineTypeCorrect == Spec => []TypeOK
<1>1. LineInv => TypeOK
  BY DEF LineInv
<1> QED
  BY <1>1, LineInvariant, PTL

(* append_line_info_entry never adds a row behind the end of a sequence, and *)
(* no unit continues a sequence of the one before.                           *)
THEOREM ClosedSequences == Spec => []SequencesAreClosed
<1>1. LineInv => SequencesAreClosed
  BY DEF LineInv
<1> QED
  BY <1>1, LineInvariant, PTL

(* decode_line_num_prog hands no mark on from one row to the next.           *)
THEOREM FreshMarks == Spec => []MarksAreFresh
<1>1. LineInv => MarksAreFresh
  BY DEF LineInv
<1> QED
  BY <1>1, LineInvariant, PTL

-----------------------------------------------------------------------------
(* Rows ascend.  The rows of the open sequence are never past the registers, *)
(* which no opcode moves back but those that need an empty sequence.         *)

(* What the comment of append_line_info_entry takes for granted of programs: *)
(* addresses begin sequences, and an advance that restarts the operations of *)
(* an instruction leaves the instruction.                                    *)
Compiled ==
  /\ AddressFirst
  /\ minimum_instruction_length > 0
  /\ 0 \notin FixedAdvances

Behind(table, r) == \A j \in DOMAIN OpenRows(table) : AtMost(OpenRows(table)[j], r)

RowsInv == RowsAscend /\ Behind(line_info_table, state_machine)

(* Places in the program, by address and then operation index, are           *)
(* ordered.                                                                  *)
LEMMA AtMostTransitive ==
  ASSUME NEW p \in LineInfoEntry, NEW q \in LineInfoEntry, NEW r \in LineInfoEntry,
         AtMost(p, q), AtMost(q, r)
  PROVE  AtMost(p, r)
<1>1. /\ p.address \in Nat /\ q.address \in Nat /\ r.address \in Nat
      /\ p.op_index \in Nat /\ q.op_index \in Nat /\ r.op_index \in Nat
  BY DEF LineInfoEntry
<1> QED
  BY <1>1 DEF AtMost

(* Rows behind one register set are behind any further one.                  *)
LEMMA StillBehind ==
  ASSUME NEW t \in Table, NEW p \in LineInfoEntry, NEW q \in LineInfoEntry,
         Behind(t, p), AtMost(p, q)
  PROVE  Behind(t, q)
<1>1. OpenRows(t) \in Seq(LineInfoEntry)
  BY DEF OpenRows, Table
<1>2. ASSUME NEW j \in DOMAIN OpenRows(t)
      PROVE  AtMost(OpenRows(t)[j], q)
  <2>1. OpenRows(t)[j] \in LineInfoEntry
    BY <1>1
  <2> QED
    BY <2>1, AtMostTransitive DEF Behind
<1> QED
  BY <1>2 DEF Behind

(* Moving the registers forward, with the tables as they are.                *)
LEMMA SetsAscending ==
  ASSUME LineInv, RowsInv, Decodes, NEW r \in LineInfoEntry, Sets(r),
         AtMost(state_machine, r) \/ OpenSequenceIsEmpty
  PROVE  RowsInv'
<1>1. line_info_table \in Table /\ state_machine \in LineInfoEntry
  BY DEF LineInv, TypeOK, Table
<1>2. RowsAscend'
  BY DEF RowsInv, RowsAscend, Tables, Decodes, Sets
<1>3. Behind(line_info_table, r)
  <2>1. CASE AtMost(state_machine, r)
    BY <1>1, <2>1, StillBehind DEF RowsInv
  <2>2. CASE OpenSequenceIsEmpty
    <3>1. OpenRows(line_info_table) = << >>
      BY <2>2 DEF OpenSequenceIsEmpty, OpenRows
    <3> QED
      BY <3>1 DEF Behind
  <2> QED
    BY <2>1, <2>2
<1>4. Behind(line_info_table, state_machine)'
  BY <1>3 DEF Sets
<1> QED
  BY <1>2, <1>4 DEF RowsInv

(* A row at or past the registers ascends, and the registers stay at it.     *)
LEMMA AppendsAscending ==
  ASSUME LineInv, RowsInv, Decodes, NEW row \in LineInfoEntry, AppendsRow(row),
         AtMost(state_machine, row),
         row.end_sequence \/ /\ state_machine'.address = row.address
                             /\ state_machine'.op_index = row.op_index
  PROVE  RowsInv'
<1> DEFINE t == line_info_table
           n == OpenIndex(t)
           u == append_line_info_entry(t, row)
<1>1. t \in Table /\ state_machine \in LineInfoEntry /\ Ascending(t)
  BY DEF LineInv, TypeOK, Table, RowsInv, RowsAscend, Tables
<1>2. Behind(t, row)
  BY <1>1, StillBehind DEF RowsInv
<1>3. Ascending(u)
  BY <1>1, <1>2, AppendKeepsAscending DEF Behind
<1>4. line_info_table' = u
  BY DEF AppendsRow
<1>5. RowsAscend'
  BY <1>3, <1>4 DEF RowsInv, RowsAscend, Tables, Decodes
<1>6. /\ u \in Table
      /\ Len(u) = IF row.end_sequence THEN n + 1 ELSE n
      /\ n \in Nat \ {0}
      /\ OpenRows(t) \in Seq(LineInfoEntry)
      /\ u[n] = Append(OpenRows(t), row)
      /\ row.end_sequence => u[n + 1] = << >>
  BY <1>1, AppendedTable
<1>7. row.end_sequence \in BOOLEAN /\ row.address \in Nat /\ row.op_index \in Nat
  BY DEF LineInfoEntry
<1> HIDE DEF u, n, t
<1>8. u # << >>
  BY <1>6, <1>7 DEF Table
<1>9. OpenRows(u) = u[Len(u)]
  BY <1>8 DEF OpenRows
<1>10. Behind(u, state_machine')
  <2>1. CASE row.end_sequence
    <3>1. OpenRows(u) = << >>
      BY <1>6, <1>9, <2>1
    <3> QED
      BY <3>1 DEF Behind
  <2>2. CASE ~row.end_sequence
    <3>1. OpenRows(u) = Append(OpenRows(t), row)
      BY <1>6, <1>9, <2>2
    <3>2. ASSUME NEW j \in DOMAIN OpenRows(u)
          PROVE  AtMost(OpenRows(u)[j], row)
      <4>1. /\ DOMAIN OpenRows(t) = 1..Len(OpenRows(t)) /\ Len(OpenRows(t)) \in Nat
            /\ j \in 1..(Len(OpenRows(t)) + 1)
            /\ OpenRows(u)[j] = IF j = Len(OpenRows(t)) + 1 THEN row ELSE OpenRows(t)[j]
        BY <1>6, <3>1
      <4>2. AtMost(row, row)
        BY <1>7 DEF AtMost
      <4>3. \A k \in DOMAIN OpenRows(t) : AtMost(OpenRows(t)[k], row)
        BY <1>2 DEF Behind
      <4> QED
        BY <4>1, <4>2, <4>3
    <3>3. state_machine'.address = row.address /\ state_machine'.op_index = row.op_index
      BY <2>2
    <3> QED
      BY <3>2, <3>3 DEF Behind, AtMost
  <2> QED
    BY <1>7, <2>1, <2>2
<1> QED
  BY <1>4, <1>5, <1>10 DEF RowsInv, t

(* The steps of a compiled program keep rows ascending.                      *)
LEMMA RowsStep ==
  ASSUME Compiled, LineInv, RowsInv, [Next]_vars
  PROVE  RowsInv'
<1>0. /\ state_machine \in LineInfoEntry
      /\ state_machine.address \in Nat /\ state_machine.op_index \in Nat
  BY DEF LineInv, TypeOK, LineInfoEntry
<1>a. AtMost(state_machine, state_machine)
  BY <1>0 DEF AtMost
<1>1. CASE DW_LNE_end_sequence
  <2> DEFINE row == [state_machine EXCEPT !.end_sequence = TRUE]
  <2>1. /\ row \in LineInfoEntry /\ row.end_sequence
        /\ row.address = state_machine.address /\ row.op_index = state_machine.op_index
    BY <1>0 DEF LineInfoEntry
  <2>2. Decodes /\ AppendsRow(row)
    BY <1>1 DEF DW_LNE_end_sequence
  <2> HIDE DEF row
  <2>3. AtMost(state_machine, row)
    BY <1>0, <2>1 DEF AtMost
  <2> QED
    BY <2>1, <2>2, <2>3, AppendsAscending
<1>2. CASE \E a \in SetAddresses : DW_LNE_set_address(a)
  <2>1. PICK a \in SetAddresses : DW_LNE_set_address(a)
    BY <1>2
  <2>2. a \in Nat
    BY ProgramAssumption
  <2> DEFINE r == [state_machine EXCEPT !.address = a, !.op_index = 0]
  <2>3. r \in LineInfoEntry
    BY <1>0, <2>2 DEF LineInfoEntry
  <2>4. Decodes /\ Sets(r) /\ OpenSequenceIsEmpty
    BY <2>1 DEF DW_LNE_set_address, Compiled
  <2> HIDE DEF r
  <2> QED
    BY <2>3, <2>4, SetsAscending
<1>3. CASE \E d \in Discriminators : DW_LNE_set_discriminator(d)
  <2>1. PICK d \in Discriminators : DW_LNE_set_discriminator(d)
    BY <1>3
  <2>2. d \in Nat
    BY ProgramAssumption
  <2> DEFINE r == [state_machine EXCEPT !.discriminator = d]
  <2>3. /\ r \in LineInfoEntry
        /\ r.address = state_machine.address /\ r.op_index = state_machine.op_index
    BY <1>0, <2>2 DEF LineInfoEntry
  <2>4. Decodes /\ Sets(r)
    BY <2>1 DEF DW_LNE_set_discriminator
  <2> HIDE DEF r
  <2>5. AtMost(state_machine, r)
    BY <1>0, <2>3 DEF AtMost
  <2> QED
    BY <2>3, <2>4, <2>5, SetsAscending
<1>4. CASE DW_LNS_copy
  <2>1. /\ Decodes /\ AppendsRow(state_machine)
        /\ state_machine' = ForgetMarks(state_machine)
    BY <1>4 DEF DW_LNS_copy, Standard
  <2> QED
    BY <1>0, <1>a, <2>1, ForgottenMarks, AppendsAscending
<1>5. CASE \/ \E n \in Advances : DW_LNS_advance_pc(n)
           \/ DW_LNS_const_add_pc
  <2>1. \A n \in Advances : n \in Nat
    BY ProgramAssumption
  <2>2. PICK n \in Nat : Decodes /\ Sets(state_machine_advance_pc(state_machine, n))
    BY <1>5, <2>1, ConstAddIsNat DEF DW_LNS_advance_pc, DW_LNS_const_add_pc, Standard
  <2> DEFINE r == state_machine_advance_pc(state_machine, n)
  <2>3. r \in LineInfoEntry /\ AtMost(state_machine, r)
    BY <1>0, AdvancedPc DEF Compiled
  <2> QED
    BY <2>2, <2>3, SetsAscending
<1>6. CASE \E n \in Increments : DW_LNS_advance_line(n)
  <2>1. PICK n \in Increments : DW_LNS_advance_line(n)
    BY <1>6
  <2>2. n \in Int
    BY ProgramAssumption
  <2> DEFINE r == advance_line(state_machine, n)
  <2>3. /\ r \in LineInfoEntry
        /\ r.address = state_machine.address /\ r.op_index = state_machine.op_index
    BY <1>0, <2>2, AdvancedLine
  <2>4. Decodes /\ Sets(r)
    BY <2>1 DEF DW_LNS_advance_line, Standard
  <2> HIDE DEF r
  <2>5. AtMost(state_machine, r)
    BY <1>0, <2>3 DEF AtMost
  <2> QED
    BY <2>3, <2>4, <2>5, SetsAscending
<1>7. CASE DW_LNS_negate_stmt
  <2> DEFINE r == [state_machine EXCEPT !.is_stmt = ~@]
  <2>1. /\ r \in LineInfoEntry
        /\ r.address = state_machine.address /\ r.op_index = state_machine.op_index
    BY <1>0 DEF LineInfoEntry
  <2>2. Decodes /\ Sets(r)
    BY <1>7 DEF DW_LNS_negate_stmt, Standard
  <2> HIDE DEF r
  <2>3. AtMost(state_machine, r)
    BY <1>0, <2>1 DEF AtMost
  <2> QED
    BY <2>1, <2>2, <2>3, SetsAscending
<1>8. CASE \E n \in FixedAdvances : DW_LNS_fixed_advance_pc(n)
  <2>1. PICK n \in FixedAdvances : DW_LNS_fixed_advance_pc(n)
    BY <1>8
  <2>2. n \in Nat /\ n # 0
    BY ProgramAssumption DEF Compiled
  <2> DEFINE address == state_machine.address + n
             r == [state_machine EXCEPT !.address = address, !.op_index = 0]
  <2>3. address \in Nat /\ state_machine.address < address
    BY <1>0, <2>2
  <2>4. Decodes /\ Sets(r)
    BY <2>1 DEF DW_LNS_fixed_advance_pc, Standard
  <2> HIDE DEF address
  <2>5. r \in LineInfoEntry /\ r.address = address
    BY <1>0, <2>3 DEF LineInfoEntry
  <2> HIDE DEF r
  <2>6. AtMost(state_machine, r)
    BY <2>3, <2>5 DEF AtMost
  <2> QED
    BY <2>4, <2>5, <2>6, SetsAscending
<1>9. CASE \E mark \in Marks : SetsMark(mark)
  <2>1. PICK mark \in Marks : SetsMark(mark)
    BY <1>9
  <2> DEFINE r == [state_machine EXCEPT ![mark] = TRUE]
  <2>2. /\ r \in LineInfoEntry
        /\ r.address = state_machine.address /\ r.op_index = state_machine.op_index
    <3>1. CASE mark = "basic_block"
      BY <1>0, <3>1 DEF LineInfoEntry
    <3>2. CASE mark = "prologue_end"
      BY <1>0, <3>2 DEF LineInfoEntry
    <3>3. CASE mark = "epilogue_begin"
      BY <1>0, <3>3 DEF LineInfoEntry
    <3> QED
      BY <3>1, <3>2, <3>3 DEF Marks
  <2>3. Decodes /\ Sets(r)
    BY <2>1 DEF SetsMark, Standard
  <2> HIDE DEF r
  <2>4. AtMost(state_machine, r)
    BY <1>0, <2>2 DEF AtMost
  <2> QED
    BY <2>2, <2>3, <2>4, SetsAscending
<1>10. CASE \E opcode \in SpecialOpcodes : Special(opcode)
  <2>1. PICK opcode \in SpecialOpcodes : Special(opcode)
    BY <1>10
  <2> DEFINE row == SpecialRow(state_machine, opcode)
  <2>2. row \in LineInfoEntry /\ AtMost(state_machine, row)
    BY <1>0, SpecialRowFacts DEF Compiled
  <2>3. Decodes /\ AppendsRow(row) /\ state_machine' = ForgetMarks(row)
    BY <2>1 DEF Special
  <2> HIDE DEF row
  <2> QED
    BY <2>2, <2>3, ForgottenMarks, AppendsAscending
<1>11. CASE NextUnit
  <2>1. /\ comp_units' = Append(comp_units, line_info_table)
        /\ line_info_table' = << >>
    BY <1>11 DEF NextUnit
  <2>2. comp_units \in Seq(Table)
    BY DEF LineInv, TypeOK, Table
  <2>3. \A i \in DOMAIN comp_units' :
          \/ comp_units'[i] = line_info_table
          \/ i \in DOMAIN comp_units /\ comp_units'[i] = comp_units[i]
    <3>1. /\ Len(comp_units) \in Nat
          /\ DOMAIN comp_units = 1..Len(comp_units)
          /\ DOMAIN comp_units' = 1..(Len(comp_units) + 1)
          /\ comp_units'[Len(comp_units) + 1] = line_info_table
      BY <2>1, <2>2
    <3>2. \A i \in 1..Len(comp_units) : comp_units'[i] = comp_units[i]
      BY <2>1, <2>2
    <3> QED
      BY <3>1, <3>2
  <2>4. Ascending(line_info_table) /\ \A i \in DOMAIN comp_units : Ascending(comp_units[i])
    BY DEF RowsInv, RowsAscend, Tables
  <2>5. Ascending(<< >>) /\ OpenRows(<< >>) = << >>
    BY DEF Ascending, OpenRows
  <2>6. RowsAscend'
    BY <2>1, <2>3, <2>4, <2>5 DEF RowsAscend, Tables
  <2>7. Behind(line_info_table, state_machine)'
    BY <2>1, <2>5 DEF Behind
  <2> QED
    BY <2>6, <2>7 DEF RowsInv
<1>12. CASE OtherOpcode \/ UNCHANGED vars
  BY <1>12 DEF OtherOpcode, Decodes, vars, RowsInv, RowsAscend, Tables
<1> QED
  BY <1>1, <1>2, <1>3, <1>4, <1>5, <1>6, <1>7, <1>8, <1>9, <1>10, <1>11, <1>12
     DEF Next, Parsed

(* The rows of every sequence ascend in the operation pointer, as the comment*)
(* of append_line_info_entry says they must.                                 *)
THEOREM AscendingRows ==
  ASSUME Compiled
  PROVE  Spec => []RowsAscend
<1>1. Init => RowsInv
  BY DEF Init, RowsInv, RowsAscend, Tables, Ascending, Behind, OpenRows
<1>2. LineInv /\ RowsInv /\ [Next]_vars => RowsInv'
  BY RowsStep
<1>3. RowsInv => RowsAscend
  BY DEF RowsInv
<1> QED
  BY <1>1, <1>2, <1>3, LineInvariant, PTL DEF Spec

-----------------------------------------------------------------------------
(* Special opcodes.                                                          *)

(* The operation pointer of a row, in operations.                            *)
Pointer(r) ==
  (r.address \div minimum_instruction_length) * maximum_operations_per_instruction
    + r.op_index

(* From the beginning of an instruction's bytes, advancing by operations     *)
(* advances the operation pointer by as many.                                *)
LEMMA PointerAdvances ==
  ASSUME NEW r \in LineInfoEntry, NEW op_advance \in Nat,
         minimum_instruction_length > 0, r.address % minimum_instruction_length = 0
  PROVE  Pointer(state_machine_advance_pc(r, op_advance)) = Pointer(r) + op_advance
<1> DEFINE mil == minimum_instruction_length
           m == maximum_operations_per_instruction
           ops == r.op_index + op_advance
           first == r.address \div mil
           q == state_machine_advance_pc(r, op_advance)
<1>1. /\ mil \in Nat /\ mil > 0 /\ m \in Nat /\ m > 0
      /\ r.address \in Int /\ r.op_index \in Int /\ ops \in Int
  BY HeaderFacts DEF LineInfoEntry
<1>2. q = [r EXCEPT !.address = @ + mil * (ops \div m), !.op_index = ops % m]
  BY DEF state_machine_advance_pc
<1>3. first \in Int /\ r.address = mil * first
  BY <1>1, QuotientAndRemainder
<1>4. (ops \div m) \in Int /\ ops = m * (ops \div m) + (ops % m) /\ ops % m \in Int
  <2> HIDE DEF ops, m
  <2>1. /\ ops \div m \in Int /\ ops % m \in 0..(m - 1)
        /\ ops = m * (ops \div m) + (ops % m)
    BY <1>1, QuotientAndRemainder
  <2> QED
    BY <1>1, <2>1
<1>5. q.address = r.address + mil * (ops \div m) /\ q.op_index = ops % m
  BY <1>2 DEF LineInfoEntry
<1> HIDE DEF q, mil, m
<1>6. q.address \div mil = first + (ops \div m)
  <2> DEFINE n == first + (ops \div m)
  <2>1. n \in Int /\ 0 \in 0..(mil - 1)
    BY <1>1, <1>3, <1>4
  <2>2. q.address = mil * n + 0
    BY <1>1, <1>3, <1>4, <1>5
  <2> HIDE DEF n
  <2>3. (mil * n + 0) \div mil = n
    BY <1>1, <2>1, QuotientIsUnique
  <2> QED
    BY <2>2, <2>3 DEF n
<1>7. Pointer(q) = (first + (ops \div m)) * m + (ops % m)
  BY <1>5, <1>6 DEF Pointer, mil, m
<1>8. Pointer(r) = first * m + r.op_index
  BY DEF Pointer, mil, m
<1> HIDE DEF first
<1>9. (first + (ops \div m)) * m + (ops % m) = first * m + ops
  BY <1>1, <1>3, <1>4
<1>10. first * m \in Int
  BY <1>1, <1>3
<1> QED
  BY <1>1, <1>7, <1>8, <1>9, <1>10 DEF q

(* The increment of a line can be read off the line it led to, in 32 bits.   *)
LEMMA IncrementIsKept ==
  ASSUME NEW line \in Int, NEW k \in 0..(LINE_MODULUS - 1)
  PROVE  (((line + (line_base + k)) % LINE_MODULUS) - line - line_base) % LINE_MODULUS = k
<1> DEFINE M == LINE_MODULUS
           x == line + (line_base + k)
           d == x \div M
<1>1. M \in Nat /\ M > 0 /\ line_base \in Int /\ x \in Int /\ k \in Int
  BY HeaderFacts
<1>2. d \in Int /\ x % M \in Int /\ x = M * d + (x % M)
  BY <1>1, QuotientAndRemainder
<1>3. (x % M) - line - line_base = M * (-d) + k
  <2>1. M * (-d) = -(M * d) /\ M * d \in Int
    BY <1>1, <1>2
  <2> HIDE DEF d, M
  <2> QED
    BY <1>1, <1>2, <2>1
<1>4. (M * (-d) + k) % M = k
  <2>1. -d \in Int /\ k \in 0..(M - 1)
    BY <1>2
  <2> HIDE DEF d, M, x
  <2> QED
    BY <1>1, <2>1, QuotientIsUnique
<1> HIDE DEF x, d
<1> QED
  BY <1>3, <1>4 DEF x

(* Every special opcode that a compiler can choose means, to the decoder,    *)
(* the advance of the line and of the operation pointer it was chosen for,   *)
(* whatever the header's parameters and the registers are.                   *)
THEOREM SpecialOpcodesInvert ==
  ASSUME minimum_instruction_length > 0, line_range <= LINE_MODULUS
  PROVE  Spec => []SpecialInvertsChoice
<1>1. ASSUME TypeOK, state_machine.address % minimum_instruction_length = 0,
             NEW opcode \in SpecialOpcodes
      PROVE  LET row == SpecialRow(state_machine, opcode)
                 increment == (row.line - state_machine.line - line_base) % LINE_MODULUS
                 op_advance == Pointer(row) - Pointer(state_machine)
             IN  /\ increment < line_range
                 /\ opcode = increment + line_range * op_advance + opcode_base
  <2> DEFINE r == state_machine
             adjusted == opcode - opcode_base
             k == adjusted % line_range
             n == adjusted \div line_range
             p == advance_line(r, line_base + k)
             row == SpecialRow(r, opcode)
             increment == (row.line - r.line - line_base) % LINE_MODULUS
  <2>1. r \in LineInfoEntry /\ r.line \in Int /\ line_range \in Nat /\ line_range > 0
          /\ opcode_base \in Int /\ adjusted \in Nat /\ opcode \in Int
    <3>1. opcode \in opcode_base..255
      BY ProgramAssumption
    <3>2. r \in LineInfoEntry
      BY <1>1 DEF TypeOK
    <3>3. r.line \in Int
      BY <3>2 DEF LineInfoEntry
    <3> QED
      BY <3>1, <3>2, <3>3, HeaderFacts
  <2>2. k \in 0..(line_range - 1) /\ n \in Nat /\ adjusted = line_range * n + k
    <3>1. n \in Nat
      BY <2>1, Division
    <3> QED
      BY <2>1, <3>1, QuotientAndRemainder
  <2>3. row = state_machine_advance_pc(p, n)
    BY DEF SpecialRow
  <2>4. line_base + k \in Int
    BY <2>2, HeaderFacts
  <2>5. p \in LineInfoEntry /\ p.address = r.address /\ p.op_index = r.op_index
    BY <2>1, <2>4, AdvancedLine
  <2>6. p.line = (r.line + (line_base + k)) % LINE_MODULUS
    BY <2>1 DEF advance_line, LineInfoEntry
  <2>7. row.line = p.line
    BY <2>3, <2>5 DEF state_machine_advance_pc, LineInfoEntry
  <2>8. increment = k
    <3>1. k \in 0..(LINE_MODULUS - 1)
      BY <2>1, <2>2, HeaderFacts
    <3> HIDE DEF k
    <3> QED
      BY <2>1, <2>6, <2>7, <3>1, IncrementIsKept
  <2>9. Pointer(row) = Pointer(r) + n /\ Pointer(r) \in Int
    <3>1. Pointer(p) = Pointer(r)
      BY <2>5 DEF Pointer
    <3>2. Pointer(row) = Pointer(p) + n
      BY <1>1, <2>2, <2>3, <2>5, PointerAdvances
    <3>3. Pointer(r) \in Int
      <4>1. r.address \div minimum_instruction_length \in Int
        BY <2>1, HeaderFacts, QuotientAndRemainder DEF LineInfoEntry
      <4> QED
        BY <2>1, <4>1, HeaderFacts DEF Pointer, LineInfoEntry
    <3> QED
      BY <3>1, <3>2, <3>3
  <2> HIDE DEF k, n, p, row, increment
  <2>10. Pointer(row) - Pointer(r) = n
    BY <2>2, <2>9
  <2>11. line_range * n \in Int
    BY <2>1, <2>2
  <2>12. increment < line_range /\ opcode = increment + line_range * n + opcode_base
    BY <2>1, <2>2, <2>8, <2>11
  <2> QED
    BY <2>10, <2>12 DEF row, increment
<1>2. TypeOK => SpecialInvertsChoice
  BY <1>1 DEF SpecialInvertsChoice, Pointer
<1> QED
  BY <1>2, LineTypeCorrect, PTL
===============================================================================
