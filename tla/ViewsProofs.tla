----------------------------- MODULE ViewsProofs -----------------------------
(***************************************************************************)
(* Theorems about Views, for every program and whatever is toggled: the    *)
(* tables stay intact when they are edited from the windows, the marks of  *)
(* the two windows agree, the instructions of the selected line are shown, *)
(* and the space bar changes the mark of the selected row.                 *)
(***************************************************************************)
EXTENDS Views, TuiProofs, BreakpointsProofs

-----------------------------------------------------------------------------
(* Disassembly.                                                              *)

(* The addresses from one to another are finitely many integers.             *)
LEMMA DecodableIsBounded ==
  ASSUME NEW start_addr \in Int, NEW end_addr \in Int
  PROVE  /\ Decodable(start_addr, end_addr) \in SUBSET (Text \cup Outside)
         /\ end_addr - 1 \in Int
         /\ Decodable(start_addr, end_addr) \in SUBSET (start_addr..(end_addr - 1))
<1>1. Text \cup Outside \subseteq Int
  BY BreakpointsAssumption, ViewsAssumption
<1>2. ASSUME NEW a \in Decodable(start_addr, end_addr)
      PROVE  a \in Text \cup Outside /\ a \in start_addr..(end_addr - 1)
  <2>1. a \in Text \cup Outside /\ start_addr <= a /\ a < end_addr
    BY DEF Decodable
  <2> QED
    BY <1>1, <2>1
<1> QED
  BY <1>2

(* The disassembly of a stretch of code is in ascending order and leaves none*)
(* of its addresses out.                                                     *)
LEMMA DisassembledFacts ==
  ASSUME NEW start_addr \in Int, NEW end_addr \in Int
  PROVE  LET code == Decodable(start_addr, end_addr)
             addresses == Disassembled(start_addr, end_addr)
         IN  /\ addresses \in Seq(Text \cup Outside) /\ IsAscending(addresses)
             /\ \A i \in DOMAIN addresses : addresses[i] \in code
             /\ \A a \in code : \E i \in DOMAIN addresses : addresses[i] = a
<1> DEFINE code == Decodable(start_addr, end_addr)
           addresses == Disassembled(start_addr, end_addr)
<1>1. /\ code \in SUBSET (Text \cup Outside) /\ end_addr - 1 \in Int
      /\ code \in SUBSET (start_addr..(end_addr - 1))
  BY DecodableIsBounded
<1>2. addresses = CHOOSE s \in [1..Cardinality(code) -> code] : IsAscending(s)
  BY DEF Disassembled, IsAscending
<1> HIDE DEF code, addresses
<1>3. Cardinality(code) \in Nat /\ \E s \in [1..Cardinality(code) -> code] : IsAscending(s)
  BY <1>1, ListedInOrder
<1>4. addresses \in [1..Cardinality(code) -> code] /\ IsAscending(addresses)
  BY <1>2, <1>3
<1>5. IsFiniteSet(code) /\ code \subseteq Int
  <2>1. IsFiniteSet(start_addr..(end_addr - 1))
    BY <1>1, FS_Interval
  <2>2. IsFiniteSet(code)
    BY <1>1, <2>1, FS_Subset
  <2> QED
    BY <1>1, <2>2, BreakpointsAssumption, ViewsAssumption
<1>6. \A a \in code : \E i \in DOMAIN addresses : addresses[i] = a
  BY <1>4, <1>5, AscendingListsAll
<1>7. \A i \in DOMAIN addresses : addresses[i] \in code
  BY <1>4
<1>8. addresses \in Seq(Text \cup Outside)
  <2>1. addresses \in [1..Cardinality(code) -> Text \cup Outside]
    BY <1>1, <1>4
  <2> QED
    BY <1>3, <2>1, SeqDef
<1> QED
  BY <1>4, <1>6, <1>7, <1>8 DEF code, addresses

CodeOf(sequence) == Disassembled(sequence[1].address, Last(sequence).address)

(* What the buffer is after a sequence, from what it was before it.          *)
Written(cu, buffer, i) ==
  IF i = 0 THEN << >>
  ELSE IF LineInfo[cu][i] = << >> THEN buffer[i - 1]
  ELSE Write(buffer[i - 1], CodeOf(LineInfo[cu][i]))

(* The buffers that are made one after the other, sequence by sequence,      *)
(* exist, and the disassembly is the last of them.                           *)
LEMMA BuffersAreWritten ==
  ASSUME NEW cu \in CompUnits
  PROVE  \E buffer :
           /\ get_assembly_buffer(cu) = buffer[Len(LineInfo[cu])]
           /\ \A i \in 0..Len(LineInfo[cu]) : buffer[i] = Written(cu, buffer, i)
<1> DEFINE last == Len(LineInfo[cu])
           IsMade(f, n) == f = [i \in 0..n |-> Written(cu, f, i)]
           made == CHOOSE buffer : buffer = [i \in 0..last |->
                     IF i = 0 THEN << >>
                     ELSE IF LineInfo[cu][i] = << >> THEN buffer[i - 1]
                     ELSE Write(buffer[i - 1], CodeOf(LineInfo[cu][i]))]
<1>1. get_assembly_buffer(cu) = made[last]
  BY DEF get_assembly_buffer, CodeOf
<1>2. last \in Nat
  BY BreakpointsAssumption
<1> HIDE DEF last
<1>3. \E f : IsMade(f, last)
  <2> DEFINE T == {n \in 0..last : ~ \E f : IsMade(f, n)}
  <2> SUFFICES ASSUME T # {} PROVE FALSE
    BY <1>2
  <2>0. T \in SUBSET Nat /\ T # {}
    BY <1>2
  <2> HIDE DEF T
  <2>1. PICK m \in T : \A n \in T : m <= n
    BY <2>0, LeastNatural
  <2>2. m \in 0..last /\ ~ \E f : IsMade(f, m)
    BY DEF T
  <2>3. CASE m = 0
    <3> DEFINE f == [i \in 0..0 |-> << >>]
    <3>1. \A i \in 0..0 : Written(cu, f, i) = << >>
      BY DEF Written
    <3>2. IsMade(f, 0)
      BY <3>1
    <3> QED
      BY <2>2, <2>3, <3>2
  <2>4. CASE m # 0
    <3>1. m - 1 \in 0..last
      BY <1>2, <2>2, <2>4
    <3>2. m - 1 \notin T
      BY <1>2, <2>1, <2>2, <2>4
    <3>3. PICK f : IsMade(f, m - 1)
      BY <3>1, <3>2 DEF T
    <3> DEFINE g == [i \in 0..m |-> IF i < m THEN f[i] ELSE Written(cu, f, m)]
    <3>4. \A i \in 0..m : g[i] = Written(cu, g, i)
      <4> TAKE i \in 0..m
      <4>1. CASE i < m
        <5>1. i \in 0..(m - 1) /\ g[i] = f[i]
          BY <2>2, <4>1
        <5>2. f[i] = Written(cu, f, i)
          BY <3>3, <5>1
        <5>3. i # 0 => g[i - 1] = f[i - 1]
          BY <1>2, <2>2, <4>1
        <5> QED
          BY <5>1, <5>2, <5>3 DEF Written
      <4>2. CASE i = m
        <5>1. g[m] = Written(cu, f, m) /\ g[m - 1] = f[m - 1]
          BY <2>2, <2>4
        <5> QED
          BY <2>4, <4>2, <5>1 DEF Written
      <4> QED
        BY <2>2, <4>1, <4>2
    <3>5. IsMade(g, m)
      BY <3>4
    <3> QED
      BY <2>2, <3>5
  <2> QED
    BY <2>3, <2>4
<1>4. IsMade(made, last)
  BY <1>3 DEF Written
<1> HIDE DEF made
<1>5. \A i \in 0..last : made[i] = Written(cu, made, i)
  BY <1>4
<1> QED
  BY <1>1, <1>5 DEF last

(* A sequence with entries begins and ends at addresses.                     *)
LEMMA EntriesHaveAddresses ==
  ASSUME NEW cu \in CompUnits, NEW i \in 1..Len(LineInfo[cu])
  PROVE  /\ LineInfo[cu] \in Seq(Seq(LineInfoEntry))
         /\ LineInfo[cu][i] \in Seq(LineInfoEntry)
         /\ \A k \in DOMAIN LineInfo[cu][i] : LineInfo[cu][i][k] \in LineInfoEntry
         /\ LineInfo[cu][i] # << >> =>
              /\ LineInfo[cu][i][1].address \in Int
              /\ Last(LineInfo[cu][i]).address \in Int
<1> DEFINE sequence == LineInfo[cu][i]
<1>1. LineInfo[cu] \in Seq(Seq(LineInfoEntry))
  BY BreakpointsAssumption
<1>2. sequence \in Seq(LineInfoEntry)
  BY <1>1
<1> HIDE DEF sequence
<1>3. \A k \in DOMAIN sequence : sequence[k] \in LineInfoEntry
  BY <1>2
<1>4. ASSUME sequence # << >>
      PROVE  sequence[1].address \in Int /\ Last(sequence).address \in Int
  <2>1. 1 \in DOMAIN sequence /\ Len(sequence) \in DOMAIN sequence
    BY <1>2, <1>4
  <2>2. sequence[1] \in LineInfoEntry /\ sequence[Len(sequence)] \in LineInfoEntry
    BY <1>3, <2>1
  <2> QED
    BY <2>2 DEF Last, LineInfoEntry
<1> QED
  BY <1>1, <1>2, <1>3, <1>4 DEF sequence

(* A disassembly is of instructions, in ascending order.                     *)
LEMMA DisassemblyAscends ==
  ASSUME NEW cu \in CompUnits
  PROVE  get_assembly_buffer(cu) \in Seq(Text \cup Outside) /\ IsAscending(get_assembly_buffer(cu))
<1> DEFINE last == Len(LineInfo[cu])
<1>1. PICK buffer :
        /\ get_assembly_buffer(cu) = buffer[last]
        /\ \A i \in 0..last : buffer[i] = Written(cu, buffer, i)
  BY BuffersAreWritten
<1>2. last \in Nat
  BY BreakpointsAssumption
<1> DEFINE Listing(s) == s \in Seq(Text \cup Outside) /\ IsAscending(s)
           T == {i \in 0..last : ~Listing(buffer[i])}
<1>3. T = {}
  <2> SUFFICES ASSUME T # {} PROVE FALSE
    OBVIOUS
  <2>0. T \in SUBSET Nat /\ T # {}
    BY <1>2
  <2> HIDE DEF T
  <2>1. PICK m \in T : \A n \in T : m <= n
    BY <2>0, LeastNatural
  <2>2. m \in 0..last /\ ~Listing(buffer[m])
    BY DEF T
  <2>3. m # 0 => Listing(buffer[m - 1])
    <3>1. m # 0 => m - 1 \in 0..last /\ ~(m <= m - 1)
      BY <1>2, <2>2
    <3> QED
      BY <2>1, <3>1 DEF T
  <2>4. buffer[m] = Written(cu, buffer, m)
    BY <1>1, <2>2
  <2>5. Listing(<< >>)
    BY DEF IsAscending
  <2> HIDE DEF Listing
  <2>6. CASE m = 0
    BY <2>2, <2>4, <2>5, <2>6 DEF Written
  <2>7. CASE m # 0 /\ LineInfo[cu][m] = << >>
    BY <2>2, <2>3, <2>4, <2>7 DEF Written
  <2>8. CASE m # 0 /\ LineInfo[cu][m] # << >>
    <3>1. m \in 1..Len(LineInfo[cu])
      BY <1>2, <2>2, <2>8
    <3>2. LineInfo[cu][m][1].address \in Int /\ Last(LineInfo[cu][m]).address \in Int
      BY <2>8, <3>1, EntriesHaveAddresses
    <3>3. Listing(CodeOf(LineInfo[cu][m]))
      BY <3>2, DisassembledFacts DEF CodeOf, Listing
    <3>4. buffer[m] = Write(buffer[m - 1], CodeOf(LineInfo[cu][m]))
      BY <2>4, <2>8 DEF Written
    <3> QED
      BY <2>2, <2>3, <2>8, <3>3, <3>4 DEF Write
  <2> QED
    BY <2>6, <2>7, <2>8
<1> QED
  BY <1>1, <1>2, <1>3

-----------------------------------------------------------------------------
(* The tables, edited from the windows.                                      *)

(* The command that toggles an instruction names the row that is selected.   *)
LEMMA InstructionIsNamed ==
  ASSUME TuiInv, ToggleBreakpoint, focused_win = WIN_ASSEMBLY, outcome' # "segv"
  PROVE  /\ command' = [type |-> "CMD_TOGGLE_BREAKPOINT",
                        instruction |-> <<assembly_unit, buffers[WIN_ASSEMBLY].selected_line>>]
         /\ assembly_unit \in CompUnits
         /\ buffers[WIN_ASSEMBLY].line_count = Len(get_assembly_buffer(assembly_unit))
         /\ buffers[WIN_ASSEMBLY].selected_line \in Nat
         /\ buffers[WIN_ASSEMBLY].selected_line + 1 \in DOMAIN get_assembly_buffer(assembly_unit)
<1> DEFINE b == buffers[WIN_ASSEMBLY]
           shown == get_assembly_buffer(assembly_unit)
<1>1. /\ command' = [type |-> "CMD_TOGGLE_BREAKPOINT",
                     instruction |-> <<assembly_unit, b.selected_line>>]
      /\ b.selected_line < b.line_count
  BY DEF ToggleBreakpoint, WIN_SOURCE, WIN_ASSEMBLY
<1>2. b.selected_line \in Nat /\ b.line_count \in Nat
  BY Sizes DEF TuiInv, TypeOK, Line
<1>3. assembly_unit # None
  BY <1>1, <1>2 DEF TuiInv, CountsInv
<1>4. assembly_unit \in CompUnits /\ b.line_count = Units[assembly_unit + 1].instructions
  BY <1>3, ViewsAssumption DEF TuiInv, TypeOK, CountsInv
<1>5. b.line_count = Len(shown) /\ shown \in Seq(Text \cup Outside)
  BY <1>4, ViewsAssumption, DisassemblyAscends
<1> HIDE DEF b, shown
<1>6. b.selected_line + 1 \in DOMAIN shown
  BY <1>1, <1>2, <1>5
<1> QED
  BY <1>1, <1>2, <1>4, <1>5, <1>6 DEF b, shown

(* A line that is found is one of a unit.                                    *)
LEMMA LinesAreOfUnits ==
  ASSUME TuiInv, ToggleBreakpoint,
         command'.type = "CMD_TOGGLE_SOURCE_BREAKPOINT",
         LookupOutcome(command'.comp_unit_index, command'.line_num) = "ok"
  PROVE  command'.comp_unit_index \in CompUnits /\ command'.line_num \in Lines
<1> DEFINE unit == selected_comp_unit_index
           line_num == SizeT(buffers[WIN_SOURCE].selected_line + 1)
<1>1. focused_win = WIN_SOURCE
  BY DEF ToggleBreakpoint, CMD_NONE
<1>2. command' = [type |-> "CMD_TOGGLE_SOURCE_BREAKPOINT",
                  comp_unit_index |-> unit, line_num |-> line_num]
  BY <1>1 DEF ToggleBreakpoint, WIN_SOURCE, WIN_ASSEMBLY
<1>3. unit \in Nat /\ buffers[WIN_SOURCE].selected_line \in Nat
  BY Sizes DEF TuiInv, TypeOK, Line
<1>4. line_num \in 0..(SIZE_MODULUS - 1)
  BY <1>3, Sizes DEF SizeT
<1> HIDE DEF line_num, unit
<1>5. LookupOutcome(unit, line_num) = "ok"
  BY <1>2
<1>6. line_num # 0 /\ ~(unit >= Len(Units))
  BY <1>5 DEF LookupOutcome
<1>7. unit \in CompUnits /\ line_num \in Lines
  BY <1>3, <1>4, <1>6, Sizes, ViewsAssumption DEF unit
<1> QED
  BY <1>2, <1>7

(* An address whose breakpoint is toggled is one of .text.                   *)
LEMMA ToggledIsText ==
  ASSUME BreakpointsTypeOK, NEW a, toggle_breakpoint(a)
  PROVE  a \in Text
<1>1. Addresses \subseteq Text
  <2>1. \A i \in DOMAIN breakpoints : breakpoints[i] \in Breakpoint
    BY DEF BreakpointsTypeOK
  <2> QED
    BY <2>1 DEF Addresses, Breakpoint
<1> QED
  BY <1>1 DEF toggle_breakpoint, add_breakpoint

(* A toggle, if any, is one the tables allow.                                *)
LEMMA TogglesAreOfTables ==
  ASSUME TuiInv, BreakpointsTypeOK, Toggle
  PROVE  BreakpointsNext \/ UNCHANGED tables
<1>1. ToggleBreakpoint
  BY DEF Toggle
<1>2. CASE /\ command'.type = "CMD_TOGGLE_SOURCE_BREAKPOINT"
           /\ LookupOutcome(command'.comp_unit_index, command'.line_num) = "ok"
  <2>1. ExecuteSource(command'.comp_unit_index, command'.line_num)
    BY <1>2 DEF Toggle
  <2>2. command'.comp_unit_index \in CompUnits /\ command'.line_num \in Lines
    BY <1>1, <1>2, LinesAreOfUnits
  <2>3. \/ UNCHANGED tables
        \/ toggle_source_breakpoint(command'.comp_unit_index, command'.line_num)
    BY <2>1 DEF ExecuteSource
  <2> QED
    BY <2>2, <2>3, Zenon DEF BreakpointsNext
<1>3. CASE command'.type = "CMD_TOGGLE_BREAKPOINT"
  <2> DEFINE a == get_assembly_buffer(command'.instruction[1])[command'.instruction[2] + 1]
  <2>1. toggle_breakpoint(a) \/ UNCHANGED tables
    BY <1>3 DEF Toggle, ExecuteInstruction
  <2> HIDE DEF a
  <2>2. CASE UNCHANGED tables
    BY <2>2
  <2>3. CASE a \in Text /\ toggle_breakpoint(a)
    BY <2>3, Zenon DEF BreakpointsNext
  <2>4. CASE a \notin Text /\ toggle_breakpoint(a)
    BY <2>4, ToggledIsText
  <2> QED
    BY <2>1, <2>2, <2>3, <2>4
<1>4. CASE /\ ~(/\ command'.type = "CMD_TOGGLE_SOURCE_BREAKPOINT"
               /\ LookupOutcome(command'.comp_unit_index, command'.line_num) = "ok")
           /\ command'.type # "CMD_TOGGLE_BREAKPOINT"
  BY <1>4 DEF Toggle
<1> QED
  BY <1>2, <1>3, <1>4

(* The interface and the tables, together.                                   *)
ViewsInv == TuiInv /\ TablesInv

(* A step of the composition is one of the interface.                        *)
LEMMA ViewsStepsTheInterface ==
  ViewsNext => Next
BY DEF ViewsNext, Toggle, OtherStep, Next

(* The invariant holds in every state.                                       *)
THEOREM ViewsInvariant == ViewsSpec => []ViewsInv
<1>1. ViewsInit => ViewsInv
  <2>1. BreakpointsInit => TablesInv
    <3>1. << >> \in Seq(Breakpoint) /\ << >> \in Seq(SourceBreakpoint)
      OBVIOUS
    <3> QED
      BY <3>1 DEF BreakpointsInit, TablesInv, BreakpointsTypeOK, UniqueAddresses,
                  SourceBacked, UniqueSources
  <2> QED
    BY <2>1, TuiInit DEF ViewsInit, ViewsInv
<1>2. ASSUME ViewsInv, [ViewsNext]_<<vars, tables>>
      PROVE  ViewsInv'
  <2>1. [Next]_vars
    BY <1>2, ViewsStepsTheInterface
  <2>2. TuiInv'
    BY <1>2, <2>1, TuiStep, TuiStutter DEF ViewsInv
  <2>3. BreakpointsNext \/ UNCHANGED tables
    <3>1. CASE Toggle
      BY <1>2, <3>1, TogglesAreOfTables DEF ViewsInv, TablesInv
    <3> QED
      BY <1>2, <3>1 DEF ViewsNext, OtherStep
  <2>4. CASE BreakpointsNext
    BY <1>2, <2>2, <2>4, TogglesPreserve DEF ViewsInv
  <2>5. CASE UNCHANGED tables
    BY <1>2, <2>2, <2>5 DEF ViewsInv, TablesInv, BreakpointsTypeOK, UniqueAddresses, SourceBacked,
                      UniqueSources, Addresses, tables
  <2> QED
    BY <2>2, <2>3, <2>4, <2>5 DEF ViewsInv
<1> QED
  BY <1>1, <1>2, PTL DEF ViewsSpec

(* Where the source window marks the line the debuggee is at, the assembly   *)
(* window marks its instruction.                                             *)
THEOREM MarksOfWindowsAgree == ViewsSpec => []WindowsAgree
<1>1. ASSUME ViewsInv, NEW a, NEW n \in DOMAIN view_source_buffer(a),
             view_source_buffer(a)[n].is_current_instruction,
             NEW k \in DOMAIN view_assembly_buffer(a),
             view_assembly_buffer(a)[k].is_current_instruction
      PROVE  view_assembly_buffer(a)[k].is_breakpoint
  <2>1. n \in DrawnRows(WIN_SOURCE) /\ k \in DrawnRows(WIN_ASSEMBLY)
    BY <1>1 DEF view_source_buffer, view_assembly_buffer
  <2>2. PICK i \in MarkOf(n) : src_breakpoints[i].address = a
    BY <1>1, <2>1 DEF view_source_buffer
  <2>3. i \in DOMAIN src_breakpoints
    BY <2>2 DEF MarkOf, FirstOf, SourceIndicesAt
  <2>4. a \in Addresses
    BY <1>1, <2>2, <2>3 DEF ViewsInv, TablesInv, SourceBacked
  <2>5. IndicesOf(a) # {}
    BY <2>4 DEF Addresses, IndicesOf
  <2>6. get_assembly_buffer(assembly_unit)[k + 1] = a
    BY <1>1, <2>1 DEF view_assembly_buffer
  <2>7. view_assembly_buffer(a)[k].is_breakpoint =
          (IndicesOf(get_assembly_buffer(assembly_unit)[k + 1]) # {})
    BY <2>1 DEF view_assembly_buffer
  <2> QED
    BY <2>5, <2>6, <2>7
<1>2. ViewsInv => WindowsAgree
  BY <1>1, Zenon DEF WindowsAgree
<1> QED
  BY <1>2, ViewsInvariant, PTL


-----------------------------------------------------------------------------
(* The instructions of the selected line.                                    *)

(* The addresses of a sequence ascend, and its end marker is at "the first   *)
(* byte after the end of a sequence of target machine instructions" (DWARF). *)
Delimited ==
  \A cu \in CompUnits : \A i \in DOMAIN LineInfo[cu] :
    LET sequence == LineInfo[cu][i]
    IN  \A k \in DOMAIN sequence :
          /\ sequence[1].address <= sequence[k].address
          /\ ~sequence[k].end_sequence => sequence[k].address < Last(sequence).address

(* The selected line of the source has been looked up, but for the first line*)
(* of a unit that was opened, and while one is being opened.                 *)
LookedUp ==
  LET line == buffers[WIN_SOURCE].selected_line
  IN  \/ outcome # "ok"
      \/ msg_queue # << >> /\ msg.type = "MSG_SET_SOURCE_BUFFER"
      \/ line = 0
      \/ selected_line_instructions = <<selected_comp_unit_index, SizeT(line + 1)>>

(* A step of the interface looks up the line it selects.                     *)
LEMMA StepsLookUp ==
  ASSUME TuiInv, LookedUp, [Next]_vars
  PROVE  LookedUp'
<1> DEFINE b == buffers[WIN_SOURCE]
           Same == UNCHANGED <<buffers, selected_line_instructions, selected_comp_unit_index>>
           Opening == msg_queue # << >> /\ msg.type = "MSG_SET_SOURCE_BUFFER"
<1>1. Same /\ ~Opening /\ outcome = "ok" => LookedUp'
  BY DEF LookedUp
<1>2. CASE UNCHANGED vars \/ Ended
  BY <1>2 DEF LookedUp, Ended, vars, model_vars, msg
<1>3. CASE PressKey \/ ResizeKey
  BY <1>1, <1>3 DEF PressKey, ResizeKey, model_vars
<1>4. CASE BufferMotion \/ GoToBufferLine
  <2>1. ~Opening /\ outcome = "ok" /\ UNCHANGED selected_comp_unit_index
    BY <1>4 DEF BufferMotion, GoToBufferLine, Handling, msg
  <2>2. CASE UNCHANGED <<buffers, selected_line_instructions, outcome>>
    BY <1>1, <2>1, <2>2
  <2>3. ASSUME NEW line \in Line, focused_win \in Windows, SelectLine(line)
        PROVE  LookedUp'
    <3>1. buffers \in [Windows -> Buffer] /\ WIN_SOURCE \in Windows
      BY DEF TuiInv, TypeOK, Windows, Buffer
    <3>2. CASE focused_win # WIN_SOURCE \/ line = b.selected_line
      <4>1. UNCHANGED selected_line_instructions
        BY <2>3, <3>2 DEF SelectLine
      <4>2. buffers'[WIN_SOURCE].selected_line = b.selected_line
        BY <2>3, <3>1, <3>2 DEF SelectLine, Follow, Buffer
      <4> QED
        BY <2>1, <4>1, <4>2 DEF LookedUp
    <3>3. CASE focused_win = WIN_SOURCE /\ line # b.selected_line
      <4>1. selected_line_instructions' = LineInstructions(line)
        BY <2>3, <3>3 DEF SelectLine
      <4>2. buffers'[WIN_SOURCE].selected_line = line
        BY <2>3, <3>1, <3>3 DEF SelectLine, Follow, Buffer
      <4> QED
        BY <2>1, <4>1, <4>2 DEF LookedUp, LineInstructions
    <3> QED
      BY <3>2, <3>3
  <2> QED
    BY <1>4, <2>2, <2>3, MotionSelects
<1>5. CASE ChangeSection \/ ShowPicker \/ ToggleBreakpoint \/ RunDebuggee \/ OtherMessage
  <2>1. Same
    BY <1>5 DEF ChangeSection, ShowPicker, ToggleBreakpoint, RunDebuggee, OtherMessage,
                model_vars
  <2>2. ~Opening /\ outcome = "ok"
    BY <1>5 DEF ChangeSection, ShowPicker, ToggleBreakpoint, RunDebuggee, OtherMessage,
                Handling, msg
  <2> QED
    BY <1>1, <2>1, <2>2
<1>6. CASE Confirm
  <2>1. Tail(msg_queue) = << >>
    BY <1>6, KeyHandled DEF TuiInv, Handling, msg, Confirm
  <2>2. PICK unit : msg_queue' = << >> \o NewBuffers(unit)
    BY <1>6, <2>1 DEF Confirm
  <2>3. msg_queue' # << >> /\ Head(msg_queue').type = "MSG_SET_SOURCE_BUFFER"
    BY <2>2 DEF NewBuffers
  <2> QED
    BY <2>3 DEF LookedUp, msg
<1>7. CASE SetSourceBuffer
  <2>1. CASE msg.unit = None
    BY <1>7, <2>1 DEF SetSourceBuffer, LookedUp
  <2>2. CASE msg.unit # None
    <3>1. buffers' = [buffers EXCEPT ![WIN_SOURCE] = Refilled(@, Units[msg.unit + 1].lines)]
      BY <1>7, <2>2 DEF SetSourceBuffer
    <3>2. buffers \in [Windows -> Buffer] /\ WIN_SOURCE \in Windows
      BY DEF TuiInv, TypeOK, Windows, Buffer
    <3>3. buffers'[WIN_SOURCE].selected_line = 0
      BY <3>1, <3>2 DEF Refilled, Buffer
    <3> QED
      BY <3>3 DEF LookedUp
  <2> QED
    BY <2>1, <2>2
<1>8. CASE SetAssemblyBuffer
  <2>1. UNCHANGED <<selected_line_instructions, selected_comp_unit_index>>
    BY <1>8 DEF SetAssemblyBuffer
  <2>2. buffers'[WIN_SOURCE] = b
    BY <1>8 DEF SetAssemblyBuffer, WIN_SOURCE, WIN_ASSEMBLY, TuiInv, TypeOK
  <2>3. ~Opening /\ outcome = "ok"
    BY <1>8 DEF SetAssemblyBuffer, Handling, msg
  <2> QED
    BY <2>1, <2>2, <2>3 DEF LookedUp
<1> QED
  BY <1>2, <1>3, <1>4, <1>5, <1>6, <1>7, <1>8 DEF Next

(* The disassembly of a unit of one sequence is the code of that sequence.   *)
LEMMA OneSequenceIsShown ==
  ASSUME NEW cu \in CompUnits, NEW i \in DOMAIN LineInfo[cu],
         \A j \in DOMAIN LineInfo[cu] : LineInfo[cu][j] # << >> <=> i = j
  PROVE  get_assembly_buffer(cu) = CodeOf(LineInfo[cu][i])
<1> DEFINE last == Len(LineInfo[cu])
           code == CodeOf(LineInfo[cu][i])
<1>1. PICK buffer :
        /\ get_assembly_buffer(cu) = buffer[last]
        /\ \A n \in 0..last : buffer[n] = Written(cu, buffer, n)
  BY BuffersAreWritten
<1>2. last \in Nat /\ DOMAIN LineInfo[cu] = 1..last
  BY BreakpointsAssumption
<1> DEFINE Holds(n) == buffer[n] = IF n < i THEN << >> ELSE code
           T == {n \in 0..last : ~Holds(n)}
<1>3. T = {}
  <2> SUFFICES ASSUME T # {} PROVE FALSE
    OBVIOUS
  <2>0. T \in SUBSET Nat /\ T # {}
    BY <1>2
  <2> HIDE DEF T
  <2>1. PICK m \in T : \A n \in T : m <= n
    BY <2>0, LeastNatural
  <2>2. m \in 0..last /\ ~Holds(m)
    BY DEF T
  <2>3. m # 0 => Holds(m - 1)
    <3>1. m # 0 => m - 1 \in 0..last /\ ~(m <= m - 1)
      BY <1>2, <2>2
    <3> QED
      BY <2>1, <3>1 DEF T
  <2>4. buffer[m] = Written(cu, buffer, m)
    BY <1>1, <2>2
  <2>5. i \in 1..last
    BY <1>2
  <2> HIDE DEF code
  <2>6. CASE m = 0
    <3>1. buffer[m] = << >>
      BY <2>4, <2>6 DEF Written
    <3> QED
      BY <2>2, <2>5, <2>6, <3>1
  <2>7. CASE m # 0 /\ m # i
    <3>1. LineInfo[cu][m] = << >>
      BY <1>2, <2>2, <2>7
    <3>2. buffer[m] = buffer[m - 1]
      BY <2>4, <2>7, <3>1 DEF Written
    <3>3. m < i <=> m - 1 < i
      BY <2>2, <2>5, <2>7
    <3> QED
      BY <2>2, <2>3, <2>7, <3>2, <3>3
  <2>8. CASE m = i
    <3>1. LineInfo[cu][m] # << >> /\ m # 0
      BY <1>2, <2>5, <2>8
    <3>2. buffer[m] = Write(buffer[m - 1], code)
      BY <2>4, <2>8, <3>1 DEF Written, code
    <3>3. buffer[m - 1] = << >>
      BY <2>3, <2>5, <2>8, <3>1
    <3>4. buffer[m] = code
      BY <3>2, <3>3 DEF Write
    <3> QED
      BY <2>2, <2>5, <2>8, <3>4
  <2> QED
    BY <2>6, <2>7, <2>8
<1>4. Holds(last) /\ ~(last < i)
  BY <1>2, <1>3
<1> QED
  BY <1>1, <1>4

(* Of a unit of one sequence, the disassembly holds every instruction of a   *)
(* line.                                                                     *)
LEMMA LinesAreShown ==
  ASSUME Delimited, NEW cu \in CompUnits, IsOneSequence(cu), NEW line
  PROVE  {EntryAt(cu, p).address : p \in get_instructions_for_line(cu, line)}
           \subseteq ToSet(get_assembly_buffer(cu))
<1>1. PICK i \in DOMAIN LineInfo[cu] :
        /\ \A j \in DOMAIN LineInfo[cu] : LineInfo[cu][j] # << >> <=> i = j
        /\ \A u \in Undecodable :
             u < LineInfo[cu][i][1].address \/ Last(LineInfo[cu][i]).address <= u
  BY DEF IsOneSequence
<1> DEFINE sequence == LineInfo[cu][i]
           first == sequence[1].address
           end == Last(sequence).address
<1>2. /\ DOMAIN LineInfo[cu] = 1..Len(LineInfo[cu]) /\ Len(LineInfo[cu]) \in Nat
      /\ \A j \in DOMAIN LineInfo[cu] : LineInfo[cu][j] \in Seq(LineInfoEntry)
  BY EntriesHaveAddresses, BreakpointsAssumption
<1>3. sequence \in Seq(LineInfoEntry) /\ first \in Int /\ end \in Int
  BY <1>1, <1>2, EntriesHaveAddresses
<1>4. get_assembly_buffer(cu) = Disassembled(first, end)
  BY <1>1, OneSequenceIsShown DEF CodeOf
<1>5. ASSUME NEW p \in get_instructions_for_line(cu, line)
      PROVE  EntryAt(cu, p).address \in ToSet(get_assembly_buffer(cu))
  <2> DEFINE a == EntryAt(cu, p).address
  <2>1. p \in Positions(cu) /\ ~EntryAt(cu, p).end_sequence
    BY DEF get_instructions_for_line
  <2>2. p[1] \in DOMAIN LineInfo[cu] /\ p[2] \in 1..Len(LineInfo[cu][p[1]])
    BY <1>2, <2>1 DEF Positions
  <2>3. p[1] = i
    <3>1. LineInfo[cu][p[1]] # << >>
      <4>1. LineInfo[cu][p[1]] = << >> => Len(LineInfo[cu][p[1]]) = 0
        OBVIOUS
      <4> QED
        BY <2>2, <4>1
    <3> QED
      BY <1>1, <2>2, <3>1
  <2>4. p[2] \in DOMAIN sequence /\ EntryAt(cu, p) = sequence[p[2]]
    BY <1>3, <2>2, <2>3 DEF EntryAt
  <2>5. first <= a /\ a < end
    BY <1>1, <2>1, <2>4 DEF Delimited
  <2>6. a \in Text
    BY <2>1, ViewsAssumption DEF IsOneSequence
  <2> HIDE DEF a, first, end
  <2>7. \A u \in Undecodable : u < first \/ a < u
    <3> TAKE u \in Undecodable
    <3>1. u \in Int /\ end \in Int /\ a \in Int
      BY <1>3, <2>6, ViewsAssumption, BreakpointsAssumption
    <3>2. u < first \/ end <= u
      BY <1>1 DEF first, end
    <3> QED
      BY <2>5, <3>1, <3>2
  <2>8. a \in Decodable(first, end)
    BY <2>5, <2>6, <2>7 DEF Decodable
  <2>9. \E k \in DOMAIN Disassembled(first, end) : Disassembled(first, end)[k] = a
    BY <1>3, <2>8, DisassembledFacts
  <2> QED
    BY <1>4, <2>9 DEF ToSet, a
<1> QED
  BY <1>5

(* Every instruction of the selected line is shown, and they are the ones    *)
(* emphasised.                                                               *)
THEOREM SelectedLinesAreShown ==
  ASSUME Delimited
  PROVE  ViewsSpec => []SelectedLineIsShown
<1>1. ASSUME TuiInv, LookedUp, msg_queue = << >>, outcome = "ok", assembly_unit # None,
             buffers[WIN_SOURCE].selected_line # 0,
             buffers[WIN_SOURCE].selected_line < buffers[WIN_SOURCE].line_count,
             IsOneSequence(assembly_unit)
      PROVE  LET shown == ToSet(get_assembly_buffer(assembly_unit))
                 selected == {EntryAt(assembly_unit, p).address :
                   p \in get_instructions_for_line(assembly_unit,
                                                   buffers[WIN_SOURCE].selected_line + 1)}
             IN  selected \subseteq shown /\ {a \in shown : Emphasised(a)} = selected
  <2> DEFINE line == buffers[WIN_SOURCE].selected_line
             entries == get_instructions_for_line(assembly_unit, line + 1)
             selected == {EntryAt(assembly_unit, p).address : p \in entries}
             shown == ToSet(get_assembly_buffer(assembly_unit))
  <2>1. line \in Line /\ buffers[WIN_SOURCE].line_count \in Line
    BY <1>1 DEF TuiInv, TypeOK, WIN_SOURCE
  <2>2. SizeT(line + 1) = line + 1
    <3>1. line + 1 \in Line
      BY <1>1, <2>1, Sizes DEF Line
    <3> QED
      BY <3>1, SizeFacts DEF Line
  <2>3. assembly_unit \in CompUnits
    BY <1>1, ViewsAssumption DEF TuiInv, TypeOK
  <2>4. source_unit # None
    BY <1>1, <2>1 DEF TuiInv, CountsInv, Line
  <2>5. selected_comp_unit_index = assembly_unit
    <3>1. \A unit : NewBuffers(unit) # << >> /\ LaterBuffers(unit) # << >> /\ <<unit>> # << >>
      BY DEF NewBuffers, LaterBuffers
    <3>2. Agreed
      BY <1>1, <3>1 DEF TuiInv, QueueInv
    <3> QED
      BY <2>4, <3>2 DEF Agreed
  <2>6. selected_line_instructions = <<assembly_unit, line + 1>>
    BY <1>1, <2>2, <2>5 DEF LookedUp
  <2>7. selected \subseteq shown
    BY <1>1, <2>3, LinesAreShown
  <2> HIDE DEF line
  <2>8. \A a : Emphasised(a) <=> \E p \in entries : EntryAt(assembly_unit, p).address = a
    BY <2>3, <2>6 DEF Emphasised
  <2> HIDE DEF entries, shown
  <2>9. {a \in shown : Emphasised(a)} = selected
    BY <2>7, <2>8
  <2> QED
    BY <2>7, <2>9 DEF entries, shown, line
<1>2. TuiInv /\ LookedUp => SelectedLineIsShown
  BY <1>1, Zenon DEF SelectedLineIsShown
<1>3. ViewsInit => TuiInv /\ LookedUp
  <2>1. Init => buffers[WIN_SOURCE].selected_line = 0
    BY DEF Init, TuiBuffer
  <2> QED
    BY <2>1, TuiInit DEF ViewsInit, LookedUp
<1>4. TuiInv /\ LookedUp /\ [ViewsNext]_<<vars, tables>> => (TuiInv /\ LookedUp)'
  BY TuiStep, TuiStutter, StepsLookUp, ViewsStepsTheInterface
<1> QED
  BY <1>2, <1>3, <1>4, PTL DEF ViewsSpec
-----------------------------------------------------------------------------
(* Marks and the space bar.                                                  *)

(* If any entry is found, there is a first.                                  *)
LEMMA FirstIsFound ==
  ASSUME NEW S \in SUBSET Nat
  PROVE  FirstOf(S) # {} <=> S # {}
<1>1. ASSUME S # {}
      PROVE  FirstOf(S) # {}
  <2>1. PICK i \in S : \A j \in S : i <= j
    BY <1>1, LeastNatural
  <2> QED
    BY <2>1 DEF FirstOf
<1> QED
  BY <1>1 DEF FirstOf

(* The first statement of a line that has any, in the order of the table.    *)
LEMMA FirstStatementIsFound ==
  ASSUME NEW cu \in CompUnits, NEW line, StatementsOf(cu, line) # {}
  PROVE  FirstStatementOf(cu, line) # {}
<1> DEFINE S == StatementsOf(cu, line)
           Sequences == {p[1] : p \in S}
           EntriesOf(i) == {p[2] : p \in {q \in S : q[1] = i}}
<1>1. \A p \in S : p = <<p[1], p[2]>> /\ p[1] \in Nat /\ p[2] \in Nat
  <2> SUFFICES ASSUME NEW p \in S PROVE p = <<p[1], p[2]>> /\ p[1] \in Nat /\ p[2] \in Nat
    OBVIOUS
  <2>1. PICK i \in 1..Len(LineInfo[cu]) : p \in {i} \X (1..Len(LineInfo[cu][i]))
    BY DEF StatementsOf, get_instructions_for_line, Positions
  <2>2. LineInfo[cu] \in Seq(Seq(LineInfoEntry)) /\ LineInfo[cu][i] \in Seq(LineInfoEntry)
    BY EntriesHaveAddresses
  <2> QED
    BY <2>1, <2>2
<1> HIDE DEF S
<1>2. Sequences \in SUBSET Nat /\ Sequences # {}
  BY <1>1 DEF S
<1> HIDE DEF Sequences
<1>3. PICK i \in Sequences : \A j \in Sequences : i <= j
  BY <1>2, LeastNatural
<1>4. EntriesOf(i) \in SUBSET Nat /\ EntriesOf(i) # {}
  BY <1>1, <1>3 DEF Sequences
<1> HIDE DEF EntriesOf
<1>5. PICK k \in EntriesOf(i) : \A l \in EntriesOf(i) : k <= l
  BY <1>4, LeastNatural
<1>6. PICK p \in S : p[1] = i /\ p[2] = k
  BY <1>5 DEF EntriesOf
<1>7. ASSUME NEW q \in S \ {p}
      PROVE  Before(p, q)
  <2>1. q[1] \in Sequences /\ (q[1] = i => q[2] \in EntriesOf(i))
    BY DEF Sequences, EntriesOf
  <2>2. i <= q[1] /\ (q[1] = i => k <= q[2])
    BY <1>3, <1>5, <2>1
  <2>3. q[1] # i \/ q[2] # k
    BY <1>1, <1>6
  <2>4. i \in Nat /\ k \in Nat /\ q[1] \in Nat /\ q[2] \in Nat
    BY <1>1, <1>6
  <2> QED
    BY <1>6, <2>2, <2>3, <2>4 DEF Before
<1> QED
  BY <1>6, <1>7 DEF FirstStatementOf, S

(* A line of the shown unit has a breakpoint.                                *)
LineMarked(n) == SourceIndicesAt(selected_comp_unit_index, n + 1) # {}

(* The rows drawn are lines of their buffers.                                *)
LEMMA RowsAreLines ==
  ASSUME TuiInv, NEW w \in {WIN_SOURCE, WIN_ASSEMBLY}, NEW n \in DrawnRows(w)
  PROVE  n \in Nat /\ n < buffers[w].line_count /\ buffers[w].line_count \in Nat
<1>0. buffers \in [Windows -> Buffer] /\ w \in Windows
  BY DEF TuiInv, TypeOK, Windows, Buffer
<1>1. buffers[w].line_pos \in Nat /\ buffers[w].line_count \in Nat
  BY <1>0, Sizes DEF Buffer, Line
<1>2. n \in buffers[w].line_pos..(buffers[w].line_count - 1)
  BY DEF DrawnRows
<1> QED
  BY <1>1, <1>2

(* The source window marks the lines it draws that have a breakpoint.        *)
LEMMA SourceMarksAre ==
  BreakpointsTypeOK => SourceMarks = {n \in DrawnRows(WIN_SOURCE) : LineMarked(n)}
<1> HAVE BreakpointsTypeOK
<1>1. \A n : SourceIndicesAt(selected_comp_unit_index, n + 1) \in SUBSET Nat
  BY DEF SourceIndicesAt, BreakpointsTypeOK
<1>2. \A n : MarkOf(n) # {} <=> LineMarked(n)
  BY <1>1, FirstIsFound, Zenon DEF MarkOf, LineMarked
<1> QED
  BY <1>2 DEF SourceMarks, view_source_buffer

(* The assembly window marks the instructions it draws that have one.        *)
LEMMA AssemblyMarksAre ==
  AssemblyMarks = {n \in DrawnRows(WIN_ASSEMBLY) :
                     get_assembly_buffer(assembly_unit)[n + 1] \in Addresses}
<1>1. \A a : IndicesOf(a) # {} <=> a \in Addresses
  BY DEF IndicesOf, Addresses
<1> QED
  BY <1>1 DEF AssemblyMarks, view_assembly_buffer
(* What a toggle leaves alone: which rows are drawn, and of which unit.      *)
LEMMA SameRows ==
  ASSUME UNCHANGED <<model_vars, window_rows>>
  PROVE  /\ \A w : DrawnRows(w)' = DrawnRows(w)
         /\ assembly_unit' = assembly_unit
         /\ selected_comp_unit_index' = selected_comp_unit_index
BY DEF DrawnRows, BufferRows, model_vars

(* The marks after a step that leaves the windows as they are.               *)
LEMMA MarksAfter ==
  ASSUME ViewsInv, ViewsInv', UNCHANGED <<model_vars, window_rows>>
  PROVE  /\ SourceMarks = {n \in DrawnRows(WIN_SOURCE) : LineMarked(n)}
         /\ SourceMarks' = {n \in DrawnRows(WIN_SOURCE) :
                              SourceIndicesAt(selected_comp_unit_index, n + 1)' # {}}
         /\ AssemblyMarks' = {n \in DrawnRows(WIN_ASSEMBLY) :
                                get_assembly_buffer(assembly_unit)[n + 1] \in Addresses'}
<1>1. SourceMarks = {n \in DrawnRows(WIN_SOURCE) : LineMarked(n)}
  BY SourceMarksAre DEF ViewsInv, TablesInv
<1>2. (SourceMarks = {n \in DrawnRows(WIN_SOURCE) : LineMarked(n)})'
  <2>1. BreakpointsTypeOK'
    BY DEF ViewsInv, TablesInv
  <2> QED
    BY <2>1, SourceMarksAre, PTL
<1>3. (AssemblyMarks = {n \in DrawnRows(WIN_ASSEMBLY) :
                          get_assembly_buffer(assembly_unit)[n + 1] \in Addresses})'
  BY AssemblyMarksAre, PTL
<1>4. DrawnRows(WIN_SOURCE)' = DrawnRows(WIN_SOURCE)
      /\ DrawnRows(WIN_ASSEMBLY)' = DrawnRows(WIN_ASSEMBLY)
  BY SameRows
<1>5. get_assembly_buffer(assembly_unit)' = get_assembly_buffer(assembly_unit)
  BY SameRows DEF get_assembly_buffer
<1>6. \A n : LineMarked(n)' <=> SourceIndicesAt(selected_comp_unit_index, n + 1)' # {}
  BY DEF LineMarked
<1> QED
  BY <1>1, <1>2, <1>3, <1>4, <1>5, <1>6
(* Toggling the instruction of a row of the assembly window flips the mark of*)
(* that row and no other, and marks no line.                                 *)
LEMMA CodeIsToggled ==
  ASSUME ViewsInv, ViewsInv', UNCHANGED <<model_vars, window_rows>>,
         assembly_unit \in CompUnits,
         buffers[WIN_ASSEMBLY].line_count = Len(get_assembly_buffer(assembly_unit)),
         NEW row \in Nat, row + 1 \in DOMAIN get_assembly_buffer(assembly_unit),
         toggle_breakpoint(get_assembly_buffer(assembly_unit)[row + 1])
  PROVE  /\ row \in DrawnRows(WIN_ASSEMBLY) =>
              AssemblyMarks' = IF row \in AssemblyMarks THEN AssemblyMarks \ {row}
                                                        ELSE AssemblyMarks \cup {row}
         /\ SourceMarks' \subseteq SourceMarks
<1> DEFINE shown == get_assembly_buffer(assembly_unit)
           a == shown[row + 1]
           drawn == DrawnRows(WIN_ASSEMBLY)
<1>1. shown \in Seq(Text \cup Outside) /\ IsAscending(shown)
  BY DisassemblyAscends
<1>2. toggle_breakpoint(a) /\ row + 1 \in DOMAIN shown
  OBVIOUS
<1>3. \A n \in drawn : n \in Nat /\ n + 1 \in DOMAIN shown
  <2> SUFFICES ASSUME NEW n \in drawn PROVE n \in Nat /\ n + 1 \in DOMAIN shown
    OBVIOUS
  <2>1. n \in Nat /\ n < Len(shown)
    BY RowsAreLines DEF ViewsInv
  <2> HIDE DEF shown
  <2> QED
    BY <1>1, <2>1
<1>4. /\ AssemblyMarks = {n \in drawn : shown[n + 1] \in Addresses}
      /\ AssemblyMarks' = {n \in drawn : shown[n + 1] \in Addresses'}
  BY AssemblyMarksAre, MarksAfter
<1>5. /\ SourceMarks = {n \in DrawnRows(WIN_SOURCE) : LineMarked(n)}
      /\ SourceMarks' = {n \in DrawnRows(WIN_SOURCE) :
                           SourceIndicesAt(selected_comp_unit_index, n + 1)' # {}}
  BY MarksAfter
<1> HIDE DEF shown, drawn
<1>6. a \in Text
  BY <1>2, ToggledIsText DEF ViewsInv, TablesInv
<1>7. \A n \in drawn : shown[n + 1] = a => n = row
  <2> SUFFICES ASSUME NEW n \in drawn, shown[n + 1] = a PROVE n = row
    OBVIOUS
  <2>1. n \in Nat /\ n + 1 \in DOMAIN shown
    BY <1>3
  <2>2. a \in Int
    BY <1>6, BreakpointsAssumption
  <2>3. ~(n + 1 < row + 1) /\ ~(row + 1 < n + 1)
    BY <1>1, <1>2, <2>1, <2>2 DEF IsAscending
  <2> QED
    BY <2>1, <2>3
<1> HIDE DEF a
<1>8. TablesInv /\ BreakpointsTypeOK /\ UniqueAddresses /\ UniqueSources
  BY DEF ViewsInv, TablesInv
<1>9. CASE a \in Addresses
  <2>1. remove_breakpoint(a)
    BY <1>2, <1>9 DEF toggle_breakpoint, add_breakpoint
  <2>2. Addresses' = Addresses \ {a}
    BY <1>8, <2>1, RemoveBreakpointPreserves
  <2>3. row \in drawn => row \in AssemblyMarks /\ AssemblyMarks' = AssemblyMarks \ {row}
    BY <1>4, <1>7, <1>9, <2>2 DEF a
  <2>4. SourceMarks' \subseteq SourceMarks
    <3>1. CASE SourceIndicesOf(a) = {}
      <4>1. src_breakpoints' = src_breakpoints
        BY <2>1, <3>1 DEF remove_breakpoint, DropSourceBreakpoint
      <4> QED
        BY <1>5, <4>1, SameRows DEF LineMarked, SourceIndicesAt
    <3>2. CASE SourceIndicesOf(a) # {}
      <4>1. PICK i \in FirstOf(SourceIndicesOf(a)) :
              src_breakpoints' = CloseGap(src_breakpoints, i)
        BY <2>1, <3>2 DEF remove_breakpoint, DropSourceBreakpoint
      <4>2. i \in DOMAIN src_breakpoints
        BY DEF FirstOf, SourceIndicesOf
      <4>3. \A cu, line : SourceIndicesAt(cu, line)' # {} => SourceIndicesAt(cu, line) # {}
        BY <1>8, <4>1, <4>2, DropSourceMarks DEF BreakpointsTypeOK
      <4> QED
        BY <1>5, <4>3, SameRows DEF LineMarked, SourceIndicesAt
    <3> QED
      BY <3>1, <3>2
  <2> QED
    BY <2>3, <2>4 DEF drawn
<1>10. CASE a \notin Addresses
  <2>1. add_breakpoint(a) /\ UNCHANGED src_breakpoints
    BY <1>2, <1>10 DEF toggle_breakpoint
  <2>2. Addresses' = Addresses \cup {a}
    BY <1>6, <1>8, <2>1, AddBreakpointEffect DEF BreakpointsTypeOK
  <2>3. row \in drawn => row \notin AssemblyMarks /\ AssemblyMarks' = AssemblyMarks \cup {row}
    BY <1>4, <1>7, <1>10, <2>2 DEF a
  <2>4. SourceMarks' \subseteq SourceMarks
    BY <1>5, <2>1, SameRows DEF LineMarked, SourceIndicesAt
  <2> QED
    BY <2>3, <2>4 DEF drawn
<1> QED
  BY <1>9, <1>10
(* Toggling a line takes the mark of that line and no other, or puts it where*)
(* the line has a first statement that is free.                              *)
LEMMA LineIsToggled ==
  ASSUME TablesInv, NEW cu \in CompUnits, NEW line \in Lines,
         ExecuteSource(cu, line), outcome' = "ok"
  PROVE  /\ \A other : other # line =>
              (SourceIndicesAt(cu, other)' # {} <=> SourceIndicesAt(cu, other) # {})
         /\ SourceIndicesAt(cu, line) # {} => SourceIndicesAt(cu, line)' = {}
         /\ /\ SourceIndicesAt(cu, line) = {}
            /\ StatementsOf(cu, line) # {}
            /\ \A p \in StatementsOf(cu, line) : EntryAt(cu, p).address \notin Addresses
            => SourceIndicesAt(cu, line)' # {}
<1>0. src_breakpoints \in Seq(SourceBreakpoint) /\ UniqueSources
  BY DEF TablesInv, BreakpointsTypeOK
<1>1. CASE remove_source_breakpoint(cu, line)
  <2>1. PICK i \in FirstOf(SourceIndicesAt(cu, line)) :
          src_breakpoints' = CloseGap(src_breakpoints, i)
    BY <1>1 DEF remove_source_breakpoint
  <2>2. i \in SourceIndicesAt(cu, line) /\ i \in DOMAIN src_breakpoints
    BY DEF FirstOf, SourceIndicesAt
  <2>3. \A other : SourceIndicesAt(cu, other)' # {} <=>
                     i \notin SourceIndicesAt(cu, other) /\ SourceIndicesAt(cu, other) # {}
    BY <1>0, <2>1, <2>2, DropSourceMarks
  <2>4. \A other : other # line => i \notin SourceIndicesAt(cu, other)
    BY <2>2 DEF SourceIndicesAt
  <2> QED
    BY <2>2, <2>3, <2>4
<1>2. CASE SourceIndicesAt(cu, line) = {} /\ set_source_breakpoint(cu, line)
  <2>1. PICK p \in FirstStatementOf(cu, line) :
          /\ add_breakpoint(EntryAt(cu, p).address)
          /\ src_breakpoints' = Append(src_breakpoints,
               [address |-> EntryAt(cu, p).address, comp_unit_index |-> cu, line_num |-> line])
    BY <1>2 DEF set_source_breakpoint
  <2> DEFINE e == [address |-> EntryAt(cu, p).address, comp_unit_index |-> cu, line_num |-> line]
  <2>2. e \in SourceBreakpoint
    <3>1. EntryAt(cu, p).address \in Text
      BY <2>1 DEF add_breakpoint
    <3> QED
      BY <3>1 DEF SourceBreakpoint
  <2>3. e.comp_unit_index = cu /\ e.line_num = line /\ src_breakpoints' = Append(src_breakpoints, e)
    BY <2>1
  <2> HIDE DEF e
  <2>4. \A other : SourceIndicesAt(cu, other)' # {} <=>
                     \/ SourceIndicesAt(cu, other) # {}
                     \/ other = line
    BY <1>0, <2>2, <2>3, AddSourceMarks
  <2> QED
    BY <1>2, <2>4
<1>3. CASE /\ SourceIndicesAt(cu, line) = {}
           /\ \A p \in FirstStatementOf(cu, line) : EntryAt(cu, p).address \in Addresses
           /\ UNCHANGED tables
  <2>1. \A other : SourceIndicesAt(cu, other)' = SourceIndicesAt(cu, other)
    BY <1>3 DEF SourceIndicesAt, tables
  <2>2. ASSUME StatementsOf(cu, line) # {}
        PROVE  \E p \in StatementsOf(cu, line) : EntryAt(cu, p).address \in Addresses
    <3>1. FirstStatementOf(cu, line) # {}
      BY <2>2, FirstStatementIsFound
    <3> QED
      BY <1>3, <3>1 DEF FirstStatementOf
  <2> QED
    BY <1>3, <2>1, <2>2
<1> QED
  BY <1>1, <1>2, <1>3 DEF ExecuteSource, toggle_source_breakpoint
(* The command that toggles a line names the line that is selected.          *)
LEMMA LineIsNamed ==
  ASSUME TuiInv, ToggleBreakpoint, focused_win = WIN_SOURCE, outcome' = "ok"
  PROVE  /\ command' = [type |-> "CMD_TOGGLE_SOURCE_BREAKPOINT",
                        comp_unit_index |-> selected_comp_unit_index,
                        line_num |-> buffers[WIN_SOURCE].selected_line + 1]
         /\ selected_comp_unit_index \in CompUnits
         /\ buffers[WIN_SOURCE].selected_line + 1 \in Lines
         /\ LookupOutcome(command'.comp_unit_index, command'.line_num) = "ok"
<1> DEFINE row == buffers[WIN_SOURCE].selected_line
<1>1. /\ command' = [type |-> "CMD_TOGGLE_SOURCE_BREAKPOINT",
                     comp_unit_index |-> selected_comp_unit_index,
                     line_num |-> SizeT(row + 1)]
      /\ LookupOutcome(selected_comp_unit_index, SizeT(row + 1)) = "ok"
  BY DEF ToggleBreakpoint, WIN_SOURCE, WIN_ASSEMBLY
<1>2. row \in 0..(SIZE_MODULUS - 1) /\ SIZE_MODULUS \in Nat
  BY Sizes DEF TuiInv, TypeOK, Line
<1> HIDE DEF row
<1>3. SizeT(row + 1) = IF row + 1 = SIZE_MODULUS THEN 0 ELSE row + 1
  BY <1>2 DEF SizeT
<1>4. SizeT(row + 1) # 0
  BY <1>1 DEF LookupOutcome
<1>5. SizeT(row + 1) = row + 1
  BY <1>3, <1>4
<1>6. /\ LookupOutcome(command'.comp_unit_index, command'.line_num) = "ok"
      /\ command'.type = "CMD_TOGGLE_SOURCE_BREAKPOINT"
      /\ command'.comp_unit_index = selected_comp_unit_index
      /\ command'.line_num = row + 1
  BY <1>1, <1>5
<1>7. selected_comp_unit_index \in CompUnits /\ row + 1 \in Lines
  BY <1>6, LinesAreOfUnits
<1> QED
  BY <1>1, <1>5, <1>6, <1>7 DEF row

(* The toggle is the only step for the message of the space bar.             *)
LEMMA OnlyTogglesToggle ==
  ASSUME ViewsNext, Handling("MSG_TOGGLE_BREAKPOINT")
  PROVE  Toggle
BY DEF ViewsNext, OtherStep, Handling, msg, PressKey, ResizeKey, BufferMotion, GoToBufferLine,
   ChangeSection, Confirm, ShowPicker, SetSourceBuffer, SetAssemblyBuffer, RunDebuggee,
   OtherMessage, Ended

(* In the source window.                                                     *)
LEMMA SpaceInSource ==
  ASSUME ViewsInv, ViewsInv', Toggle, outcome' = "ok", focused_win = WIN_SOURCE
  PROVE  LET row == buffers[focused_win].selected_line
             free == {p \in StatementsOf(source_unit, row + 1) :
                        EntryAt(source_unit, p).address \notin Addresses}
         IN  /\ SourceMarks' \ {row} = SourceMarks \ {row}
             /\ row \in SourceMarks => row \notin SourceMarks'
             /\ /\ row \in DrawnRows(WIN_SOURCE) \ SourceMarks
                /\ free # {} /\ free = StatementsOf(source_unit, row + 1)
                => row \in SourceMarks'
<1> DEFINE row == buffers[WIN_SOURCE].selected_line
           drawn == DrawnRows(WIN_SOURCE)
           free == {p \in StatementsOf(source_unit, row + 1) :
                      EntryAt(source_unit, p).address \notin Addresses}
           Marked(n) == SourceIndicesAt(selected_comp_unit_index, n + 1)' # {}
<1>1. ToggleBreakpoint /\ TuiInv /\ TablesInv
  BY DEF Toggle, ViewsInv
<1>2. UNCHANGED <<model_vars, window_rows>>
  BY <1>1 DEF ToggleBreakpoint
<1>3. PICK cu \in CompUnits : cu = selected_comp_unit_index
  BY <1>1, LineIsNamed
<1>4. PICK line \in Lines : line = row + 1
  BY <1>1, LineIsNamed
<1>5. ExecuteSource(cu, line)
  <2>1. /\ command' = [type |-> "CMD_TOGGLE_SOURCE_BREAKPOINT",
                    comp_unit_index |-> cu, line_num |-> line]
        /\ LookupOutcome(command'.comp_unit_index, command'.line_num) = "ok"
    BY <1>1, <1>3, <1>4, LineIsNamed
  <2> QED
    BY <2>1 DEF Toggle
<1>6. cu = selected_comp_unit_index'
  BY <1>2, <1>3, SameRows
<1>7. /\ SourceMarks = {n \in drawn : LineMarked(n)}
      /\ SourceMarks' = {n \in drawn : Marked(n)}
  BY <1>2, MarksAfter
<1>8. \A n : /\ LineMarked(n) <=> SourceIndicesAt(cu, n + 1) # {}
             /\ Marked(n) <=> SourceIndicesAt(cu, n + 1)' # {}
  BY <1>3, <1>6 DEF LineMarked, SourceIndicesAt
<1>9. /\ \A other : other # line =>
           (SourceIndicesAt(cu, other)' # {} <=> SourceIndicesAt(cu, other) # {})
      /\ SourceIndicesAt(cu, line) # {} => SourceIndicesAt(cu, line)' = {}
      /\ /\ SourceIndicesAt(cu, line) = {}
         /\ StatementsOf(cu, line) # {}
         /\ \A p \in StatementsOf(cu, line) : EntryAt(cu, p).address \notin Addresses
         => SourceIndicesAt(cu, line)' # {}
  BY <1>1, <1>5, LineIsToggled
<1>10. \A n \in drawn : n \in Nat
  BY <1>1, RowsAreLines
<1>11. row \in Nat
  BY <1>1, Sizes DEF TuiInv, TypeOK, Line
<1>12. drawn # {} => source_unit = cu
  <2> SUFFICES ASSUME NEW n \in drawn PROVE source_unit = cu
    OBVIOUS
  <2>1. buffers[WIN_SOURCE].line_count > 0
    <3>1. n \in Nat /\ n < buffers[WIN_SOURCE].line_count /\ buffers[WIN_SOURCE].line_count \in Nat
      BY <1>1, RowsAreLines
    <3> QED
      BY <3>1
  <2>2. source_unit # None
    BY <1>1, <2>1 DEF TuiInv, CountsInv
  <2>3. Agreed
    BY <1>1, KeyHandled DEF TuiInv, Handling, msg, ToggleBreakpoint
  <2> QED
    BY <1>3, <2>2, <2>3 DEF Agreed
<1> HIDE DEF row, drawn, Marked
<1>13. SourceMarks' \ {row} = SourceMarks \ {row}
  <2>1. \A n \in drawn : n # row => n + 1 # line
    BY <1>4, <1>10, <1>11
  <2> QED
    BY <1>7, <1>8, <1>9, <2>1
<1>14. row \in SourceMarks => row \notin SourceMarks'
  BY <1>4, <1>7, <1>8, <1>9
<1>15. row \in drawn \ SourceMarks /\ free # {} /\ free = StatementsOf(source_unit, row + 1)
         => row \in SourceMarks'
  BY <1>4, <1>7, <1>8, <1>9, <1>12
<1> QED
  BY <1>13, <1>14, <1>15 DEF row, drawn

(* In the assembly window.                                                   *)
LEMMA SpaceInAssembly ==
  ASSUME ViewsInv, ViewsInv', Toggle, outcome' = "ok", focused_win = WIN_ASSEMBLY
  PROVE  LET row == buffers[focused_win].selected_line
         IN  /\ row \in DrawnRows(WIN_ASSEMBLY) =>
                  AssemblyMarks' = IF row \in AssemblyMarks THEN AssemblyMarks \ {row}
                                                            ELSE AssemblyMarks \cup {row}
             /\ SourceMarks' \subseteq SourceMarks
<1>1. ToggleBreakpoint /\ TuiInv
  BY DEF Toggle, ViewsInv
<1>2. UNCHANGED <<model_vars, window_rows>>
  BY <1>1 DEF ToggleBreakpoint
<1> DEFINE row == buffers[WIN_ASSEMBLY].selected_line
<1>3. /\ command' = [type |-> "CMD_TOGGLE_BREAKPOINT", instruction |-> <<assembly_unit, row>>]
      /\ assembly_unit \in CompUnits
      /\ buffers[WIN_ASSEMBLY].line_count = Len(get_assembly_buffer(assembly_unit))
      /\ row \in Nat /\ row + 1 \in DOMAIN get_assembly_buffer(assembly_unit)
  BY <1>1, InstructionIsNamed
<1>4. toggle_breakpoint(get_assembly_buffer(assembly_unit)[row + 1])
  <2>1. /\ command'.type = "CMD_TOGGLE_BREAKPOINT"
        /\ command'.instruction[1] = assembly_unit /\ command'.instruction[2] = row
    BY <1>3
  <2> HIDE DEF row
  <2>2. ExecuteInstruction(get_assembly_buffer(assembly_unit)[row + 1])
    BY <2>1 DEF Toggle
  <2> QED
    BY <2>2 DEF ExecuteInstruction
<1> HIDE DEF row
<1>5. /\ row \in DrawnRows(WIN_ASSEMBLY) =>
           AssemblyMarks' = IF row \in AssemblyMarks THEN AssemblyMarks \ {row}
                                                     ELSE AssemblyMarks \cup {row}
      /\ SourceMarks' \subseteq SourceMarks
  BY <1>2, <1>3, <1>4, CodeIsToggled
<1> QED
  BY <1>5 DEF row

(* In no other window does it do anything.                                   *)
LEMMA SpaceElsewhere ==
  ASSUME ViewsInv, ViewsInv', Toggle, focused_win \notin {WIN_SOURCE, WIN_ASSEMBLY}
  PROVE  SourceMarks' = SourceMarks /\ AssemblyMarks' = AssemblyMarks
<1>1. command' = CMD_NONE /\ UNCHANGED <<model_vars, window_rows>>
  BY DEF Toggle, ToggleBreakpoint
<1>2. UNCHANGED tables
  BY <1>1 DEF Toggle, CMD_NONE
<1>3. Addresses' = Addresses
  BY <1>2 DEF Addresses, tables
<1>4. \A n : SourceIndicesAt(selected_comp_unit_index, n + 1)' # {} <=> LineMarked(n)
  BY <1>1, <1>2, SameRows DEF LineMarked, SourceIndicesAt, tables
<1> QED
  BY <1>1, <1>3, <1>4, MarksAfter, AssemblyMarksAre

(* Whatever was toggled before, in either window and in any unit, the space  *)
(* bar changes the mark of the row that is highlighted and of no other.      *)
THEOREM SpaceTogglesTheSelectedRow == ViewsSpec => SpaceActsOnSelectedRow
<1> DEFINE SpaceActs ==
      Handling("MSG_TOGGLE_BREAKPOINT") /\ outcome' = "ok" =>
        LET row == buffers[focused_win].selected_line
            free == {p \in StatementsOf(source_unit, row + 1) :
                       EntryAt(source_unit, p).address \notin Addresses}
        IN  CASE focused_win = WIN_ASSEMBLY ->
                   /\ row \in DrawnRows(WIN_ASSEMBLY) =>
                        AssemblyMarks' = IF row \in AssemblyMarks THEN AssemblyMarks \ {row}
                                                                  ELSE AssemblyMarks \cup {row}
                   /\ SourceMarks' \subseteq SourceMarks
              [] focused_win = WIN_SOURCE ->
                   /\ SourceMarks' \ {row} = SourceMarks \ {row}
                   /\ row \in SourceMarks => row \notin SourceMarks'
                   /\ /\ row \in DrawnRows(WIN_SOURCE) \ SourceMarks
                      /\ free # {} /\ free = StatementsOf(source_unit, row + 1)
                      => row \in SourceMarks'
              [] OTHER -> SourceMarks' = SourceMarks /\ AssemblyMarks' = AssemblyMarks
<1>1. ASSUME ViewsInv, ViewsInv', ViewsNext PROVE SpaceActs
  <2> SUFFICES ASSUME Handling("MSG_TOGGLE_BREAKPOINT"), outcome' = "ok" PROVE SpaceActs
    OBVIOUS
  <2>1. Toggle
    BY <1>1, OnlyTogglesToggle
  <2>2. CASE focused_win = WIN_ASSEMBLY
    BY <1>1, <2>1, <2>2, SpaceInAssembly DEF WIN_SOURCE, WIN_ASSEMBLY
  <2>3. CASE focused_win = WIN_SOURCE
    BY <1>1, <2>1, <2>3, SpaceInSource DEF WIN_SOURCE, WIN_ASSEMBLY
  <2>4. CASE focused_win \notin {WIN_SOURCE, WIN_ASSEMBLY}
    BY <1>1, <2>1, <2>4, SpaceElsewhere
  <2> QED
    BY <2>2, <2>3, <2>4
<1>2. ViewsInv /\ ViewsInv' /\ [ViewsNext]_<<vars, tables>> => [SpaceActs]_<<vars, tables>>
  BY <1>1
<1> QED
  BY <1>2, ViewsInvariant, PTL DEF ViewsSpec, SpaceActsOnSelectedRow
===============================================================================
