-------------------------------- MODULE Views --------------------------------
(***************************************************************************)
(* The interface composed with the tables its toggles edit and the windows *)
(* that show them: the disassembly of a unit (src/debug.c), the source and *)
(* assembly windows (src/tui.c), and the toggle commands as main executes  *)
(* them, in the round of the event loop that handled the message.          *)
(***************************************************************************)
EXTENDS Tui, Breakpoints, SequencesExt

CONSTANTS
  Undecodable,  (* Addresses where the disassembler finds no instruction.    *)
  Outside       (* Addresses outside .text where it finds one all the same,  *)
                (* in what lies beside the copy of the section.              *)

(* The instructions decoded from an address up to the end of the code or to  *)
(* one that cannot be decoded.                                               *)
Decodable(start_addr, end_addr) ==
  {a \in Text \cup Outside : /\ start_addr <= a /\ a < end_addr
                            /\ \A u \in Undecodable : u < start_addr \/ a < u}

(* They are decoded one after the other.                                     *)
Disassembled(start_addr, end_addr) ==
  LET code == Decodable(start_addr, end_addr)
  IN  CHOOSE addresses \in [1..Cardinality(code) -> code] :
        \A i, j \in DOMAIN addresses : i < j => addresses[i] < addresses[j]

(* Lines are written from the first on, and the buffer is as long as the last*)
(* one written: nothing is left of what it held.                             *)
Write(buffer, instructions) == IF instructions = << >> THEN buffer ELSE instructions

(* Every sequence of the unit, from its first entry to its last, is          *)
(* disassembled into the same lines.                                         *)
get_assembly_buffer(cu) ==
  LET sequences == LineInfo[cu]
      Code(sequence) == Disassembled(sequence[1].address, Last(sequence).address)
      buffer[i \in 0..Len(sequences)] ==
        IF i = 0 THEN << >>
        ELSE IF sequences[i] = << >> THEN buffer[i - 1]
        ELSE Write(buffer[i - 1], Code(sequences[i]))
  IN  buffer[Len(sequences)]

(* The interface and the tables speak of the same units, and any number can  *)
(* be asked for as a line's.  Of a unit that lies in .text, the lines and the*)
(* instructions shown have addresses there.                                  *)
ASSUME ViewsAssumption ==
  /\ CompUnits = 0..(Len(Units) - 1)
  /\ \A cu \in CompUnits : Units[cu + 1].instructions = Len(get_assembly_buffer(cu))
  /\ Lines = 1..(SIZE_MODULUS - 1)
  /\ Undecodable \subseteq Int
  /\ Outside \subseteq Int \ Text
  /\ \A cu \in CompUnits : Units[cu + 1].in_text =>
       /\ \A p \in Positions(cu) :
            ~EntryAt(cu, p).end_sequence => EntryAt(cu, p).address \in Text
       /\ ToSet(get_assembly_buffer(cu)) \subseteq Text

ViewsInit == Init /\ BreakpointsInit

(* What main executes for a line: the toggle; or nothing, where the line has *)
(* no statement or the address of its first is taken; or the assertion that  *)
(* the address lies in .text fails.                                          *)
ExecuteSource(cu, line) ==
  \/ toggle_source_breakpoint(cu, line) /\ outcome' = "ok"
  \/ /\ SourceIndicesAt(cu, line) = {}
     /\ \A p \in FirstStatementOf(cu, line) : EntryAt(cu, p).address \in Addresses
     /\ UNCHANGED tables /\ outcome' = "ok"
  \/ SourceAssertionFails(cu, line) /\ UNCHANGED tables /\ outcome' = "assert"

(* For an instruction of the disassembly, which may lie outside .text too.   *)
ExecuteInstruction(a) ==
  \/ toggle_breakpoint(a) /\ outcome' = "ok"
  \/ AssertionFails(a) /\ UNCHANGED tables /\ outcome' = "assert"

(* A line is only asked for once the lookup has not crashed.                 *)
Toggle ==
  /\ ToggleBreakpoint
  /\ CASE /\ command'.type = "CMD_TOGGLE_SOURCE_BREAKPOINT"
          /\ LookupOutcome(command'.comp_unit_index, command'.line_num) = "ok" ->
            ExecuteSource(command'.comp_unit_index, command'.line_num)
       [] command'.type = "CMD_TOGGLE_BREAKPOINT" ->
            LET shown == get_assembly_buffer(command'.instruction[1])
            IN  ExecuteInstruction(shown[command'.instruction[2] + 1])
       [] OTHER -> UNCHANGED tables

OtherStep ==
  /\ \/ PressKey \/ ResizeKey
     \/ BufferMotion \/ GoToBufferLine \/ ChangeSection \/ Confirm \/ ShowPicker
     \/ SetSourceBuffer \/ SetAssemblyBuffer \/ RunDebuggee \/ OtherMessage \/ Ended
  /\ UNCHANGED tables

ViewsNext == Toggle \/ OtherStep

ViewsSpec == ViewsInit /\ [][ViewsNext]_<<vars, tables>>

-----------------------------------------------------------------------------
(* The windows; nothing is drawn while the terminal is too small.            *)

DrawnRows(w) ==
  {n \in buffers[w].line_pos..(buffers[w].line_count - 1) :
     window_rows # 0 /\ n < buffers[w].line_pos + BufferRows(w)}

(* The source breakpoint that marks a line.                                  *)
MarkOf(n) == FirstOf(SourceIndicesAt(selected_comp_unit_index, n + 1))

(* A line is marked by its breakpoint, and shows that the debuggee is there  *)
(* only if it has one; rip is the address the debuggee is at.                *)
view_source_buffer(rip) ==
  [n \in DrawnRows(WIN_SOURCE) |->
     [is_selected |-> n = buffers[WIN_SOURCE].selected_line,
      is_breakpoint |-> MarkOf(n) # {},
      is_current_instruction |-> \E i \in MarkOf(n) : src_breakpoints[i].address = rip]]

(* Instructions of the line last selected in the source are emphasised, where*)
(* the highlight of the selected row does not hide it.                       *)
Emphasised(a) ==
  selected_line_instructions # << >> /\ selected_line_instructions[1] \in CompUnits
  /\ \E p \in get_instructions_for_line(selected_line_instructions[1],
                                        selected_line_instructions[2]) :
       EntryAt(selected_line_instructions[1], p).address = a

view_assembly_buffer(rip) ==
  LET addresses == get_assembly_buffer(assembly_unit)
  IN  [n \in DrawnRows(WIN_ASSEMBLY) |->
         [address |-> addresses[n + 1],
          is_selected |-> n = buffers[WIN_ASSEMBLY].selected_line,
          is_emphasised |-> /\ n # buffers[WIN_ASSEMBLY].selected_line
                            /\ Emphasised(addresses[n + 1]),
          is_breakpoint |-> IndicesOf(addresses[n + 1]) # {},
          is_current_instruction |-> rip = addresses[n + 1]]]

-----------------------------------------------------------------------------
(* Properties.                                                               *)

SourceMarks ==
  {n \in DrawnRows(WIN_SOURCE) : view_source_buffer(0)[n].is_breakpoint}

AssemblyMarks ==
  {n \in DrawnRows(WIN_ASSEMBLY) : view_assembly_buffer(0)[n].is_breakpoint}

(* The space bar acts on the row that is highlighted: in the assembly window *)
(* that row's mark is flipped and no other; in the source window a mark is   *)
(* taken off, or put where the line has code that can be marked, and no other*)
(* line's mark changes.  Toggling code never marks a line.                   *)
SpaceActsOnSelectedRow ==
  [][Handling("MSG_TOGGLE_BREAKPOINT") /\ outcome' = "ok" =>
       LET row == buffers[focused_win].selected_line
           free == {p \in StatementsOf(source_unit, row + 1) :
                      EntryAt(source_unit, p).address \notin Addresses}
       IN  CASE focused_win = WIN_ASSEMBLY ->
                  /\ row \in DrawnRows(WIN_ASSEMBLY) =>
                       AssemblyMarks' = IF row \in AssemblyMarks THEN AssemblyMarks \ {row}
                                                                 ELSE AssemblyMarks \cup {row}
                  /\ SourceMarks' \subseteq SourceMarks
             [] focused_win = WIN_SOURCE ->
                  /\ SourceMarks' \ {row} = SourceMarks \ {row}
                  /\ row \in SourceMarks => row \notin SourceMarks'
                  /\ /\ row \in DrawnRows(WIN_SOURCE) \ SourceMarks
                     /\ free # {} /\ free = StatementsOf(source_unit, row + 1)
                     => row \in SourceMarks'
             [] OTHER -> SourceMarks' = SourceMarks /\ AssemblyMarks' = AssemblyMarks
    ]_<<vars, tables>>

(* What the two windows show agrees while they show one unit: where the      *)
(* debuggee is at a marked line, the instruction it is at is marked too if it*)
(* is on the screen, and so for every address it may be at.                  *)
WindowsAgree ==
  msg_queue = << >> /\ outcome = "ok" /\ assembly_unit # None =>
    \A a \in Text :
      LET source == view_source_buffer(a)
          assembly == view_assembly_buffer(a)
      IN  (\E n \in DOMAIN source : source[n].is_current_instruction) =>
            \A n \in DOMAIN assembly :
              assembly[n].is_current_instruction => assembly[n].is_breakpoint

(* One sequence of code in .text, all of which can be decoded.               *)
IsOneSequence(cu) ==
  /\ Units[cu + 1].in_text
  /\ \E i \in DOMAIN LineInfo[cu] :
    /\ \A j \in DOMAIN LineInfo[cu] : LineInfo[cu][j] # << >> <=> i = j
    /\ \A u \in Undecodable :
         u < LineInfo[cu][i][1].address \/ Last(LineInfo[cu][i]).address <= u

(* "We can map assembly instructions to the relevant source lines" (README): *)
(* of a unit that is one sequence of code in .text, the disassembly holds the*)
(* instructions of every line, and those of the selected line are the ones   *)
(* emphasised, or hidden by the highlight.  (Of several sequences only the   *)
(* last one with code is shown.  A unit that is opened selects its first line*)
(* without looking it up, and what was emphasised stays until the selection  *)
(* moves.)                                                                   *)
SelectedLineIsShown ==
  LET line == buffers[WIN_SOURCE].selected_line
      shown == ToSet(get_assembly_buffer(assembly_unit))
      selected == {EntryAt(assembly_unit, p).address :
                     p \in get_instructions_for_line(assembly_unit, line + 1)}
  IN  /\ msg_queue = << >> /\ outcome = "ok" /\ assembly_unit # None
      /\ line # 0 /\ line < buffers[WIN_SOURCE].line_count
      /\ IsOneSequence(assembly_unit)
      => selected \subseteq shown /\ {a \in shown : Emphasised(a)} = selected
=============================================================================
