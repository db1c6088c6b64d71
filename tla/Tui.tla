--------------------------------- MODULE Tui ---------------------------------
(***************************************************************************)
(* The user interface of src/tui.c: the keys typed so far, and the model   *)
(* update_tui edits (what each window shows, which line is selected and    *)
(* how far it is scrolled, which window has the focus).  One key is read   *)
(* per round of the event loop, and the messages it causes are handled     *)
(* before the next.  Lines are counted in size_t and rows in unsigned, and *)
(* both wrap.                                                              *)
(***************************************************************************)
EXTENDS Integers, Sequences

CONSTANTS
  MAX_INPUT_BUFFER,  (* Size of the input buffer.                            *)
  MIN_TERM_ROWS,     (* Below this height of the terminal nothing is drawn.  *)
  SIZE_MODULUS,      (* Number of values of a size_t.                        *)
  UINT_MODULUS,      (* Number of values of an unsigned.                     *)
  Keys,              (* What is typed; names for the KEY_ macros and digits. *)
  Terminals,         (* Heights the terminal may take.                       *)
  Units              (* The compilation units, in order: the length of the   *)
                     (* source and of the disassembly, if the source file can*)
                     (* be opened, and if all the code that is read for the  *)
                     (* unit, and that a breakpoint can be asked for, lies in*)
                     (* .text.                                               *)

SECTION_ROW_MARGIN == 3

SECTION_COLS == 2

SECTION_COUNT == 4

WIN_SOURCE == 0

WIN_ASSEMBLY == 1

WIN_PICKER == 4

Digits == {"0", "1", "2", "3", "4", "5", "6", "7", "8", "9"}

DigitValue ==
  [d \in Digits |-> CASE d = "0" -> 0 [] d = "1" -> 1 [] d = "2" -> 2
                      [] d = "3" -> 3 [] d = "4" -> 4 [] d = "5" -> 5
                      [] d = "6" -> 6 [] d = "7" -> 7 [] d = "8" -> 8
                      [] d = "9" -> 9]

Motions == {"j", "k", "h", "l", "g", "G", "^U", "^D"}

ASSUME TuiAssumption ==
  /\ MAX_INPUT_BUFFER \in Nat /\ MAX_INPUT_BUFFER > 1
  /\ MIN_TERM_ROWS \in Nat /\ MIN_TERM_ROWS >= 8
  /\ UINT_MODULUS \in Nat /\ UINT_MODULUS > MIN_TERM_ROWS
  /\ SIZE_MODULUS \in Nat /\ SIZE_MODULUS > UINT_MODULUS
  /\ Keys \subseteq Motions \cup Digits
                    \cup {"^W", "^P", "enter", "space", "R", "q", "other"}
  /\ Terminals \subseteq 1..(UINT_MODULUS \div 2 - 1)
  /\ Units \in Seq([lines : 0..(UINT_MODULUS - 1), instructions : 0..(UINT_MODULUS - 1),
                    readable : BOOLEAN, in_text : BOOLEAN])
  /\ Len(Units) < SIZE_MODULUS

VARIABLES
  input,            (* InputBuffer: the keys since it was last cleared.      *)
  msg_queue,        (* The messages of the key being handled.                *)
  buffers,          (* Per window with lines: selection, length and scroll.  *)
  source_unit,      (* The unit whose source is shown, or None.              *)
  assembly_unit,    (* The unit whose disassembly is shown, or None.         *)
  selected_comp_unit_index,    (* The unit breakpoints are toggled in.       *)
  selected_line_instructions,  (* <<unit, line>> last looked up, or << >>.   *)
  focused_win,
  is_picker_open,
  window_rows,      (* Terminal height the windows were last drawn for; 0 if *)
                    (* there are none yet.                                   *)
  command,          (* The command of the last update_tui in this round.     *)
  outcome           (* "ok", or how the debugger crashed: "assert", "segv".  *)

model_vars ==
  <<buffers, source_unit, assembly_unit, selected_comp_unit_index,
    selected_line_instructions, focused_win, is_picker_open>>

vars == <<input, msg_queue, model_vars, window_rows, command, outcome>>

None == -1

SizeT(n) == n % SIZE_MODULUS

CMD_NONE == [type |-> "CMD_NONE"]

TuiBuffer(count) == [selected_line |-> 0, line_count |-> count, line_pos |-> 0]

Init ==
  /\ input = << >>
  /\ msg_queue = << >>
  /\ buffers = [w \in {WIN_SOURCE, WIN_ASSEMBLY, WIN_PICKER} |->
                  TuiBuffer(IF w = WIN_PICKER THEN Len(Units) ELSE 0)]
  /\ source_unit = None
  /\ assembly_unit = None
  /\ selected_comp_unit_index = 0
  /\ selected_line_instructions = << >>
  /\ focused_win = WIN_SOURCE
  /\ is_picker_open = FALSE
  /\ window_rows \in {0} \cup {r \in Terminals : r >= MIN_TERM_ROWS}
  /\ command = CMD_NONE
  /\ outcome = "ok"

-----------------------------------------------------------------------------
(* Keys.                                                                     *)

(* What is told apart of the keys typed: the last one, and the digits it ends*)
(* a run of.  Nothing looks further back, but each still takes its byte.     *)
Remembered(typed, key) ==
  Append([i \in DOMAIN typed |->
            IF {typed[i], key} \subseteq Digits THEN typed[i] ELSE "other"],
         IF key \in Digits \cup {"^W", "g"} THEN key ELSE "other")

(* Mutant of get_input_key: the buffer is cleared one key too late.          *)
get_input_key_OneLate ==
  IF Len(input) = MAX_INPUT_BUFFER THEN << >> ELSE input

(* The keys before the one just typed: a full buffer is cleared, whatever it *)
(* holds.                                                                    *)
get_input_key ==
  IF Len(input) + 1 = MAX_INPUT_BUFFER THEN << >> ELSE input

Previous(typed) == IF typed # << >> THEN typed[Len(typed)] ELSE "nothing"

(* The number the typed keys end with; `default' if there is none.           *)
Number(typed, default) ==
  LET last == Len(typed)
      Begins == {i \in 1..last : \A j \in i..last : typed[j] \in Digits}
      value[i \in 0..last] ==
        IF i \in Begins THEN 10 * value[i - 1] + DigitValue[typed[i]] ELSE 0
  IN  IF Begins = {} THEN default ELSE value[last]

Direction(key) ==
  CASE key = "j" -> "DIR_DOWN"
    [] key = "h" -> "DIR_LEFT"
    [] key = "l" -> "DIR_RIGHT"
    [] OTHER -> "DIR_UP"

(* Amounts share one integer: the relative ones are -3 to 0.                 *)
BUFFER_HALF == -3

BUFFER_FULL == -2

BUFFER_START == -1

BUFFER_END == 0

Motion(type, direction, amount) ==
  [type |-> type, direction |-> direction, amount |-> amount]

MSG_NONE == [type |-> "MSG_NONE"]

(* A second g in a row goes to the first line; the first does nothing yet.   *)
StartOfFile(typed) ==
  IF Previous(typed) = "g"
    THEN Motion("MSG_GO_TO_BUFFER_LINE", "DIR_UP", BUFFER_START)
    ELSE MSG_NONE

on_motion_input(typed, key) ==
  IF Previous(typed) = "^W"
    THEN Motion("MSG_CHANGE_SECTION", Direction(key), 1)
    ELSE CASE key = "^U" -> Motion("MSG_BUFFER_MOTION", "DIR_UP", BUFFER_HALF)
           [] key = "^D" -> Motion("MSG_BUFFER_MOTION", "DIR_DOWN", BUFFER_HALF)
           [] key = "g" -> StartOfFile(typed)
           [] key = "G" -> Motion("MSG_GO_TO_BUFFER_LINE", "DIR_UP",
                                  Number(typed, BUFFER_END))
           [] OTHER -> Motion("MSG_BUFFER_MOTION", Direction(key), Number(typed, 1))

MessageOf(typed, key) ==
  CASE key = "q" -> [type |-> "MSG_QUIT"]
    [] key = "^P" -> [type |-> "MSG_SHOW_PICKER", is_open |-> ~is_picker_open]
    [] key = "enter" -> [type |-> "MSG_CONFIRM"]
    [] key = "space" -> [type |-> "MSG_TOGGLE_BREAKPOINT"]
    [] key = "R" -> [type |-> "MSG_RUN_DEBUGGEE"]
    [] key \in Motions -> on_motion_input(typed, key)
    [] OTHER -> MSG_NONE

(* Only a motion that produced a message clears the keys typed before it.    *)
on_stdin_input(key) ==
  LET m == MessageOf(get_input_key, key)
  IN  /\ msg_queue' = <<m>>
      /\ input' = IF key \in Motions /\ m # MSG_NONE
                    THEN << >>
                    ELSE Remembered(get_input_key, key)

-----------------------------------------------------------------------------
(* Moving in a buffer.                                                       *)

(* getmaxy of a window that was never made is -1.                            *)
BufferRows(w) ==
  LET getmaxy == CASE window_rows = 0 -> -1
                   [] window_rows # 0 /\ w = WIN_PICKER -> window_rows \div 2
                   [] OTHER -> (2 * window_rows) \div 3
  IN  (getmaxy - SECTION_ROW_MARGIN) % UINT_MODULUS

Distance(amount, rows) ==
  CASE amount = BUFFER_HALF -> rows \div 2
    [] amount = BUFFER_FULL -> rows
    [] OTHER -> amount

(* Mutant of Moved: the number of lines that remain below is not looked at.  *)
Moved_PastEnd(b, direction, distance) ==
  CASE direction = "DIR_DOWN" -> SizeT(b.selected_line + distance)
    [] direction = "DIR_UP" ->
         IF b.selected_line >= distance THEN b.selected_line - distance ELSE 0
    [] OTHER -> b.selected_line

Moved(b, direction, distance) ==
  CASE direction = "DIR_DOWN" ->
         IF SizeT(b.line_count - 1 - b.selected_line) >= distance
           THEN SizeT(b.selected_line + distance)
           ELSE SizeT(b.line_count - 1)
    [] direction = "DIR_UP" ->
         IF b.selected_line >= distance THEN b.selected_line - distance ELSE 0
    [] OTHER -> b.selected_line

(* Mutant of GoneTo: a number beyond the last line is taken as it is.        *)
GoneTo_PastEnd(b, amount) ==
  CASE amount = BUFFER_END -> SizeT(b.line_count - 1)
    [] amount = BUFFER_START -> 0
    [] OTHER -> SizeT(amount - 1)

GoneTo(b, amount) ==
  CASE amount = BUFFER_END -> SizeT(b.line_count - 1)
    [] amount = BUFFER_START -> 0
    [] OTHER -> IF SizeT(amount - 1) < SizeT(b.line_count - 1)
                  THEN SizeT(amount - 1)
                  ELSE SizeT(b.line_count - 1)

(* Mutant of Follow: the line after the last one shown counts as shown.      *)
Follow_OneShort(b, line, rows) ==
  [b EXCEPT
     !.selected_line = line,
     !.line_pos =
       CASE line < @ -> line
         [] line >= @ /\ line > rows /\ line > SizeT(@ + rows) ->
              SizeT(line + 1 - rows)
         [] OTHER -> @]

(* The buffer scrolls to keep the selected line in the window.               *)
Follow(b, line, rows) ==
  [b EXCEPT
     !.selected_line = line,
     !.line_pos =
       CASE line < @ -> line
         [] line >= @ /\ SizeT(line + 1) > rows
                      /\ SizeT(line + 1) > SizeT(@ + rows) -> SizeT(line + 1 - rows)
         [] OTHER -> @]

(* Selecting another source line looks its instructions up; line 0 fails     *)
(* get_instructions_for_line's assertion, and a unit that does not exist     *)
(* cannot be read.                                                           *)
LookupOutcome(unit, line_num) ==
  CASE line_num = 0 -> "assert"
    [] line_num # 0 /\ unit >= Len(Units) -> "segv"
    [] OTHER -> "ok"

(* Mutant of LineInstructions: the line before the selected one is looked up.*)
LineInstructions_ZeroIndexed(line) == <<selected_comp_unit_index, line>>

(* The lookup of a selected line; line numbers start at 1.                   *)
LineInstructions(line) == <<selected_comp_unit_index, SizeT(line + 1)>>

SelectLine(line) ==
  LET b == buffers[focused_win]
      found == LookupOutcome(selected_comp_unit_index, SizeT(line + 1))
  IN  /\ buffers' = [buffers EXCEPT
                       ![focused_win] = Follow(b, line, BufferRows(focused_win))]
      /\ IF focused_win = WIN_SOURCE /\ line # b.selected_line
           THEN /\ outcome' = found
                /\ selected_line_instructions' = LineInstructions(line)
           ELSE UNCHANGED <<outcome, selected_line_instructions>>

-----------------------------------------------------------------------------
(* update_tui, by message; each takes its message off the queue.             *)

Handling(type) ==
  /\ outcome = "ok"
  /\ msg_queue # << >> /\ Head(msg_queue).type = type

msg == Head(msg_queue)

HasBuffer == focused_win \in DOMAIN buffers

(* assert(msg.value.motion.amount.relative != BUFFER_START)                  *)
BufferMotion ==
  /\ Handling("MSG_BUFFER_MOTION")
  /\ LET moves == HasBuffer /\ buffers[focused_win].line_count # 0
     IN  CASE moves /\ msg.amount \notin {BUFFER_START, BUFFER_END} ->
                SelectLine(Moved(buffers[focused_win], msg.direction,
                                 Distance(msg.amount, BufferRows(focused_win))))
           [] moves /\ msg.amount = BUFFER_START ->
                /\ outcome' = "assert"
                /\ UNCHANGED <<buffers, selected_line_instructions>>
           [] OTHER -> UNCHANGED <<buffers, selected_line_instructions, outcome>>
  /\ msg_queue' = Tail(msg_queue)
  /\ command' = CMD_NONE
  /\ UNCHANGED <<input, source_unit, assembly_unit, selected_comp_unit_index,
                 focused_win, is_picker_open, window_rows>>

GoToBufferLine ==
  /\ Handling("MSG_GO_TO_BUFFER_LINE")
  /\ IF HasBuffer
       THEN SelectLine(GoneTo(buffers[focused_win], msg.amount))
       ELSE UNCHANGED <<buffers, selected_line_instructions, outcome>>
  /\ msg_queue' = Tail(msg_queue)
  /\ command' = CMD_NONE
  /\ UNCHANGED <<input, source_unit, assembly_unit, selected_comp_unit_index,
                 focused_win, is_picker_open, window_rows>>

NextSection(direction) ==
  CASE direction = "DIR_UP" /\ focused_win >= SECTION_COLS ->
         focused_win - SECTION_COLS
    [] direction = "DIR_DOWN" /\ focused_win < SECTION_COUNT - SECTION_COLS ->
         focused_win + SECTION_COLS
    [] direction = "DIR_LEFT" /\ focused_win > 0 -> focused_win - 1
    [] direction = "DIR_RIGHT" /\ focused_win < SECTION_COUNT - 1 -> focused_win + 1
    [] OTHER -> focused_win

ChangeSection ==
  /\ Handling("MSG_CHANGE_SECTION")
  /\ focused_win' = IF focused_win = WIN_PICKER THEN WIN_PICKER
                                                ELSE NextSection(msg.direction)
  /\ msg_queue' = Tail(msg_queue)
  /\ command' = CMD_NONE
  /\ UNCHANGED <<input, buffers, source_unit, assembly_unit, selected_comp_unit_index,
                 selected_line_instructions, is_picker_open, window_rows, outcome>>

(* Mutant of NewBuffers: only the source is fetched.                         *)
NewBuffers_SourceOnly(unit) ==
  << [type |-> "MSG_SET_SOURCE_BUFFER", unit |-> unit],
     [type |-> "MSG_SHOW_PICKER", is_open |-> FALSE] >>

(* CMD_SELECT_COMP_UNIT in main: the messages with the buffers of a unit.    *)
NewBuffers(unit) ==
  << [type |-> "MSG_SET_SOURCE_BUFFER", unit |-> unit],
     [type |-> "MSG_SET_ASSEMBLY_BUFFER", unit |-> unit],
     [type |-> "MSG_SHOW_PICKER", is_open |-> FALSE] >>

(* Confirming selects the picker's line whether or not the picker is open,   *)
(* and main fetches the new buffers.  A source file that cannot be opened is *)
(* read through a null pointer; code outside .text is disassembled from      *)
(* memory beside the section's copy, which may end the debugger or not; a    *)
(* unit that does not exist has no buffers.                                  *)
Confirm ==
  /\ Handling("MSG_CONFIRM")
  /\ LET unit == buffers[WIN_PICKER].selected_line
         exists == unit < Len(Units)
     IN  /\ selected_comp_unit_index' = unit
         /\ command' = [type |-> "CMD_SELECT_COMP_UNIT", comp_unit_index |-> unit]
         /\ msg_queue' = Tail(msg_queue) \o NewBuffers(IF exists THEN unit ELSE None)
         /\ outcome' \in CASE exists /\ ~Units[unit + 1].readable -> {"segv"}
                            [] exists /\ Units[unit + 1].readable
                                      /\ ~Units[unit + 1].in_text -> {"ok", "segv"}
                            [] OTHER -> {"ok"}
  /\ UNCHANGED <<input, buffers, source_unit, assembly_unit,
                 selected_line_instructions, focused_win, is_picker_open, window_rows>>

(* Mutant of FocusAfter: closing the picker leaves the focus on it.          *)
FocusAfter_Closing(is_open) == IF is_open THEN WIN_PICKER ELSE focused_win

(* The picker takes the focus, and hands it to the source window.            *)
FocusAfter(is_open) ==
  CASE is_open -> WIN_PICKER
    [] ~is_open /\ focused_win = WIN_PICKER -> WIN_SOURCE
    [] OTHER -> focused_win

ShowPicker ==
  /\ Handling("MSG_SHOW_PICKER")
  /\ is_picker_open' = msg.is_open
  /\ focused_win' = FocusAfter(msg.is_open)
  /\ msg_queue' = Tail(msg_queue)
  /\ command' = CMD_NONE
  /\ UNCHANGED <<input, buffers, source_unit, assembly_unit, selected_comp_unit_index,
                 selected_line_instructions, window_rows, outcome>>

(* A window shows new lines from the first one on.                           *)
Refilled(b, count) ==
  [b EXCEPT !.line_count = count, !.line_pos = 0, !.selected_line = 0]

SetSourceBuffer ==
  /\ Handling("MSG_SET_SOURCE_BUFFER")
  /\ IF msg.unit = None
       THEN outcome' = "segv" /\ UNCHANGED <<buffers, source_unit>>
       ELSE /\ buffers' = [buffers EXCEPT
                             ![WIN_SOURCE] = Refilled(@, Units[msg.unit + 1].lines)]
            /\ source_unit' = msg.unit
            /\ outcome' = "ok"
  /\ msg_queue' = Tail(msg_queue)
  /\ command' = CMD_NONE
  /\ UNCHANGED <<input, assembly_unit, selected_comp_unit_index,
                 selected_line_instructions, focused_win, is_picker_open, window_rows>>

SetAssemblyBuffer ==
  /\ Handling("MSG_SET_ASSEMBLY_BUFFER")
  /\ buffers' = [buffers EXCEPT
                   ![WIN_ASSEMBLY] = Refilled(@, Units[msg.unit + 1].instructions)]
  /\ assembly_unit' = msg.unit
  /\ msg_queue' = Tail(msg_queue)
  /\ command' = CMD_NONE
  /\ UNCHANGED <<input, source_unit, selected_comp_unit_index, outcome,
                 selected_line_instructions, focused_win, is_picker_open, window_rows>>

(* What executing a toggle may come to: setting a breakpoint outside .text   *)
(* fails an assertion.  Views says which toggles do.                         *)
ToggleOutcomes(unit) == IF Units[unit + 1].in_text THEN {"ok"} ELSE {"ok", "assert"}

(* The line of the source window, or the address of the selected instruction,*)
(* which cannot be read from a disassembly that is empty or was never made.  *)
ToggleBreakpoint ==
  /\ Handling("MSG_TOGGLE_BREAKPOINT")
  /\ CASE focused_win = WIN_SOURCE ->
            LET line_num == SizeT(buffers[WIN_SOURCE].selected_line + 1)
            IN  /\ command' = [type |-> "CMD_TOGGLE_SOURCE_BREAKPOINT",
                               comp_unit_index |-> selected_comp_unit_index,
                               line_num |-> line_num]
                /\ LET found == LookupOutcome(selected_comp_unit_index, line_num)
                   IN  outcome' \in IF found = "ok"
                                      THEN ToggleOutcomes(selected_comp_unit_index)
                                      ELSE {found}
       [] focused_win = WIN_ASSEMBLY ->
            LET b == buffers[WIN_ASSEMBLY]
            IN  IF b.selected_line < b.line_count
                  THEN /\ command' = [type |-> "CMD_TOGGLE_BREAKPOINT",
                                      instruction |-> <<assembly_unit, b.selected_line>>]
                       /\ outcome' \in ToggleOutcomes(assembly_unit)
                  ELSE command' = CMD_NONE /\ outcome' = "segv"
       [] OTHER -> command' = CMD_NONE /\ outcome' = "ok"
  /\ msg_queue' = Tail(msg_queue)
  /\ UNCHANGED <<input, model_vars, window_rows>>

(* The debuggee is started or goes on.  A start whose execv fails ends in    *)
(* reading the mappings of a process that is gone, through a null pointer;   *)
(* EventLoop says when.                                                      *)
RunDebuggee ==
  /\ Handling("MSG_RUN_DEBUGGEE")
  /\ command' = [type |-> "CMD_RUN_DEBUGGEE"]
  /\ outcome' \in {"ok", "segv"}
  /\ msg_queue' = Tail(msg_queue)
  /\ UNCHANGED <<input, model_vars, window_rows>>

(* A key that asks for nothing; after MSG_QUIT main returns.                 *)
OtherMessage ==
  /\ Handling("MSG_NONE")
  /\ command' = CMD_NONE
  /\ msg_queue' = Tail(msg_queue)
  /\ UNCHANGED <<input, model_vars, window_rows, outcome>>

-----------------------------------------------------------------------------
PressKey ==
  /\ outcome = "ok" /\ msg_queue = << >>
  /\ \E key \in Keys : on_stdin_input(key)
  /\ command' = CMD_NONE
  /\ UNCHANGED <<model_vars, window_rows, outcome>>

(* A change of the terminal's size arrives as a key of its own, and the next *)
(* view_tui resizes the windows unless the terminal is too small.            *)
ResizeKey ==
  /\ outcome = "ok" /\ msg_queue = << >>
  /\ \E rows \in Terminals :
       window_rows' = IF rows < MIN_TERM_ROWS THEN window_rows ELSE rows
  /\ on_stdin_input("other")
  /\ command' = CMD_NONE
  /\ UNCHANGED <<model_vars, outcome>>

Ended ==
  /\ outcome # "ok" \/ (msg_queue # << >> /\ msg.type = "MSG_QUIT")
  /\ UNCHANGED vars

Next ==
  \/ PressKey \/ ResizeKey
  \/ BufferMotion \/ GoToBufferLine \/ ChangeSection \/ Confirm \/ ShowPicker
  \/ SetSourceBuffer \/ SetAssemblyBuffer \/ ToggleBreakpoint \/ RunDebuggee
  \/ OtherMessage
  \/ Ended

Spec == Init /\ [][Next]_vars

-----------------------------------------------------------------------------
(* Properties.                                                               *)

Line == 0..(SIZE_MODULUS - 1)

(* Every variable has its type.  In particular the last byte of the input    *)
(* buffer is never written, so that the number strtoul reads from it ends.   *)
TypeOK ==
  /\ input \in Seq(Digits \cup {"^W", "g", "other"}) /\ Len(input) < MAX_INPUT_BUFFER
  /\ Len(msg_queue) <= 3
  /\ buffers \in [{WIN_SOURCE, WIN_ASSEMBLY, WIN_PICKER} ->
                    [selected_line : Line, line_count : Line, line_pos : Line]]
  /\ source_unit \in {None} \cup 0..(Len(Units) - 1)
  /\ assembly_unit \in {None} \cup 0..(Len(Units) - 1)
  /\ selected_comp_unit_index \in Line
  /\ selected_line_instructions \in {<< >>} \cup (Line \X Line)
  /\ focused_win \in 0..WIN_PICKER
  /\ is_picker_open \in BOOLEAN
  /\ window_rows \in {0} \cup Terminals
  /\ outcome \in {"ok", "assert", "segv"}

(* In a buffer with lines the selection is one of them and the window starts *)
(* at or above it, whatever is typed and however the terminal is resized:    *)
(* the views and update_tui index the lines and addresses with both.         *)
SelectionInBuffer ==
  \A w \in DOMAIN buffers :
    LET b == buffers[w]
    IN  b.line_count > 0 => b.line_pos <= b.selected_line /\ b.selected_line < b.line_count

(* The picker has the focus exactly while it is open, so that its keys never *)
(* go to a window under it and it can always be closed.                      *)
PickerHasFocus == is_picker_open <=> focused_win = WIN_PICKER

(* Between keys, the unit breakpoints are toggled in is the one whose source *)
(* and disassembly are shown (once a unit was chosen).                       *)
UnitsAgree ==
  outcome = "ok" /\ msg_queue = << >> /\ source_unit # None =>
    selected_comp_unit_index = source_unit /\ assembly_unit = source_unit

(* A selection that moves in the source or the disassembly is on the screen  *)
(* afterwards, also when the window had been resized away from it.           *)
MotionShowsSelection ==
  [][\A w \in {WIN_SOURCE, WIN_ASSEMBLY} :
       LET b == buffers'[w]
       IN  b.line_count > 0 /\ b.selected_line # buffers[w].selected_line =>
             /\ b.line_pos <= b.selected_line
             /\ b.selected_line < b.line_pos + BufferRows(w)]_vars

(* Once a unit has been opened, keys end the debugger in these ways only: a  *)
(* start that fails; opening a unit whose source file or code cannot be read;*)
(* a breakpoint asked for in a unit with code outside .text; and what needs a*)
(* line, or an instruction, in a window on a unit that has none.  So no      *)
(* motion, number, resize or change of unit leads to a line or instruction   *)
(* that is not there, and no number that can be typed is taken for a relative*)
(* amount.                                                                   *)
OpenedNeverCrashes ==
  [][source_unit # None /\ assembly_unit # None /\ outcome' # "ok" =>
       \/ Handling("MSG_RUN_DEBUGGEE")
       \/ /\ Handling("MSG_CONFIRM")
          /\ buffers[WIN_PICKER].selected_line < Len(Units)
          /\ LET unit == Units[buffers[WIN_PICKER].selected_line + 1]
             IN  ~unit.readable \/ ~unit.in_text
       \/ Handling("MSG_TOGGLE_BREAKPOINT") /\ ~Units[source_unit + 1].in_text
       \/ focused_win = WIN_SOURCE /\ Units[source_unit + 1].lines = 0
       \/ focused_win = WIN_ASSEMBLY /\ Units[assembly_unit + 1].instructions = 0]_vars

(* assert(line_num != 0) in get_instructions_for_line, checked by a run that *)
(* expects a violation: "G" before a source is shown selects the line before *)
(* the first.                                                                *)
LineNumberIsNotZero ==
  /\ selected_line_instructions # << >> => selected_line_instructions[2] # 0
  /\ command.type = "CMD_TOGGLE_SOURCE_BREAKPOINT" => command.line_num # 0
=============================================================================
