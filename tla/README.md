# dabugger: a TLA+ model

dabugger is a source-level debugger for x86-64 Linux with a terminal interface.
It reads an ELF file and its DWARF 5 line table, starts the program under
`ptrace`, puts `INT3` bytes at breakpoints, and shows source, disassembly and
output. This directory models its logic in TLA+, checks it with TLC on small
instances and proves part of it for all instances with TLAPS. `PROJECT.json`
gives, for every definition that stands for code, the lines it stands for.

Run anything from this directory:

    tlc -config MCDisciplined.cfg MCEventLoop
    tlapm EventLoopProofs.tla

## 1. Inventory

### Components

**Breakpoint tables** (`debug.c`, 441-653). State: `session->breakpoints`, one
entry per address with the byte `INT3` replaces, and `session->src_breakpoints`,
one entry per source line that stands on an address. Operations: add, remove and
toggle, by address (assembly view) or by line (source view). A line is looked up
in the unit's line table; its first statement's address is the breakpoint's.
Removing by address removes the lines at that address, which removes by line,
which removes by address: mutual recursion over two arrays that shrink and move.
*Correct when* an address has one entry, a line one, a line's address is always
in the address table, and one toggle changes one address.

**Debuggee control** (`debug.c`, 20-317). State: `session->state` (dead, running,
breakpoint; the last is never assigned), pid, terminal descriptor, load address,
a copy of the registers for display, the output buffer. Operations: spawn (fork
on a pseudo terminal, `execv`, wait, find the load address, inject), continue
(inject, `PTRACE_CONT`), handle `SIGCHLD` (collect statuses until there are none;
undo a trap), read output. *Correct when* the debuggee executes its own
instructions in its own order and stops in front of each breakpoint, no stop or
exit is lost, and session and process agree on whether there is a process.

**Event loop** (`dabugger.c`). State: a queue of messages, three polled
descriptors (keyboard, `signalfd`, debuggee terminal). Operations: one round takes
one message, or polls and serves what is ready; the message goes to `update_tui`,
which may return a command: run, toggle, select a unit. *Correct when* it blocks
only in `poll`, attends to everything eventually, and its queue stays bounded.

**User interface, keys and model** (`tui.c`, 66-275, 644-745). State: the input
buffer of pending keys, three text buffers with selection and scroll, the focused
window, the open picker, the unit breakpoints go to. Operations: a key becomes a
message; a message updates the model. *Correct when* a selection is a line of its
buffer and on screen, focus and picker agree, and a toggle goes to the unit and
line that are shown.

**User interface, drawing** (`tui.c`, 277-642): reads model, tables and registers and
changes none of them, except the heights of the windows, which `update_tui` reads.
*Correct when* the marks of both windows agree, and the instructions of the selected
line are the ones emphasised.

**Buffers** (`debug.c`, 319-432): reading a source file, disassembling a unit's
sequences, naming the units for the picker. *Correct when* rows and addresses
correspond, and a name is where the file is.

**Line-number program decoder** (`dwarf.c`, 351-626). State: a register machine and
the tables it appends to. Operations: one per opcode. *Correct when* rows ascend
within a sequence, a sequence ends with its end marker and nowhere else, and marks
belong to the row they were given for.

**Line-number program header** (`dwarf.c`, 8-343; paths in `debug.c`, 72-119). State:
the reader and one header per unit. Operations: one pass over lengths, fixed fields
and two tables of entries whose layout the header itself describes. *Correct when*
what a compiler wrote is what is read, and its program ends where the next unit
begins.

**Binary reader** (`reader.c`): a cursor and what remains; fixed-width numbers,
LEB128, strings. *Correct when* it never passes its end.

**ELF reader** (`elf.c`): one pass that finds four sections and the load address, or
ends the debugger. *Correct when* `get_address_from_vma` maps each address to where
the kernel put it.

**The debuggee and the kernel**: not code of the repository, but half of every
behaviour that is hard here.

### Interaction

`main` is one thread. Keys, `SIGCHLD` and output reach it as readable descriptors;
its handlers put messages into the queue, synchronously or from a command. The
debuggee shares with it: its text (through `PTRACE_PEEKTEXT`/`POKETEXT`), its
registers, a wait status, a pending signal, and a terminal that holds a bounded
amount of output. The debuggee runs, stops, dies and is sent signals by others
between any two system calls of the debugger. The interface calls the tables and
the session through commands; tables and buffers read the decoded line table,
which never changes after start.

### What is hard

- The debuggee may stop, exit or be killed between any two steps of the debugger,
  in particular between two `ptrace` requests whose results are not checked.
- `SIGCHLD`s merge; the one for the stop at exec is left over after spawn.
- A trap must be undone exactly once, and the breakpoint resumed from must not be
  hit again at once, but every other must.
- Keys may arrive at any time: before a stop was noticed, while a debuggee runs.
- Results of one poll are used one after the other while the world moves on; the
  first handler may close the descriptor the third will read.
- Unsigned arithmetic in the interface wraps at empty buffers and hidden windows.
- Two views of the same breakpoints are edited in any order, by rows that scroll.
- Nothing ties the addresses of a line table to `.text`; a breakpoint outside it ends
  the debugger.
- No read of a header is checked, so one field read wrongly shifts all behind it; a
  length that wraps is the last chance to notice.

`PROJECT.json` lists each of these at its line, with the properties meant for it.

## 2. Modules

| module | stands for | used by |
|---|---|---|
| `Breakpoints` | the two tables, the line lookup, all edits | everything below it |
| `RemovalRecursion` | the mutually recursive removal, call by call | `MCBreakpoints`, `BreakpointsProofs` |
| `BreakpointsProofs` | theorems about `Breakpoints` and `RemovalRecursion` | `EventLoopProofs`, `ViewsProofs` |
| `Inferior` (external) | the traced process, its signals and terminal | `DebugSession` |
| `DebugSession` | `debug.c` on a live debuggee | `EventLoop` |
| `EventLoop` | `main`, composed with session, tables and debuggee | `MCEventLoop` |
| `EventLoopProofs` | theorems about `EventLoop`, for every user | `DisciplinedProofs` |
| `DisciplinedProofs` | the debuggee's integrity and the refinement of `DebuggedProgram` | |
| `DebuggedProgram` | abstract: what a debugger promises of a program | refined by `EventLoop` |
| `Tui` | keys, messages and the interface's model | `Views`, `MCTui` |
| `TuiProofs` | theorems about `Tui` | `ViewsProofs` |
| `Views` | `Tui` and `Breakpoints` composed, disassembly, windows drawn | `MCViews` |
| `ViewsProofs` | theorems about `Views` | |
| `Reader` | `reader.c` | `LineHeader` |
| `LineHeader` | header parser and file paths | `DwarfProducer` |
| `ElfFile` | `elf.c` | `Startup` |
| `DwarfProducer` (external) | the bytes a compiler writes and the rows it means | `Startup` |
| `Startup` | everything before the interface opens, byte by byte | `MCStartup` |
| `StartupProofs` | theorems about `Startup` | |
| `LineRegisters` | the registers of line-number programs and their rows | `LineProgram`, `Startup` |
| `LineProgram` | line-number programs of any opcodes, for the theorems | `MCLineProgram` |
| `LineProgramProofs` | theorems about `LineProgram` | |
| `NumberLemmas` | naturals, quotients and ascending listings | `TuiProofs`, `LineProgramProofs` |

`EventLoop` EXTENDS `DebugSession` EXTENDS `Inferior` EXTENDS `Breakpoints`: the
session's actions act on the tables' variables and the process's. `Views` EXTENDS
`Tui` and `Breakpoints`: each toggle `update_tui` returns is executed on the tables in
the step that handled its message, as in `main`, and the windows are functions of the
state reached. `EventLoop` lets a toggle name any line or address, which covers what
`Views` names; `Tui`'s queue and `EventLoop`'s are the same queue seen with and
without the payload of messages. `Startup` comes before all of them: `Units` of `Tui`,
`LineInfo` of `Breakpoints` and `ElfLoadAddress` of `DebugSession` are constants that
stand for what it yields.

### Correspondence

*Names.* Variables and operators have the names of the fields and functions they
model (`inferior_registers`, `inject_byte`, `on_motion_input`). Mutants of a
definition, named after it with a suffix (`CloseGap_OneLate`), are bugs that could
have been written there; they are used to see that a property notices them, and no
specification refers to them.

*Grain.* What no other party can observe or disturb is one step. `spawn_inferior`
is one step, as the debuggee is stopped from exec until it is resumed. Continuing
is many steps (`ContinueRegs`, and for each breakpoint `ContinueSkip`, or
`ContinuePeek` and `ContinuePoke`; then `ContinueCont`), because the code does not
check that the debuggee is stopped and it may be running. A failed `PEEKTEXT`
yields all ones and a successful `POKETEXT` after it writes them, as the code
would. `PTRACE_GETREGS` on a running debuggee leaves `regs` uninitialized: any
value that matters. `handle_inferior_signal` is one step for reading the
descriptor and one for each status it collects; a `SIGKILL` that arrives between
its `waitpid` and its `PTRACE_GETREGS` is not modelled.

*Data.* An instruction is its first address. A byte of text is a number; `INT3` is
204, and a program may have some of its own. The process has one image, mapped
anywhere. The pid is 1 and the terminal's descriptor 3 while there are any.
Registers are `rip`. Output is a count of bytes. Interface text is the number of
its lines; a window is a function from the rows drawn to what distinguishes them. Of
the keys typed only the last and a run of digits before it are told apart, as nothing
looks further back, but each takes its byte (`Remembered`).

*Bytes.* `Startup` reads sections byte by byte. A `uint64_t` has `WIDTH` bits, 16 in
the run: a LEB128 number then takes three bytes instead of ten, the last of which
loses bits as the tenth does. Eight-byte fields keep eight bytes, of which two are
significant; the first four bytes of a unit are compared byte by byte
(`IsDwarf64`). An ELF file is what its headers say and whether the reads that follow
find what they ask for. The header is read one field, format or entry at a time, each
an action with its read: `pc`, `table` and `reader` say where `parse_line_header` is,
and what a field says decides what is read behind it. The program is one action per
opcode, with its operands read and its effect on registers and rows
(`LineRegisters`, instantiated with the fields of the unit's header). A path that was
never assigned is `Undefined`, and following it may or may not end the debugger.

*Ends of the debugger.* Assertions are those of a debug build. An address is in `Text` or it
fails the assertion of `get_text_data`; line tables name any address. A toggle that would
set a breakpoint outside `.text` is no step of `Breakpoints`, ends `EventLoop`
(`ToggleCrash`) and `Views` (`ExecuteSource`, `ExecuteInstruction`), and in `Tui`, which
has no addresses, may end the debugger in a unit with code outside `.text`
(`ToggleOutcomes`, the units' `in_text`). Disassembling past the end of the copy of `.text`
yields what lies there: the instructions `Outside`, or the end of the debugger. A start
whose `execv` fails ends it too, by reading a file that was not opened (`SpawnCrash`, and
`RunDebuggee` of `Tui`).

*Arithmetic.* `Tui` computes in `size_t` and `unsigned` (`SIZE_MODULUS` and
`UINT_MODULUS` values), because its code relies on wrap-around; `LineProgram` cuts
lines to `LINE_MODULUS` values, and leaves addresses (64 bits) unbounded. `Startup` has
numbers of 16 bits for `uint64_t` and 8 for `uint32_t`, and wraps addresses too; the
sum of an operation index and an advance is left to grow.

*History variables.* `derailed` (an instruction was skipped or repeated),
`at_breakpoint`, `resumed_at` in the session and `marked` in the decoder record
what happened for the properties' sake; no guard of the debugger reads them. An
instruction of a derailed debuggee is not executed: what a corrupted program does
next is anyone's guess.

*The disciplined user.* dabugger lets a user press `R` while the debuggee runs,
or remove a breakpoint whose `INT3` is in a live debuggee. Both break the debuggee,
and the code has no guard against either. With `Disciplined`, the user presses `R`
or toggles only when nothing runs and the last stop has been collected, and
removes breakpoints only when there is no debuggee. The properties of the debuggee
itself are checked under that assumption (`MayPress`, `MayToggle`), and so catch none of
what an undisciplined user causes; everything the debugger promises of its own state is
checked without it.

## 3. Runs

| run | config | question |
|---|---|---|
| tables | `MCBreakpoints` | do the tables stay consistent under any edits? |
| disciplined | `MCDisciplined` | is the debuggee debugged faithfully? |
| free_user | `MCFreeUser` | what holds whatever is pressed when? |
| liveness | `MCLiveness` | is everything attended to? |
| interface | `MCTui` | do selection, focus and units stay consistent, whatever is typed? |
| views | `MCViews` | do the windows show, and the space bar change, the right rows? |
| startup | `MCStartup` | is what a compiler wrote what is read? |
| line_programs | `MCLineProgram` | does every program decode to well-formed tables? |
| path_with_blank, run_while_running, own_trap, empty_source | | see *Findings* |

**tables.** Four addresses; two units whose line tables have two sequences, share
addresses, repeat a line, put two lines at one address, and have entries that are
no statements or only end a sequence: every branch of the lookup; and a line whose first
statement lies outside `.text`. Two lines at one address is what makes the recursion interesting. `UniqueAddresses`, `SourceBacked`,
`UniqueSources`: the tables agree. `OneAddressPerToggle`: no toggle adds or drops
more than one address, whatever lines stand on it. `RemovalsRefineRecursion`: every
removal is what the recursive function, call by call, yields, entered by the address
or by any line at it, and they never index past the shrinking array.

**disciplined.** Two adjacent one-byte instructions, so that `rip` after the trap
at one is the address of the other; two load addresses; output larger than the
terminal holds; stops by other signals; kills. `NoDerail`, `ArmedWhileRunning`
(text and table agree while it runs), and `ImplementsDebuggedProgram`: mapped to
the abstract program by `Position` (the instruction next in line once a trap is
undone), every behaviour is one of `DebuggedProgram`, which knows no traps.

**free_user.** Any key at any time, and `SIGTRAP` and `SIGKILL` from outside.
`NoLostStatus`: an uncollected status always has a `SIGCHLD` pending or is being
collected. `SessionMatchesProcess`: no second debuggee beside a live one, no lost
terminal. `ReadNeverBlocks`: what poll announced is still readable when its turn
comes. `QueueBounded`: with the three messages a
confirm enqueues, never more than five wait. `ShownWhereStopped`, `NoTrapLoop`. An
exec may fail here, and a breakpoint be asked for outside `.text`; both end the debugger.

**liveness.** `WF_vars(LoopStep)` only: the operating system runs the debugger when
it is not blocked. `LoopStep` leaves out the polls only a key can end. Nothing is
assumed of the user or the debuggee, which may run, write or stay stopped for ever.
It is weak fairness of the whole loop and not of its actions, because the loop is
one thread whose next step is determined but for input. Exits are noticed, writers
unblocked, quits honoured and breakpoints shown.

**interface.** Four units: one longer than the smaller windows, one with neither lines
nor code, one whose source cannot be opened, one with code outside `.text`. Three heights of the terminal, one too
small to draw. All motions, chords, numbers, the picker, toggles. The input buffer
holds three keys, enough for a chord, a number with its motion, and an overflow.
`SelectionInBuffer`, `PickerHasFocus` and `UnitsAgree` relate what several messages
set one after the other. `MotionShowsSelection` says a motion brings the selection
back on the screen, also after a resize. `OpenedNeverCrashes` names the only ways a
key can end the debugger once a unit is open: a start that fails, a unit that cannot be
read, a breakpoint in a unit with code outside `.text`, a window with no line or
instruction. That no motion, number or resize does is what could be wrong.

**views.** Two units of a few instructions. One is longer than its window, with a line
at two addresses and a line without code; the other has several sequences, of which
the disassembly shows the last, cut at bytes that do not decode and running past the end
of `.text`, a line with the number of a line of the first, so that a mark put in one unit
could show in the other, and a line outside `.text`, where the space bar ends the
debugger. `SpaceActsOnSelectedRow`: from keys to tables to windows, only the row that is
highlighted changes its mark. `WindowsAgree`: where the debuggee is at a marked line
it is at a marked instruction. `SelectedLineIsShown` ("We can map assembly
instructions to the relevant source lines", README): the rows emphasised are those
of the selected line and all of them, in a unit of one sequence. One terminal height,
and no windows at all before the first drawing; motions are single lines.

**startup.** 1546 executables, a thousand of them cut at one byte or another. Units
with every opcode, numbers at the sizes where LEB128 grows, fills its bits or changes
sign, with padding; any two opcodes before and after rows and across sequences, on a
machine with three operations to an instruction; both formats of DWARF; paths in the header
or in `.debug_line_str`; indices, time stamps, sizes and digests in each form DWARF has for
them; relative and absolute names; headers with a path in `.debug_str`, with content of a
vendor's, with a divisor of zero, and without files; pairs of units; units cut at every byte; ELF
files that lack something, or whose segments are in an odd order.
`DecodesWhatWasWritten` compares header, tables and rows with the unit that
`DwarfProducer` encoded. The rows are stated there without a machine: each register of
a row from the instructions since the row, the sequence or the address before
(`MeantRow`), so that whatever one opcode leaves behind in the decoder's registers
shows. It also says which of these headers ends the debugger, and how: `assert(0)` for paths in
`.debug_str` and content of a vendor's, a division by zero, and an invalid path for a unit
without its first file or that file's directory. `TruncationIsNoticed` is about programs longer than their headers; a shorter
one that is cut may pass, as failed reads leave zeros and the length left over can
still fit. `PathsResolve` is about units with a file and an absolute compilation
directory: a unit without one makes the picker read behind an array, and a relative
compilation directory is put in front of itself. `AddressesAreMapped` is about images
whose lowest segment begins on a page.

**line_programs.** Programs of four opcodes then one, on a machine with three
operations to an instruction (so that `op_index` is used), minimum instruction
length 2, a negative `line_base`. Lines are cut to 8 values so that they wrap. Four
opcodes reach: a closed sequence with rows, an open one after it, marks before and
after a row. `AddressFirst` is what the comment of `append_line_info_entry` relies
on: compilers set an address only at the beginning of a sequence.

### Findings

Each is a run that checks a statement of the repository and finds it violated.

- *path_with_blank*: `get_load_address` uses `%s`, which stops at a blank in the
  program's path; the mapping is not found and breakpoints are injected elsewhere.
- *run_while_running*: `R` while the debuggee runs injects nothing, silently.
- *own_trap*: a breakpoint on the program's own `INT3` traps for ever, which the
  comment of `inject_breakpoints` says is avoided.
- *empty_source*: `G` before a unit was chosen ends in `assert(line_num != 0)`.

## 4. Proofs

Each holds for every value of the constants that satisfies the ASSUMEs of the
modules, which TLC evaluates in the runs. Those say what kind of thing a constant is
(`Text` is a set of integers, `TextData` gives each a byte, line tables name any integer, a
capacity is a natural number) and bound neither programs, tables, queues nor users; those of `Tui` say how
the widths of integers and the sizes of terminals and units are ordered. A theorem that
needs more names it as a hypothesis, listed at the end of this section.

**`BreakpointsProofs`.** `TablesInv` is the four properties together: types,
`UniqueAddresses`, `SourceBacked`, `UniqueSources`. None is inductive alone: a line
is set by asking whether its address has a breakpoint, so without `SourceBacked` two
lines could be entered twice, and removing an address keeps `SourceBacked` only if
the address had one entry. First come what shifting (`CloseGapFacts`) and appending
do to an array, then the effect of each of the four updates on the set of addresses
and the set of lines, then one lemma for each toggle. `TogglesOneAddress` follows
from the same effects. `RemovalsAreTheRecursion` gives `RemovalsRefineRecursion`: `removal` is a
recursive function of the loop over the source table (the tables it finds, the address,
the index). `Effect` is what the loop comes to; it solves the recursion (`EffectIsRemoval`)
and nothing else does (`RemovalIsEffect`), as a call is made with a shorter table and the
loop goes on further on, in a table that is not longer. The tables in its domain have unique
addresses and sources: with others a removal by line need not delete the entry it is
called for, so the theorem rests on `TablesInv`.

**`EventLoopProofs`.** `NoLostStatus` and `SessionMatchesProcess` are inductive as
they stand. `ReadNeverBlocks` is not: it speaks of the moment of reading, and what
is to be read was announced by a poll before other handlers ran. `ServedInTime` adds
what is known at each place between: which descriptors are still to be served, and
that those are readable; the debuggee can add output and signals but takes none
away, and an exit leaves the terminal readable. `QueueInv` counts, for each place
in the round, what may have been put in since the queue was empty (`Served`), and
says that a confirm, which puts in three messages at once, is always first with two
behind it at most. It needs the order in which descriptors are served, and so
`ServedInTime`.
`SessionInv` is `TypeOK` with `TablesInv` and `OriginalBytes` (a table entry holds the
program's own byte): the index of an injection stays in the table as the table cannot
be edited while breakpoints are injected, and the cursor in the output buffer
as a read takes no more than there is room for. `ShownWhereStopped` and `NoTrapLoop`
need what a stop is: `StatusOfProcess` ties the status to collect to what the process
has done, `ShownInv` says that at a breakpoint `inferior_registers` is `rip` and nothing
is left to collect, `PassesBy` that an injection compares breakpoints with a `rip` that is
still the debuggee's, and `OwnInstruction` that therefore no `INT3` is at `rip`.

**`DisciplinedProofs`.** The debuggee's integrity for a disciplined user. `RunOrder` and
`RunHeld` lead from the key to the command: at most one run message is on its way,
and until it is carried out the debuggee stays stopped or is killed. So the injection,
a dozen steps long, works on a process that does not move (`InjectInv`: it has the
`rip` of that process, has armed what it has passed, and writes back the word it read).
`TextInv`: each byte of the text is the program's or the `INT3` of a breakpoint in the
table. `DisplacedInv`: a `SIGTRAP` to collect is that of a breakpoint in the table,
has displaced one instruction, and is recognised (`TrapRecognised`). Their
conjunction `DisciplinedInv` gives `NoDerail` and `ArmedWhileRunning`; and with it each
step of session, loop, tables and process is a step of `DebuggedProgram` under the
mapping, or a stutter: one lemma for the process (`DebuggeeRefines`), the statuses
collected, the commands, and the toggles.

**`TuiProofs`.** `TuiInv` adds to `TypeOK`, `SelectionInBuffer` and `PickerHasFocus`: what
the queue may hold (`QueueInv`: a key's message, or what is left of the three that open
a unit, each naming the unit now selected), that buffers are as long as what they
show (`CountsInv`), and that no window that is drawn has less than one line of text
(`RowsInv`). The arithmetic is that of the code, modulo `SIZE_MODULUS` and
`UINT_MODULUS`: `SizeFacts` and `RowsFacts` say where it wraps, `MovedLine` and `GoneToLine`
that a motion in a buffer with lines does not leave it, `Followed` that the scroll comes after. One lemma for
each action, each also with what the step may not do, gives `MotionShowsSelection` and
`OpenedNeverCrashes`: a run and a toggle may end the debugger, and the lemmas of the other
messages leave only the ways it names. `NumberIsNatural` shows that no number that can be typed wraps
into a relative amount.

**`ViewsProofs`.** `ViewsInv` is `TuiInv` and `TablesInv`: each step of `Views` is one of
`Tui` (`ViewsStepsTheInterface`) and leaves the tables alone or edits them by a toggle the
tables know, as what would set a breakpoint outside `.text` ends the debugger before it
does (`ToggledIsText`). That `Tui` may say so only of units that are not `in_text` is what
`ViewsAssumption` asks of `Units`: the lines and instructions of the others are in `.text`.
`WindowsAgree` follows with `SourceBacked`. `SelectedLineIsShown` needs that what is
emphasised is what the present selection looked up (`LookedUp`), although lookup and
selection are set by different messages, and that of one sequence exactly its code is
disassembled.
`SpaceActsOnSelectedRow` has a lemma for each window (`CodeIsToggled`, `LineIsToggled`):
what each edit does to the marks of the lines (`DropSourceMarks`, `AddSourceMarks`), that an
address is on one row of a disassembly (`DisassemblyAscends`), that a line
with statements has a first one, and that the command names the row as it is drawn
(`LineIsNamed`, `InstructionIsNamed`).

**`LineProgramProofs`.** `LineInv` adds to types, `SequencesAreClosed` and
`MarksAreFresh` that the registers never say `end_sequence` between two opcodes: a
row appended with it would end a sequence elsewhere than at its end. One lemma says
what appending does to the table (`AppendedTable`), two what it preserves, two what an
opcode that only sets registers and one that appends must show; then one lemma for
each opcode. `AscendingRows` needs more: every row of the open sequence is at or
before the registers (`Behind`). Without its hypothesis rows can descend, as nothing in
the decoder checks them. `SpecialOpcodesInvert` is arithmetic: the opcode's quotient and
remainder by `line_range` are those that were put in (`QuotientIsUnique`), and the
address is divided and multiplied back.

**`StartupProofs`.** `MappedAnywhere` generalises `AddressesAreMapped` to images at any
page. `DecodedPathsResolve` says `Spec /\ []DecodesWhatWasWritten => []PathsResolve`: where
the header was read as it was written, which the run checks, the path made of it is where the
file is, for all directories and names.

`StartupTypeCorrect` is `TypeOK` for every file, well-formed or not. It needs `TypesInv`:
that the reader is always at an end of a section (`SectionsInv`, by which
`program_end` is a length it may have), what header and table hold between the reads
(`HeaderInv`; the table's `left` says which field of the header is next), that the registers
are set while a program runs (`RegistersInv`), and the places (`ControlInv`). One lemma says of each
read what bounds its value, and that what is left is an end of what there was
(`EndOf`); then there is one for each step.

`UnsignedReadsBack`, `SignedReadsBack`, `FixedReadsBack` and `StringReadsBack` say that each
reader inverts the encoding of `DwarfProducer`, for every width, padding and rest. The
loop of a reader makes the number of its digits (`DigitsMakeTheirNumber`); the groups of a
number are its digits (`GroupsMakeNumber`, and `GroupsMakeComplement` for signed ones), and
the last has the sign (`LastGroupHasTheSign`). `read_sleb128` extends the sign only where
the groups leave a bit; where they leave none, the number as it wraps is the complement.

**`NumberLemmas`.** Least elements of sets of naturals, quotients, ascending listings. What
is defined by recursion on a number (a number typed, the buffer after some sequences) is
proved by the least number at which it would fail (`LeastNatural`).

*Assumptions.* `ReaderAssumption` says that `WIDTH` is more than 7, and that a power of two up to
that of `WIDTH` (and the few bits its groups of seven have more) is twice the one before: true of
every width, and there because the provers know no exponents. `FilesAssumption` says that
sections are bytes and that addresses of segments are natural numbers.

*Hypotheses.* The runs the properties belong to satisfy them.

| hypothesis | theorems | why |
|---|---|---|
| `PathParses` | `BreakpointsShown` | the run *path_with_blank* shows that without it the image is not found |
| `NoOwnTrap` | `NoTrapLoops` | the run *own_trap* shows that without it the theorem is false |
| `Undisturbed` | those of `DisciplinedProofs` | both of these, `Disciplined`, and no `SIGTRAP` from others: the code takes any for a breakpoint's if one is at `rip - 1` |
| `Compiled` | `AscendingRows` | addresses are set where a sequence begins, instructions have a length, and a fixed advance, which clears `op_index`, does advance |
| `line_range` at most `LINE_MODULUS` | `SpecialOpcodesInvert` | 255 and 2^32 in the code |
| `Linked` | `MappedAddresses` | ELF asks for loadable segments in ascending order |
| `Named` | `DecodedPathsResolve` | names are characters, and a file's directory is one of those listed |
| at most `MAX_LEB` groups | `UnsignedReadsBack`, `SignedReadsBack` | the readers refuse longer encodings; without padding every number has one |
| `n < 2^(8 * Words(bytes))` | `FixedReadsBack` | the number fits its bytes and 64 bits |
| `Delimited` | `SelectedLinesAreShown` | DWARF: an end marker is the first byte after a sequence |

*What the proofs changed.* `get_file_path` was written with a `CASE` whose guards
overlapped, so that which path it was depended on the choice TLC makes; it is now the
code's chain of conditions. That a terminal of `MIN_TERM_ROWS` rows fits an `unsigned`,
that there are fewer units than a `size_t` counts, and which numbers a line can
be asked for, was used without being said and is now assumed. What was recursive, or a
fold over data, is a recursive function, about which the provers can be asked: the
readers' loops (`FromDigits`) and the removals (`removal`). A header is zero before it is
read, as the code allocates it, and its fields still to be read are counted. How many
groups a producer needs is the least number of them, not a choice with an operator for
an argument.

*Only model-checked.* Liveness, which needs fairness. Of `Startup`, `DecodesWhatWasWritten`
and `TruncationIsNoticed`: they compare what was read with the encoding of whole units,
concatenations of any length that only induction over them takes apart. What
they are made of, numbers and strings, is in the theorems that end in `ReadsBack`.

## 5. Not modelled

- The text of source lines and of the disassembly, Zydis beyond where instructions
  begin and which cannot be decoded, ncurses; the output and registers windows,
  colours and borders; the picker's list as it is drawn.
- The offsets inside an ELF file, which are taken to lead where they should.
- Allocation failures, which the code marks TODO.
- `stop_inferior`, which is empty; `peek_bytes`, which nothing calls.
- A time stamp in a block, or an address, of more than eight bytes, which would be
  copied over what lies behind its variable; what a release build does where a debug
  build fails an assertion (vendor-defined content is skipped, say).
- What lies in memory behind the copy of `.text`, but for the addresses at which it decodes.
- Values of content types and forms above those of the model's `uint32_t`: a number is kept
  whole where the code's `enum` has 32 bits, which differs only for headers no DWARF has.
- The register `isa`, which is set and never used. That lookups of a line do not look
  at the rows' file (`debug.c`, 458) is modelled; in what file a breakpoint then is, is not.

## 6. Plan

Written in this order, the debuggee's integrity first: `Breakpoints`, `Inferior`,
`DebugSession`, `EventLoop`, `DebuggedProgram`; then `Tui`; then `LineRegisters` and
`LineProgram`; then
`Reader`, `LineHeader`, `ElfFile` and `Startup`; then `Views`.
Left to do:

1. The rows `Startup` decodes as the `LineInfo` of `Breakpoints`, with the file of each
   row, and where a breakpoint set from a line then is.
2. Composition of `Tui` with `EventLoop` on one queue.
3. `DecodesWhatWasWritten` for every header, entry by entry, from the theorems about its
   numbers and strings.
