----------------------------- MODULE DebugSession -----------------------------
(***************************************************************************)
(* The operations of src/debug.c on a live debuggee: starting it, patching *)
(* its text, resuming it, collecting its stops and its exit, and reading   *)
(* its output.  Each operator is the part of a function that runs without  *)
(* the debuggee being able to interfere; EventLoop puts them in sequence.  *)
(***************************************************************************)
EXTENDS Inferior

CONSTANTS
  MAX_OUTPUT_SIZE,  (* Size of the output buffer.                            *)
  PathParses,       (* sscanf's %s returns the whole path of the program in  *)
                    (* a line of /proc/pid/maps (it has no blank in it).     *)
  ExecMayFail       (* execv may fail in the forked child.                   *)

ASSUME DebugSessionAssumption ==
  /\ MAX_OUTPUT_SIZE \in Nat \ {0}
  /\ PathParses \in BOOLEAN
  /\ ExecMayFail \in BOOLEAN

VARIABLES
  state,               (* session->state.                                    *)
  inferior_pid,        (* 0, or the process id of the debuggee (1 here).     *)
  inferior_master_fd,  (* -1, or the terminal of the debuggee (3 here).      *)
  cursor,              (* Offset of output.cursor in output.buffer.          *)
  inferior_registers,  (* rip of the register copy that is displayed.        *)
  proc_load_address,   (* Where the session believes the image is mapped.    *)
  regs,                (* rip in inject_breakpoints' local copy.             *)
  index,               (* inject_breakpoints' position in the table.         *)
  peeked,              (* inject_byte's PTRACE_PEEKTEXT succeeded.           *)
  at_breakpoint,       (* The last stop was taken for a breakpoint (history).*)
  resumed_at           (* rip when the debuggee was last resumed (history).  *)

session_vars ==
  <<state, inferior_pid, inferior_master_fd, cursor, inferior_registers,
    proc_load_address, regs, index, peeked, at_breakpoint, resumed_at>>

handles == <<state, inferior_pid, inferior_master_fd>>

locals == <<regs, index, peeked>>

history == <<at_breakpoint, resumed_at>>

DebugState == {"DEBUG_DEAD", "DEBUG_RUNNING", "DEBUG_BREAKPOINT"}

init_debug_session ==
  /\ BreakpointsInit
  /\ state = "DEBUG_DEAD"
  /\ inferior_pid = 0
  /\ inferior_master_fd = -1
  /\ cursor = 0
  /\ inferior_registers = 0
  /\ proc_load_address = 0
  /\ regs = 0
  /\ index = 1
  /\ peeked = FALSE
  /\ at_breakpoint = FALSE
  /\ resumed_at = 0

-----------------------------------------------------------------------------
(* Addresses and text.                                                       *)

get_address_from_vma(v, load) == (load - ElfLoadAddress) + v

get_instruction_pointer_vma ==
  inferior_registers + (ElfLoadAddress - proc_load_address)

(* The start of the first mapping whose path, as sscanf cuts it out of the   *)
(* line, is the program's; an unsuccessful search leaves the old value.      *)
get_load_address(load) == IF PathParses THEN load ELSE proc_load_address

(* What the text of a stopped debuggee becomes when the word at r is written *)
(* back with its low byte replaced.  If the word could not be read it is all *)
(* ones.  Nothing of .text is mapped at an address that is not an image of it*)
Patched(mem, load, r, byte, word_known) ==
  LET Offset(v) == get_address_from_vma(v, load) - r
  IN  [v \in Text |-> CASE Offset(v) = 0 -> byte
                        [] Offset(v) \in 1..7 /\ ~word_known -> 255
                        [] OTHER -> mem[v]]

(* PTRACE_PEEKTEXT and PTRACE_POKETEXT work only on a stopped debuggee.      *)
inject_byte(r, byte, word_known) ==
  memory' = IF proc = "stopped" THEN Patched(memory, image, r, byte, word_known)
                                ELSE memory

(* inject_breakpoints, without interruption, on a fresh image: every         *)
(* breakpoint except one at the instruction pointer.                         *)
Injected(load, believed, ip) ==
  LET Targets == {get_address_from_vma(a, believed) : a \in Addresses} \ {ip}
  IN  [v \in Text |-> IF get_address_from_vma(v, load) \in Targets THEN INT3
                                                                   ELSE TextData[v]]

-----------------------------------------------------------------------------
(* spawn_inferior.  Its waitpid collects the stop at exec, but the SIGCHLD   *)
(* for it stays pending; the debuggee is left stopped, its text patched.     *)
spawn_inferior ==
  /\ state = "DEBUG_DEAD"
  /\ \E load \in LoadAddresses :
       LET ip == get_address_from_vma(Entry, load)
       IN  /\ image' = load
           /\ proc_load_address' = get_load_address(load)
           /\ rip' = ip
           /\ memory' = Injected(load, get_load_address(load), ip)
  /\ proc' = "stopped"
  /\ wstatus' = "none"
  /\ sigchld' = TRUE
  /\ displaced' = {}
  /\ derailed' = FALSE
  /\ pty' = 0
  /\ state' = "DEBUG_RUNNING"
  /\ inferior_pid' = 1
  /\ inferior_master_fd' = 3
  /\ resumed_at' = 0
  /\ UNCHANGED <<cursor, inferior_registers, locals, at_breakpoint>>

(* The child of a failed execv has exited and been waited for: its           *)
(* /proc/pid/maps cannot be opened and get_load_address reads from NULL.     *)
SpawnFails == ExecMayFail /\ state = "DEBUG_DEAD"

(* Mutant of GetRegs: the injection starts at the second breakpoint.         *)
GetRegs_FirstLeftOut ==
  /\ IF proc = "stopped"
       THEN regs' = rip
       ELSE regs' \in {0} \cup {get_address_from_vma(a, proc_load_address) :
                                  a \in Addresses}
  /\ index' = 2
  /\ UNCHANGED inferior_vars
  /\ UNCHANGED <<handles, cursor, inferior_registers, proc_load_address, peeked, history>>

(* continue_inferior, in the steps between which the debuggee may stop.      *)
(* PTRACE_GETREGS on one that is not stopped leaves regs uninitialized.      *)
GetRegs ==
  /\ IF proc = "stopped"
       THEN regs' = rip
       ELSE regs' \in {0} \cup {get_address_from_vma(a, proc_load_address) :
                                  a \in Addresses}
  /\ index' = 1
  /\ UNCHANGED inferior_vars
  /\ UNCHANGED <<handles, cursor, inferior_registers, proc_load_address, peeked, history>>

Target == get_address_from_vma(breakpoints[index].address, proc_load_address)

SkipBreakpoint ==
  /\ index <= Len(breakpoints) /\ Target = regs
  /\ index' = index + 1
  /\ UNCHANGED inferior_vars
  /\ UNCHANGED <<handles, cursor, inferior_registers, proc_load_address, regs, peeked, history>>

(* Mutant of Peek: a trap is also injected at the instruction pointer.       *)
Peek_AtInstructionPointer ==
  /\ index <= Len(breakpoints)
  /\ peeked' = (proc = "stopped")
  /\ UNCHANGED inferior_vars
  /\ UNCHANGED <<handles, cursor, inferior_registers, proc_load_address, regs, index, history>>

Peek ==
  /\ index <= Len(breakpoints) /\ Target # regs
  /\ peeked' = (proc = "stopped")
  /\ UNCHANGED inferior_vars
  /\ UNCHANGED <<handles, cursor, inferior_registers, proc_load_address, regs, index, history>>

Poke ==
  /\ inject_byte(Target, INT3, peeked)
  /\ index' = index + 1
  /\ UNCHANGED <<proc, wstatus, sigchld, image, rip, displaced, derailed, pty>>
  /\ UNCHANGED <<handles, cursor, inferior_registers, proc_load_address, regs, peeked, history>>

(* The locals of inject_breakpoints die when it returns.                     *)
ForgetLocals == regs' = 0 /\ index' = 1 /\ peeked' = FALSE

(* PTRACE_CONT fails unless the debuggee is stopped.  Resuming it discards a *)
(* stop that was not yet waited for; an instruction whose INT3 has run and   *)
(* that was not put back is then skipped.                                    *)
Cont ==
  /\ index > Len(breakpoints)
  /\ ForgetLocals
  /\ UNCHANGED <<handles, cursor, inferior_registers, proc_load_address>>
  /\ IF proc = "stopped"
       THEN /\ proc' = "running"
            /\ wstatus' = "none"
            /\ derailed' = (derailed \/ displaced # {})
            /\ displaced' = {}
            /\ at_breakpoint' = FALSE
            /\ resumed_at' = rip
            /\ UNCHANGED <<sigchld, image, rip, memory, pty>>
       ELSE UNCHANGED inferior_vars /\ UNCHANGED history

-----------------------------------------------------------------------------
(* handle_inferior_signal: one read of the signal descriptor, then one       *)
(* iteration of the waitpid loop per status there is to collect.             *)
ReadSignal ==
  /\ sigchld' = FALSE
  /\ UNCHANGED <<proc, wstatus, code, pty>>
  /\ UNCHANGED session_vars

(* Mutant of ReapExited: the closed terminal stays in the session.           *)
ReapExited_TerminalKept ==
  /\ wstatus = "exited"
  /\ Gone
  /\ state' = "DEBUG_DEAD"
  /\ inferior_pid' = 0
  /\ cursor' = 0
  /\ inferior_registers' = 0
  /\ at_breakpoint' = FALSE
  /\ resumed_at' = 0
  /\ pty' = 0
  /\ UNCHANGED <<inferior_master_fd, sigchld, proc_load_address, locals>>

(* Mutant of ReapExited: the session is not marked dead.                     *)
ReapExited_StateKept ==
  /\ wstatus = "exited"
  /\ Gone
  /\ inferior_pid' = 0
  /\ inferior_master_fd' = -1
  /\ cursor' = 0
  /\ inferior_registers' = 0
  /\ at_breakpoint' = FALSE
  /\ resumed_at' = 0
  /\ pty' = 0
  /\ UNCHANGED <<state, sigchld, proc_load_address, locals>>

ReapExited ==
  /\ wstatus = "exited"
  /\ Gone
  /\ state' = "DEBUG_DEAD"
  /\ inferior_pid' = 0
  /\ inferior_master_fd' = -1
  /\ cursor' = 0
  /\ inferior_registers' = 0
  /\ at_breakpoint' = FALSE
  /\ resumed_at' = 0
  /\ pty' = 0
  /\ UNCHANGED <<sigchld, proc_load_address, locals>>

(* Killed by a signal: waited for, but the session still says it is running. *)
ReapSignaled ==
  /\ wstatus = "signaled"
  /\ Gone
  /\ UNCHANGED <<sigchld, pty>>
  /\ UNCHANGED session_vars

ReapOtherStop ==
  /\ wstatus \in Signals \ {"SIGTRAP"}
  /\ wstatus' = "none"
  /\ UNCHANGED <<proc, sigchld, code, pty>>
  /\ UNCHANGED session_vars

(* Mutant of TrapHits: rip is not moved back before the comparison.          *)
TrapHits_PastTrap ==
  {i \in DOMAIN breakpoints :
     get_address_from_vma(breakpoints[i].address, proc_load_address) = rip}

(* Mutant of TrapHits: link-time addresses are compared with a run-time one. *)
TrapHits_Unrelocated == {i \in DOMAIN breakpoints : breakpoints[i].address = rip - 1}

(* The breakpoints at the instruction before the one rip points to.          *)
TrapHits ==
  {i \in DOMAIN breakpoints :
     get_address_from_vma(breakpoints[i].address, proc_load_address) = rip - 1}

(* Mutant of ReapBreakpoint: the registers are not written back, so rip stays*)
(* past the instruction the trap displaced.                                  *)
ReapBreakpoint_RipKept ==
  /\ wstatus = "SIGTRAP"
  /\ \E i \in FirstOf(TrapHits) :
       inject_byte(rip - 1, breakpoints[i].original_byte, TRUE)
  /\ wstatus' = "none"
  /\ inferior_registers' = rip - 1
  /\ at_breakpoint' = TRUE
  /\ UNCHANGED <<proc, sigchld, image, rip, displaced, derailed, pty>>
  /\ UNCHANGED <<handles, cursor, proc_load_address, locals, resumed_at>>

(* Mutant of ReapBreakpoint: the registers shown are the ones before rip was *)
(* moved back.                                                               *)
ReapBreakpoint_ShownTooEarly ==
  /\ wstatus = "SIGTRAP"
  /\ \E i \in FirstOf(TrapHits) :
       inject_byte(rip - 1, breakpoints[i].original_byte, TRUE)
  /\ wstatus' = "none"
  /\ rip' = rip - 1
  /\ displaced' = {}
  /\ derailed' = (derailed \/ displaced = {})
  /\ inferior_registers' = rip
  /\ at_breakpoint' = TRUE
  /\ UNCHANGED <<proc, sigchld, image, pty>>
  /\ UNCHANGED <<handles, cursor, proc_load_address, locals, resumed_at>>

(* A stop at a breakpoint: its byte is put back and rip moved onto it.  If   *)
(* no INT3 of the debugger had run there, an instruction is repeated.        *)
ReapBreakpoint ==
  /\ wstatus = "SIGTRAP"
  /\ \E i \in FirstOf(TrapHits) :
       inject_byte(rip - 1, breakpoints[i].original_byte, TRUE)
  /\ wstatus' = "none"
  /\ rip' = rip - 1
  /\ displaced' = {}
  /\ derailed' = (derailed \/ displaced = {})
  /\ inferior_registers' = rip - 1
  /\ at_breakpoint' = TRUE
  /\ UNCHANGED <<proc, sigchld, image, pty>>
  /\ UNCHANGED <<handles, cursor, proc_load_address, locals, resumed_at>>

(* Any other SIGTRAP: only the displayed rip moves back.                     *)
ReapTrap ==
  /\ wstatus = "SIGTRAP"
  /\ TrapHits = {}
  /\ wstatus' = "none"
  /\ inferior_registers' = rip - 1
  /\ UNCHANGED <<proc, sigchld, code, pty>>
  /\ UNCHANGED <<handles, cursor, proc_load_address, locals, history>>

Reap == ReapExited \/ ReapSignaled \/ ReapOtherStop \/ ReapBreakpoint \/ ReapTrap

-----------------------------------------------------------------------------
(* Mutant of read_inferior_output: at the end of the buffer only the offset  *)
(* is reset, not the cursor.                                                 *)
read_inferior_output_CursorKept ==
  LET start == IF cursor + 1 > MAX_OUTPUT_SIZE THEN 0 ELSE cursor
  IN  /\ IF inferior_master_fd # -1 /\ pty > 0
           THEN \E n \in 1..(MAX_OUTPUT_SIZE - start) :
                  /\ n <= pty
                  /\ pty' = pty - n
                  /\ cursor' = cursor + n
           ELSE pty' = pty /\ cursor' = cursor
      /\ UNCHANGED <<proc, wstatus, sigchld, code>>
      /\ UNCHANGED <<handles, inferior_registers, proc_load_address, locals, history>>

(* read_inferior_output: the cursor goes back to the start when the buffer   *)
(* is full; a read that fails (closed descriptor, no writer) moves nothing.  *)
read_inferior_output ==
  LET start == IF cursor + 1 > MAX_OUTPUT_SIZE THEN 0 ELSE cursor
  IN  /\ IF inferior_master_fd # -1 /\ pty > 0
           THEN \E n \in 1..(MAX_OUTPUT_SIZE - start) :
                  /\ n <= pty
                  /\ pty' = pty - n
                  /\ cursor' = start + n
           ELSE pty' = pty /\ cursor' = start
      /\ UNCHANGED <<proc, wstatus, sigchld, code>>
      /\ UNCHANGED <<handles, inferior_registers, proc_load_address, locals, history>>

SessionTypeOK ==
  /\ state \in DebugState
  /\ inferior_pid \in {0, 1}
  /\ inferior_master_fd \in {-1, 3}
  /\ cursor \in 0..MAX_OUTPUT_SIZE
  /\ inferior_registers \in Int
  /\ proc_load_address \in Int
  /\ regs \in Int
  /\ index \in Nat \ {0}
  /\ peeked \in BOOLEAN
  /\ at_breakpoint \in BOOLEAN
  /\ resumed_at \in Int
=============================================================================
