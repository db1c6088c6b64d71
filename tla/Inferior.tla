------------------------------- MODULE Inferior -------------------------------
(***************************************************************************)
(* The debuggee as the debugger meets it: a traced process with a patched  *)
(* .text image, its wait status, the SIGCHLD the kernel raises for it and  *)
(* its pseudo terminal.  None of this is code of the repository; it is     *)
(* modelled from what debug.c and dabugger.c rely on (ptrace, waitpid,     *)
(* signalfd, forkpty).  The process runs concurrently with the debugger.   *)
(***************************************************************************)
EXTENDS Breakpoints

CONSTANTS
  ElfLoadAddress,  (* p_vaddr of the first PT_LOAD segment.                  *)
  LoadAddresses,   (* Where the kernel may map that segment.                 *)
  External,        (* An address outside .text (loader, libraries).          *)
  Entry,           (* Where execution begins after exec.                     *)
  Signals,         (* Signals others may send to the debuggee.               *)
  PtyCapacity      (* Output the terminal holds before a write blocks.       *)

INT3 == 204

ASSUME InferiorAssumption ==
  /\ ElfLoadAddress \in Int
  /\ LoadAddresses \subseteq Int
  /\ External \in Int \ Text
  /\ Entry \in Text \cup {External}
  /\ Signals \subseteq {"SIGTRAP", "SIGSEGV", "SIGKILL"}
  /\ PtyCapacity \in Nat

VARIABLES
  proc,       (* "none", "running", "stopped" or "zombie".                   *)
  wstatus,    (* The status waitpid has yet to collect, or "none".           *)
  sigchld,    (* SIGCHLD is pending on the signal file descriptor.           *)
  image,      (* Where the ELF image is mapped in the process.               *)
  rip,        (* Address of the next instruction.                            *)
  memory,     (* The bytes of .text in the process, by link-time address.    *)
  displaced,  (* The instruction whose INT3 just ran, not yet executed.      *)
  derailed,   (* An instruction was skipped or run twice (history).          *)
  pty         (* Bytes written and not yet read from the terminal.           *)

inferior_vars ==
  <<proc, wstatus, sigchld, image, rip, memory, displaced, derailed, pty>>

(* Its position in the program and its text.                                 *)
code == <<image, rip, memory, displaced, derailed>>

(* Link-time and run-time addresses.  The code computes in size_t; here a    *)
(* negative address stands for one that wrapped, which nothing is mapped at. *)
AddressOf(v) == image + (v - ElfLoadAddress)

VmaOf(r) == r - image + ElfLoadAddress

InferiorInit ==
  /\ proc = "none"
  /\ wstatus = "none"
  /\ sigchld = FALSE
  /\ image = 0
  /\ rip = 0
  /\ memory = TextData
  /\ displaced = {}
  /\ derailed = FALSE
  /\ pty = 0

AtTrap == VmaOf(rip) \in Text /\ memory[VmaOf(rip)] = INT3

(* No process: nothing of its execution is left.                             *)
Gone ==
  /\ proc' = "none"
  /\ wstatus' = "none"
  /\ image' = 0
  /\ rip' = 0
  /\ memory' = TextData
  /\ displaced' = {}
  /\ derailed' = FALSE

(* The process stops, or dies, and its tracer is told.                       *)
Report(new_proc, status) ==
  /\ proc' = new_proc
  /\ wstatus' = status
  /\ sigchld' = TRUE

(* An ordinary instruction: control goes anywhere in the program.            *)
Execute ==
  /\ proc = "running" /\ ~derailed /\ ~AtTrap
  /\ \E v \in Text \cup {External} : rip' = AddressOf(v)
  /\ UNCHANGED <<proc, wstatus, sigchld, image, memory, displaced, derailed, pty>>

(* An INT3: the process stops with rip past it.  If the byte is not the      *)
(* program's own, the instruction it replaced has not been executed.         *)
ExecuteTrap ==
  /\ proc = "running" /\ ~derailed /\ AtTrap
  /\ Report("stopped", "SIGTRAP")
  /\ rip' = rip + 1
  /\ displaced' = {VmaOf(rip)} \ {v \in Text : TextData[v] = INT3}
  /\ UNCHANGED <<image, memory, derailed, pty>>

(* A signal stops a traced process before it is delivered.                   *)
SignalStop(sig) ==
  /\ proc = "running"
  /\ sig \in Signals \ {"SIGKILL"}
  /\ Report("stopped", sig)
  /\ UNCHANGED <<code, pty>>

(* SIGKILL cannot be intercepted, and reaches a stopped process too.         *)
Killed ==
  /\ "SIGKILL" \in Signals
  /\ proc \in {"running", "stopped"}
  /\ Report("zombie", "signaled")
  /\ UNCHANGED <<code, pty>>

Exit ==
  /\ proc = "running"
  /\ Report("zombie", "exited")
  /\ UNCHANGED <<code, pty>>

Write ==
  /\ proc = "running" /\ pty < PtyCapacity
  /\ pty' = pty + 1
  /\ UNCHANGED <<proc, wstatus, sigchld, code>>

InferiorStep ==
  \/ Execute
  \/ ExecuteTrap
  \/ \E sig \in Signals : SignalStop(sig)
  \/ Killed
  \/ Exit
  \/ Write

InferiorTypeOK ==
  /\ proc \in {"none", "running", "stopped", "zombie"}
  /\ wstatus \in {"none", "exited", "signaled", "SIGTRAP", "SIGSEGV"}
  /\ sigchld \in BOOLEAN
  /\ image \in Int
  /\ rip \in Int
  /\ memory \in [Text -> Byte]
  /\ displaced \in SUBSET Text
  /\ derailed \in BOOLEAN
  /\ pty \in 0..PtyCapacity
=============================================================================
