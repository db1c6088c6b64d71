------------------------------ MODULE EventLoop ------------------------------
(***************************************************************************)
(* main of src/dabugger.c: a single-threaded loop that polls the keyboard, *)
(* the signal descriptor and the debuggee's terminal, turns what happened  *)
(* into messages, and carries out the command update_tui returns for each. *)
(* The loop and the debuggee run concurrently.  What the user interface    *)
(* does with a message other than run, toggle, confirm and quit is the     *)
(* subject of Tui.                                                         *)
(***************************************************************************)
EXTENDS DebugSession

CONSTANTS
  Keys,         (* What the user may press, by the message it produces.      *)
  Disciplined   (* The user acts only on what the debugger has shown; see    *)
                (* MayPress and MayToggle.                                   *)

Messages == {"MSG_NONE", "MSG_QUIT", "MSG_RUN_DEBUGGEE", "MSG_TOGGLE_BREAKPOINT",
             "MSG_CONFIRM", "MSG_SHOW_PICKER", "MSG_BUFFER_MOTION",
             "MSG_OUTPUT_UPDATE", "MSG_SET_SOURCE_BUFFER", "MSG_SET_ASSEMBLY_BUFFER"}

ASSUME EventLoopAssumption ==
  /\ Keys \subseteq {"MSG_NONE", "MSG_QUIT", "MSG_RUN_DEBUGGEE",
                     "MSG_TOGGLE_BREAKPOINT", "MSG_CONFIRM", "MSG_SHOW_PICKER",
                     "MSG_BUFFER_MOTION"}
  /\ Disciplined \in BOOLEAN

VARIABLES
  pc,           (* Where the loop is.                                        *)
  msg_queue,    (* Messages not yet handled.                                 *)
  current_msg,  (* The message being handled.                                *)
  ready         (* Descriptors poll reported and the loop has yet to serve.  *)

loop_vars == <<pc, msg_queue, current_msg, ready>>

vars == <<tables, inferior_vars, session_vars, loop_vars>>

Init ==
  /\ init_debug_session
  /\ InferiorInit
  /\ pc = "loop"
  /\ msg_queue = <<"MSG_NONE">>
  /\ current_msg = "MSG_NONE"
  /\ ready = {}

(* Mutant of enqueue_msg: the new message overwrites the queue.              *)
enqueue_msg_Overwrites(m) == msg_queue' = <<m>>

enqueue_msg(m) == msg_queue' = Append(msg_queue, m)

-----------------------------------------------------------------------------
(* The loop.                                                                 *)

(* Mutant of DequeueMessage: the message is not removed.                     *)
DequeueMessage_Kept ==
  /\ pc = "loop"
  /\ \E i \in DOMAIN msg_queue :
       /\ msg_queue[i] # "MSG_NONE"
       /\ \A j \in 1..(i - 1) : msg_queue[j] = "MSG_NONE"
       /\ current_msg' = msg_queue[i]
       /\ msg_queue' = SubSeq(msg_queue, i, Len(msg_queue))
  /\ pc' = "update"
  /\ UNCHANGED <<tables, inferior_vars, session_vars, ready>>

(* dequeue_msg until a message other than MSG_NONE comes out or none is left.*)
DequeueMessage ==
  /\ pc = "loop"
  /\ \E i \in DOMAIN msg_queue :
       /\ msg_queue[i] # "MSG_NONE"
       /\ \A j \in 1..(i - 1) : msg_queue[j] = "MSG_NONE"
       /\ current_msg' = msg_queue[i]
       /\ msg_queue' = SubSeq(msg_queue, i + 1, Len(msg_queue))
  /\ pc' = "update"
  /\ UNCHANGED <<tables, inferior_vars, session_vars, ready>>

DequeueNothing ==
  /\ pc = "loop"
  /\ \A i \in DOMAIN msg_queue : msg_queue[i] = "MSG_NONE"
  /\ current_msg' = "MSG_NONE"
  /\ msg_queue' = << >>
  /\ pc' = "poll"
  /\ UNCHANGED <<tables, inferior_vars, session_vars, ready>>

(* Mutant of ReadyFds: the signal descriptor is not polled.                  *)
ReadyFds_NoSignal ==
  {fd \in {"master"} :
     inferior_master_fd # -1 /\ (pty > 0 \/ proc \in {"zombie", "none"})}

(* Mutant of ReadyFds: poll_fds keeps the descriptor from before the debuggee*)
(* was started.                                                              *)
ReadyFds_NoMaster == {fd \in {"signal"} : sigchld}

(* The terminal is readable, or hung up, when there is output or no writer.  *)
ReadyFds ==
  {fd \in {"signal", "master"} :
     \/ fd = "signal" /\ sigchld
     \/ fd = "master" /\ inferior_master_fd # -1
                      /\ (pty > 0 \/ proc \in {"zombie", "none"})}

(* The descriptors poll reported are served in the order of their indices.   *)
Serve(fds) ==
  /\ ready' = fds
  /\ pc' = CASE "stdin" \in fds -> "stdin"
             [] "stdin" \notin fds /\ "signal" \in fds -> "signal"
             [] fds = {"master"} -> "master"
             [] OTHER -> "update"

Poll(input) ==
  /\ pc = "poll"
  /\ ReadyFds \cup input # {}
  /\ Serve(ReadyFds \cup input)
  /\ UNCHANGED <<tables, inferior_vars, session_vars, msg_queue, current_msg>>

(* Mutant of PollInterrupted: what an earlier poll reported is served again. *)
PollInterrupted_Stale ==
  /\ pc = "poll"
  /\ ReadyFds = {}
  /\ Serve({"stdin", "signal"})
  /\ UNCHANGED <<tables, inferior_vars, session_vars, msg_queue, current_msg>>

(* A signal the debugger handles itself (SIGWINCH) interrupts a poll that    *)
(* waits; it then reports nothing.                                           *)
PollInterrupted ==
  /\ pc = "poll"
  /\ ReadyFds = {}
  /\ Serve({})
  /\ UNCHANGED <<tables, inferior_vars, session_vars, msg_queue, current_msg>>

(* A disciplined user presses R only when nothing runs and its last stop has *)
(* been shown.                                                               *)
MayPress(key) ==
  Disciplined /\ key = "MSG_RUN_DEBUGGEE" =>
    /\ proc # "running"
    /\ wstatus = "none"

on_stdin_input ==
  /\ pc = "stdin"
  /\ \E key \in Keys : MayPress(key) /\ enqueue_msg(key)
  /\ Serve(ready \ {"stdin"})
  /\ UNCHANGED <<tables, inferior_vars, session_vars, current_msg>>

on_signal_child ==
  /\ pc = "signal"
  /\ ReadSignal
  /\ pc' = "reap"
  /\ UNCHANGED <<tables, msg_queue, current_msg, ready>>

ReapOne ==
  /\ pc = "reap"
  /\ Reap
  /\ UNCHANGED <<tables, loop_vars>>

(* Mutant of ReapDone: the loop ends with a status left to collect.          *)
ReapDone_Early ==
  /\ pc = "reap"
  /\ enqueue_msg("MSG_NONE")
  /\ Serve(ready \ {"signal"})
  /\ UNCHANGED <<tables, inferior_vars, session_vars, current_msg>>

ReapDone ==
  /\ pc = "reap"
  /\ wstatus = "none"
  /\ enqueue_msg("MSG_NONE")
  /\ Serve(ready \ {"signal"})
  /\ UNCHANGED <<tables, inferior_vars, session_vars, current_msg>>

on_inferior_pty_update ==
  /\ pc = "master"
  /\ read_inferior_output
  /\ enqueue_msg("MSG_OUTPUT_UPDATE")
  /\ Serve(ready \ {"master"})
  /\ UNCHANGED <<tables, current_msg>>

-----------------------------------------------------------------------------
(* Commands.                                                                 *)

(* PTRACE_O_EXITKILL takes the debuggee along.                               *)
Quit ==
  /\ pc = "update" /\ current_msg = "MSG_QUIT"
  /\ pc' = "exited"
  /\ Gone
  /\ UNCHANGED <<tables, sigchld, pty, session_vars, msg_queue, current_msg, ready>>

(* CMD_SELECT_COMP_UNIT.                                                     *)
Confirm ==
  /\ pc = "update" /\ current_msg = "MSG_CONFIRM"
  /\ msg_queue' = msg_queue \o <<"MSG_SET_SOURCE_BUFFER", "MSG_SET_ASSEMBLY_BUFFER",
                                 "MSG_SHOW_PICKER">>
  /\ pc' = "loop"
  /\ UNCHANGED <<tables, inferior_vars, session_vars, current_msg, ready>>

(* A disciplined user edits the tables only while nothing runs, and removes  *)
(* breakpoints only when there is no debuggee.                               *)
MayToggle ==
  Disciplined =>
    /\ proc # "running" /\ wstatus = "none"
    /\ Addresses \subseteq Addresses' \/ state = "DEBUG_DEAD"

Toggle ==
  /\ pc = "update" /\ current_msg = "MSG_TOGGLE_BREAKPOINT"
  /\ \/ \E a \in Text : toggle_breakpoint(a)
     \/ \E cu \in CompUnits, line \in Lines : toggle_source_breakpoint(cu, line)
  /\ MayToggle
  /\ pc' = "loop"
  /\ UNCHANGED <<inferior_vars, session_vars, msg_queue, current_msg, ready>>

(* A breakpoint asked for at an address outside .text: the assertion of      *)
(* get_text_data ends the debugger.  Which addresses the interface offers is *)
(* the subject of Views; here, those of the line table.                      *)
ToggleCrash ==
  /\ pc = "update" /\ current_msg = "MSG_TOGGLE_BREAKPOINT"
  /\ \E cu \in CompUnits : \E p \in Positions(cu) :
       ~EntryAt(cu, p).end_sequence /\ AssertionFails(EntryAt(cu, p).address)
  /\ UNCHANGED tables
  /\ MayToggle
  /\ pc' = "crashed"
  /\ UNCHANGED <<inferior_vars, session_vars, msg_queue, current_msg, ready>>

(* on_run_inferior.                                                          *)
Spawn ==
  /\ pc = "update" /\ current_msg = "MSG_RUN_DEBUGGEE"
  /\ spawn_inferior
  /\ pc' = "loop"
  /\ UNCHANGED <<tables, msg_queue, current_msg, ready>>

SpawnCrash ==
  /\ pc = "update" /\ current_msg = "MSG_RUN_DEBUGGEE"
  /\ SpawnFails
  /\ pc' = "crashed"
  /\ UNCHANGED <<tables, inferior_vars, session_vars, msg_queue, current_msg, ready>>

ContinueRegs ==
  /\ pc = "update" /\ current_msg = "MSG_RUN_DEBUGGEE"
  /\ state \in {"DEBUG_RUNNING", "DEBUG_BREAKPOINT"}
  /\ GetRegs
  /\ pc' = "inject"
  /\ UNCHANGED <<tables, msg_queue, current_msg, ready>>

ContinueSkip ==
  /\ pc = "inject"
  /\ SkipBreakpoint
  /\ UNCHANGED <<tables, loop_vars>>

ContinuePeek ==
  /\ pc = "inject"
  /\ Peek
  /\ pc' = "poke"
  /\ UNCHANGED <<tables, msg_queue, current_msg, ready>>

ContinuePoke ==
  /\ pc = "poke"
  /\ Poke
  /\ pc' = "inject"
  /\ UNCHANGED <<tables, msg_queue, current_msg, ready>>

ContinueCont ==
  /\ pc = "inject"
  /\ Cont
  /\ pc' = "loop"
  /\ UNCHANGED <<tables, msg_queue, current_msg, ready>>

(* CMD_NONE: a message with no effect on the session, or a toggle where      *)
(* there is nothing to toggle.                                               *)
NoCommand ==
  /\ pc = "update"
  /\ current_msg \notin {"MSG_QUIT", "MSG_CONFIRM", "MSG_RUN_DEBUGGEE"}
  /\ pc' = "loop"
  /\ UNCHANGED <<tables, inferior_vars, session_vars, msg_queue, current_msg, ready>>

(* The debugger's own steps, except where poll waits for the user.           *)
LoopStep ==
  \/ DequeueMessage \/ DequeueNothing
  \/ ReadyFds # {} /\ \E input \in {{}, {"stdin"}} : Poll(input)
  \/ on_stdin_input \/ on_signal_child \/ ReapOne \/ ReapDone \/ on_inferior_pty_update
  \/ Quit \/ Confirm \/ Toggle \/ ToggleCrash \/ Spawn \/ SpawnCrash
  \/ ContinueRegs \/ ContinueSkip \/ ContinuePeek \/ ContinuePoke \/ ContinueCont
  \/ NoCommand

PollInput == ReadyFds = {} /\ Poll({"stdin"})

InferiorAction ==
  /\ pc \notin {"exited", "crashed"}
  /\ InferiorStep
  /\ UNCHANGED <<tables, session_vars, loop_vars>>

Terminated == pc \in {"exited", "crashed"} /\ UNCHANGED vars

Next == LoopStep \/ PollInput \/ PollInterrupted \/ InferiorAction \/ Terminated

Spec == Init /\ [][Next]_vars

(* The operating system runs the debugger whenever it is not blocked in poll.*)
(* Nothing is assumed of the user or of the debuggee.                        *)
FairSpec == Spec /\ WF_vars(LoopStep)

-----------------------------------------------------------------------------
(* Properties that hold whatever the user does.                              *)

(* Every variable has its type: in particular the output cursor stays within *)
(* the buffer, whatever read returns (read_inferior_output).                 *)
TypeOK ==
  /\ BreakpointsTypeOK
  /\ InferiorTypeOK
  /\ SessionTypeOK
  /\ pc \in {"loop", "poll", "stdin", "signal", "reap", "master", "update",
             "inject", "poke", "exited", "crashed"}
  /\ msg_queue \in Seq(Messages)
  /\ current_msg \in Messages
  /\ ready \subseteq {"stdin", "signal", "master"}

(* A stop or exit is never left uncollected: reading the descriptor once and *)
(* then waiting until waitpid has nothing more is enough, although SIGCHLDs  *)
(* that come in between are merged (comment in handle_inferior_signal).      *)
NoLostStatus == wstatus # "none" => sigchld \/ pc = "reap"

(* The session's state, process id and descriptor agree, and a session that  *)
(* calls itself dead has no process: spawn_inferior never forks a second     *)
(* debuggee beside a live one and never loses an open terminal.              *)
SessionMatchesProcess ==
  /\ state = "DEBUG_DEAD" <=> inferior_pid = 0
  /\ state = "DEBUG_DEAD" <=> inferior_master_fd = -1
  /\ state = "DEBUG_DEAD" => proc = "none" /\ pty = 0

(* The loop blocks only in poll: when it gets to a descriptor poll reported, *)
(* handling the earlier ones, and the debuggee, have left it readable.       *)
ReadNeverBlocks ==
  /\ pc = "signal" => sigchld
  /\ pc = "master" => \/ inferior_master_fd = -1
                      \/ pty > 0
                      \/ proc \in {"zombie", "none"}

(* The queue never holds more than one round of poll and one command put in. *)
QueueBounded == Len(msg_queue) <= 5

(* At a breakpoint the address shown is where the debuggee will go on.       *)
ShownWhereStopped ==
  at_breakpoint /\ proc = "stopped" => get_instruction_pointer_vma = VmaOf(rip)

(* Resuming from a breakpoint does not trap again at once: "Will not inject a*)
(* trap at the current instruction pointer, this is to avoid getting stuck in*)
(* a SIGTRAP loop" (inject_breakpoints).                                     *)
NoTrapLoop ==
  [][at_breakpoint /\ proc = "stopped" /\ proc' = "running" => ~AtTrap]_vars

-----------------------------------------------------------------------------
(* Properties of a disciplined user's session.                               *)

(* The debuggee executes its own instructions, each once: a trap is always   *)
(* undone before the debuggee goes on, and nothing but a trap is undone.     *)
NoDerail == ~derailed

(* While the debuggee runs, exactly the breakpoints in the table are in its  *)
(* text; the one it was resumed from may be missing.                         *)
ArmedWhileRunning ==
  proc = "running" =>
    \A v \in Text :
      /\ v \notin Addresses => memory[v] = TextData[v]
      /\ v \in Addresses => memory[v] = INT3 \/ AddressOf(v) = resumed_at

(* The instruction the debuggee will execute once its trap is undone.        *)
Position ==
  CASE proc \in {"none", "zombie"} -> {}
    [] proc \in {"running", "stopped"} /\ displaced # {} -> displaced
    [] OTHER -> {VmaOf(rip)}

Program ==
  INSTANCE DebuggedProgram WITH
    Instructions <- Text,
    Elsewhere <- External,
    FirstPosition <- Entry,
    stops <- Addresses,
    status <- CASE proc = "stopped" -> "paused"
                [] proc = "zombie" -> "ended"
                [] OTHER -> proc,
    position <- Position,
    passes <- IF proc = "running" THEN {VmaOf(resumed_at)} ELSE {}

(* Traps and patched bytes are invisible: seen through Position, the debuggee*)
(* executes its own instructions in the order it would without the debugger, *)
(* and pauses in front of each breakpoint but the one it was resumed from.   *)
ImplementsDebuggedProgram == Program!Spec

-----------------------------------------------------------------------------
(* Liveness.                                                                 *)

Ended == pc \in {"exited", "crashed"}

(* A debuggee that has ended is waited for.                                  *)
ZombieReaped == proc = "zombie" ~> proc = "none"

(* An exit is noticed: the session can start the program again.              *)
ExitNoticed == wstatus = "exited" ~> state = "DEBUG_DEAD" \/ Ended

(* A debuggee blocked on a full terminal can write again.                    *)
WriterUnblocked == pty = PtyCapacity ~> pty < PtyCapacity \/ Ended

(* Quitting is not held up by a debuggee that keeps the other descriptors    *)
(* busy.                                                                     *)
QuitHonoured ==
  (\E i \in DOMAIN msg_queue : msg_queue[i] = "MSG_QUIT") ~> pc = "exited"

(* A disciplined user is shown every breakpoint the debuggee runs into.      *)
BreakpointReported == displaced # {} ~> at_breakpoint \/ proc = "none"

-----------------------------------------------------------------------------
(* A claim of the repository that its code does not keep; runs that expect a *)
(* violation check it.                                                       *)

(* "Sets the breakpoints by inserting an INT3 instruction at each address"   *)
(* other than the instruction pointer (inject_breakpoints).                  *)
InjectSetsEveryBreakpoint ==
  pc = "inject" /\ index > Len(breakpoints) /\ proc \in {"running", "stopped"} =>
    \A v \in Addresses : memory[v] = INT3 \/ AddressOf(v) = rip
=============================================================================
