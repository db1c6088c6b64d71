-------------------------- MODULE DisciplinedProofs --------------------------
(***************************************************************************)
(* Theorems about the sessions of a disciplined user: the debuggee executes*)
(* its own instructions, each once, has the breakpoints of the table in its*)
(* text while it runs, and so implements DebuggedProgram.                  *)
(***************************************************************************)
EXTENDS EventLoopProofs

(* What the theorems of this module are about: the user acts on what is      *)
(* shown, the load address can be found, the program has no trap of its own  *)
(* and nobody else sends it SIGTRAP.                                         *)
Undisturbed ==
  /\ Disciplined
  /\ PathParses
  /\ NoOwnTrap
  /\ "SIGTRAP" \notin Signals

-----------------------------------------------------------------------------
(* From the key that runs the debuggee to the command.                       *)

RunQueued == \E i \in DOMAIN msg_queue : msg_queue[i] = "MSG_RUN_DEBUGGEE"

RunHandled ==
  \/ pc = "update" /\ current_msg = "MSG_RUN_DEBUGGEE"
  \/ pc \in {"inject", "poke"}

(* One run command at a time is on its way.                                  *)
RunOrder ==
  /\ \A i \in DOMAIN msg_queue : msg_queue[i] = "MSG_RUN_DEBUGGEE" => i = 1
  /\ RunHandled => ~RunQueued

(* A debuggee that does not run and of which no stop is left to collect.     *)
Held == proc # "running" /\ wstatus \in {"none", "signaled"}

(* Until the command is carried out the debuggee stays as it was when the key*)
(* was pressed, or is killed.                                                *)
RunHeld == RunQueued \/ RunHandled => Held

(* Such a debuggee only changes by being killed or being resumed.            *)
LEMMA HeldStep ==
  ASSUME Held, [Next]_vars
  PROVE  Held' \/ ContinueCont
<1> USE DEF Held
<1>1. CASE \/ DequeueMessage \/ DequeueNothing \/ on_stdin_input \/ ReapDone
           \/ Confirm \/ Toggle \/ NoCommand \/ SpawnCrash \/ ToggleCrash \/ PollInput \/ PollInterrupted
           \/ \E input \in {{}, {"stdin"}} : Poll(input)
           \/ UNCHANGED vars
  BY <1>1, QuietStep DEF inferior_vars
<1>2. CASE \/ on_signal_child \/ on_inferior_pty_update
           \/ ContinueRegs \/ ContinueSkip \/ ContinuePeek \/ ContinuePoke
  BY <1>2 DEF on_signal_child, ReadSignal, on_inferior_pty_update, read_inferior_output,
     ContinueRegs, ContinueSkip, ContinuePeek, ContinuePoke, GetRegs, SkipBreakpoint, Peek,
     Poke, inferior_vars
<1>3. CASE ReapOne
  BY <1>3 DEF ReapOne, Reap, ReapExited, ReapSignaled, ReapOtherStop, ReapBreakpoint, ReapTrap,
     Gone
<1>4. CASE Quit \/ Spawn
  BY <1>4 DEF Quit, Gone, Spawn, spawn_inferior
<1>5. CASE InferiorAction
  BY <1>5 DEF InferiorAction, InferiorStep, Execute, ExecuteTrap, SignalStop, Killed, Exit,
     Write, Report
<1> QED
  BY <1>1, <1>2, <1>3, <1>4, <1>5 DEF Next, LoopStep, Terminated

(* A message of the loop, or the key, behind the messages that are queued.   *)
LEMMA RunEnqueued ==
  ASSUME QueueInv, RunOrder, NEW m \in Messages, enqueue_msg(m),
         m = "MSG_RUN_DEBUGGEE" => Len(msg_queue) = 0
  PROVE  /\ \A i \in DOMAIN msg_queue' : msg_queue'[i] = "MSG_RUN_DEBUGGEE" => i = 1
         /\ RunQueued' => RunQueued \/ m = "MSG_RUN_DEBUGGEE"
<1>1. msg_queue \in Seq(Messages) /\ msg_queue' = Append(msg_queue, m)
  BY DEF QueueInv, enqueue_msg
<1>2. \A i \in DOMAIN msg_queue' :
        \/ i \in DOMAIN msg_queue /\ msg_queue'[i] = msg_queue[i]
        \/ i = Len(msg_queue) + 1 /\ msg_queue'[i] = m
  BY <1>1, Enqueued
<1> QED
  BY <1>2 DEF RunOrder, RunQueued

(* The messages of a confirm behind those that are queued.                   *)
LEMMA RunConfirmed ==
  ASSUME QueueInv, RunOrder, Confirm
  PROVE  /\ \A i \in DOMAIN msg_queue' : msg_queue'[i] = "MSG_RUN_DEBUGGEE" => i = 1
         /\ RunQueued' => RunQueued
<1> DEFINE more == <<"MSG_SET_SOURCE_BUFFER", "MSG_SET_ASSEMBLY_BUFFER", "MSG_SHOW_PICKER">>
           n == Len(msg_queue)
<1>1. msg_queue \in Seq(Messages) /\ msg_queue' = msg_queue \o more
  BY DEF QueueInv, Confirm
<1>2. more \in Seq(Messages) /\ Len(more) = 3 /\ \A i \in 1..3 : more[i] # "MSG_RUN_DEBUGGEE"
  BY DEF Messages
<1> HIDE DEF more
<1>3. /\ Len(msg_queue \o more) = n + Len(more)
      /\ msg_queue \o more \in Seq(Messages)
      /\ \A i \in 1..(n + Len(more)) :
           (msg_queue \o more)[i] = IF i <= n THEN msg_queue[i] ELSE more[i - n]
  BY <1>1, <1>2, ConcatProperties, Zenon
<1>4. DOMAIN msg_queue' = 1..(n + 3) /\ DOMAIN msg_queue = 1..n /\ n \in Nat
  BY <1>1, <1>2, <1>3
<1>5. \A i \in 1..(n + 3) : msg_queue'[i] = IF i <= n THEN msg_queue[i] ELSE more[i - n]
  BY <1>1, <1>2, <1>3
<1> HIDE DEF n
<1>6. ASSUME NEW i \in DOMAIN msg_queue', msg_queue'[i] = "MSG_RUN_DEBUGGEE"
      PROVE  i \in DOMAIN msg_queue /\ msg_queue[i] = "MSG_RUN_DEBUGGEE"
  <2>1. CASE i <= n
    BY <1>4, <1>5, <1>6, <2>1
  <2>2. CASE ~(i <= n)
    <3>1. i - n \in 1..3 /\ msg_queue'[i] = more[i - n]
      BY <1>4, <1>5, <2>2
    <3> QED
      BY <1>2, <1>6, <3>1
  <2> QED
    BY <2>1, <2>2
<1> QED
  BY <1>6 DEF RunOrder, RunQueued

(* Taking out a message leaves no run command.                               *)
LEMMA RunDequeued ==
  ASSUME QueueInv, RunOrder, DequeueMessage
  PROVE  /\ ~RunQueued'
         /\ current_msg' = "MSG_RUN_DEBUGGEE" => RunQueued
<1> DEFINE n == Len(msg_queue)
<1>1. PICK i \in DOMAIN msg_queue :
        current_msg' = msg_queue[i] /\ msg_queue' = SubSeq(msg_queue, i + 1, n)
  BY DEF DequeueMessage
<1>2. msg_queue \in Seq(Messages) /\ n \in Nat /\ i \in 1..n /\ DOMAIN msg_queue = 1..n
  BY <1>1 DEF QueueInv
<1>3. DOMAIN msg_queue' = 1..(n - i) /\ \A k \in 1..(n - i) : msg_queue'[k] = msg_queue[i + k]
  <2>1. Len(SubSeq(msg_queue, i + 1, n)) = IF i + 1 <= n THEN n - (i + 1) + 1 ELSE 0
    BY <1>2, SubSeqProperties
  <2>2. \A k \in 1..(n - (i + 1) + 1) : SubSeq(msg_queue, i + 1, n)[k] = msg_queue[i + 1 + k - 1]
    BY <1>2, SubSeqProperties
  <2>3. SubSeq(msg_queue, i + 1, n) \in Seq(Messages)
    BY <1>2, SubSeqProperties
  <2> QED
    BY <1>1, <1>2, <2>1, <2>2, <2>3
<1> HIDE DEF n
<1>4. ASSUME NEW k \in DOMAIN msg_queue', msg_queue'[k] = "MSG_RUN_DEBUGGEE"
      PROVE  FALSE
  <2>1. k \in 1..(n - i)
    BY <1>3
  <2>2. i + k \in 1..n /\ i + k # 1
    BY <1>2, <2>1
  <2>3. msg_queue'[k] = msg_queue[i + k]
    BY <1>3, <2>1
  <2> QED
    BY <1>2, <1>4, <2>2, <2>3 DEF RunOrder
<1> QED
  BY <1>1, <1>4 DEF RunQueued

(* A run command comes from a key pressed while the debuggee is held, and the*)
(* queue is empty when a key is.                                             *)
LEMMA RunStep ==
  ASSUME Disciplined
  PROVE  QueueInv /\ RunOrder /\ RunHeld /\ [Next]_vars => RunOrder' /\ RunHeld'
<1> SUFFICES ASSUME QueueInv, RunOrder, RunHeld, [Next]_vars
             PROVE  RunOrder' /\ RunHeld'
  OBVIOUS
<1>1. ASSUME RunQueued' \/ RunHandled' => RunQueued \/ RunHandled,
             ~ContinueCont
      PROVE  RunHeld'
  BY <1>1, HeldStep DEF RunHeld
<1>2. CASE DequeueMessage
  <2>1. ~RunQueued' /\ (current_msg' = "MSG_RUN_DEBUGGEE" => RunQueued)
    BY <1>2, RunDequeued
  <2>2. RunOrder'
    BY <2>1 DEF RunOrder, RunQueued
  <2>3. RunHandled' => RunQueued
    BY <1>2, <2>1 DEF DequeueMessage, RunHandled
  <2>4. ~ContinueCont
    BY <1>2 DEF DequeueMessage, ContinueCont
  <2> QED
    BY <1>1, <2>1, <2>2, <2>3, <2>4
<1>3. CASE DequeueNothing
  <2>1. ~RunQueued' /\ ~RunHandled'
    BY <1>3 DEF DequeueNothing, RunQueued, RunHandled
  <2> QED
    BY <2>1 DEF RunOrder, RunHeld, RunQueued
<1>4. CASE on_stdin_input
  <2>1. PICK key \in Keys : MayPress(key) /\ enqueue_msg(key)
    BY <1>4 DEF on_stdin_input
  <2>2. key \in Messages
    BY EventLoopAssumption DEF Messages
  <2>3. Len(msg_queue) = 0 /\ current_msg = "MSG_NONE"
    BY <1>4 DEF on_stdin_input, QueueInv, Served
  <2>4. /\ \A i \in DOMAIN msg_queue' : msg_queue'[i] = "MSG_RUN_DEBUGGEE" => i = 1
        /\ RunQueued' => RunQueued \/ key = "MSG_RUN_DEBUGGEE"
    BY <2>1, <2>2, <2>3, RunEnqueued
  <2>5. ~RunHandled'
    <3>1. Serve(ready \ {"stdin"}) /\ current_msg' = "MSG_NONE"
      BY <1>4, <2>3 DEF on_stdin_input
    <3> QED
      BY <3>1, ServeFacts DEF RunHandled
  <2>6. key = "MSG_RUN_DEBUGGEE" => Held'
    BY <1>4, <2>1 DEF on_stdin_input, MayPress, Held, inferior_vars
  <2>7. ~ContinueCont
    BY <1>4 DEF on_stdin_input, ContinueCont
  <2> QED
    BY <1>1, <2>4, <2>5, <2>6, <2>7 DEF RunOrder, RunHeld
<1>5. CASE ReapDone \/ on_inferior_pty_update
  <2>1. PICK m \in {"MSG_NONE", "MSG_OUTPUT_UPDATE"} : enqueue_msg(m)
    BY <1>5 DEF ReapDone, on_inferior_pty_update
  <2>2. current_msg = "MSG_NONE"
    BY <1>5 DEF ReapDone, on_inferior_pty_update, QueueInv, Served
  <2>3. m \in Messages /\ m # "MSG_RUN_DEBUGGEE"
    BY DEF Messages
  <2>4. /\ \A i \in DOMAIN msg_queue' : msg_queue'[i] = "MSG_RUN_DEBUGGEE" => i = 1
        /\ RunQueued' => RunQueued
    BY <2>1, <2>3, RunEnqueued
  <2>5. ~RunHandled'
    <3>1. current_msg' = "MSG_NONE" /\ \E fds : Serve(fds)
      BY <1>5, <2>2 DEF ReapDone, on_inferior_pty_update
    <3> QED
      BY <3>1, ServeFacts DEF RunHandled
  <2>6. ~ContinueCont
    BY <1>5 DEF ReapDone, on_inferior_pty_update, ContinueCont
  <2> QED
    BY <1>1, <2>4, <2>5, <2>6 DEF RunOrder
<1>6. CASE Confirm
  <2>1. /\ \A i \in DOMAIN msg_queue' : msg_queue'[i] = "MSG_RUN_DEBUGGEE" => i = 1
        /\ RunQueued' => RunQueued
    BY <1>6, RunConfirmed
  <2>2. ~RunHandled' /\ ~ContinueCont
    BY <1>6 DEF Confirm, RunHandled, ContinueCont
  <2> QED
    BY <1>1, <2>1, <2>2 DEF RunOrder
<1>7. CASE PollInput \/ PollInterrupted \/ \E input \in {{}, {"stdin"}} : Poll(input)
  <2>1. UNCHANGED msg_queue /\ current_msg' = "MSG_NONE" /\ \E fds : Serve(fds)
    BY <1>7 DEF PollInput, PollInterrupted, Poll, QueueInv, Served
  <2>2. ~RunHandled'
    BY <2>1, ServeFacts DEF RunHandled
  <2>3. ~ContinueCont
    BY <1>7 DEF PollInput, PollInterrupted, Poll, ContinueCont
  <2> QED
    BY <1>1, <2>1, <2>2, <2>3 DEF RunOrder, RunQueued
<1>8. CASE \/ on_signal_child \/ Quit \/ Toggle \/ Spawn \/ SpawnCrash \/ ToggleCrash \/ NoCommand
           \/ ContinueRegs \/ ContinuePeek \/ ContinuePoke
  <2>1. UNCHANGED msg_queue /\ (RunHandled' => RunHandled)
    BY <1>8 DEF on_signal_child, Quit, Toggle, Spawn, SpawnCrash, ToggleCrash, NoCommand, ContinueRegs,
       ContinuePeek, ContinuePoke, RunHandled
  <2>2. ~ContinueCont
    BY <1>8 DEF on_signal_child, Quit, Toggle, Spawn, SpawnCrash, ToggleCrash, NoCommand, ContinueRegs,
       ContinuePeek, ContinuePoke, ContinueCont, Peek, Cont
  <2> QED
    BY <1>1, <2>1, <2>2 DEF RunOrder, RunQueued
<1>9. CASE ReapOne \/ ContinueSkip \/ InferiorAction \/ UNCHANGED vars
  <2>1. UNCHANGED <<msg_queue, pc, current_msg>>
    BY <1>9 DEF ReapOne, ContinueSkip, InferiorAction, vars, loop_vars
  <2>2. ~ContinueCont
    BY <2>1 DEF ContinueCont
  <2> QED
    BY <1>1, <2>1, <2>2 DEF RunOrder, RunQueued, RunHandled
<1>10. CASE ContinueCont
  <2>1. RunHandled /\ ~RunHandled' /\ UNCHANGED msg_queue
    BY <1>10 DEF ContinueCont, RunHandled
  <2> QED
    BY <2>1 DEF RunOrder, RunHeld, RunQueued
<1> QED
  BY <1>2, <1>3, <1>4, <1>5, <1>6, <1>7, <1>8, <1>9, <1>10 DEF Next, LoopStep, Terminated

-----------------------------------------------------------------------------
(* The text of the debuggee.                                                 *)

(* What a step is that writes to the text, or ends or starts a process.      *)
LEMMA TextSteps ==
  ASSUME [Next]_vars
  PROVE  \/ UNCHANGED <<memory, image>> /\ (proc' = "none" => proc = "none")
         \/ ContinuePoke
         \/ ReapOne /\ ReapBreakpoint
         \/ Gone /\ UNCHANGED tables
         \/ Spawn
<1>1. CASE \/ DequeueMessage \/ DequeueNothing \/ on_stdin_input \/ ReapDone
           \/ Confirm \/ Toggle \/ NoCommand \/ SpawnCrash \/ ToggleCrash \/ PollInput \/ PollInterrupted
           \/ \E input \in {{}, {"stdin"}} : Poll(input)
           \/ UNCHANGED vars
  BY <1>1, QuietStep DEF inferior_vars
<1>2. CASE \/ on_signal_child \/ on_inferior_pty_update
           \/ ContinueRegs \/ ContinueSkip \/ ContinuePeek
  BY <1>2 DEF on_signal_child, ReadSignal, on_inferior_pty_update, read_inferior_output,
     ContinueRegs, ContinueSkip, ContinuePeek, GetRegs, SkipBreakpoint, Peek, inferior_vars,
     code
<1>3. CASE ReapOne
  BY <1>3 DEF ReapOne, Reap, ReapExited, ReapSignaled, ReapOtherStop, ReapTrap, code
<1>4. CASE Quit
  BY <1>4 DEF Quit
<1>5. CASE ContinueCont
  BY <1>5 DEF ContinueCont, Cont, inferior_vars
<1>6. CASE InferiorAction
  BY <1>6 DEF InferiorAction, InferiorStep, Execute, ExecuteTrap, SignalStop, Killed, Exit,
     Write, Report, code
<1> QED
  BY <1>1, <1>2, <1>3, <1>4, <1>5, <1>6 DEF Next, LoopStep, Terminated

(* What the session takes for the address of an instruction is the address.  *)
LEMMA Relocated ==
  ASSUME SessionInv, LoadKnown, proc # "none", NEW v \in Text
  PROVE  /\ get_address_from_vma(v, proc_load_address) = AddressOf(v)
         /\ VmaOf(AddressOf(v)) = v
         /\ AddressOf(v) \in Int
<1>1. v \in Int /\ ElfLoadAddress \in Int
  BY BreakpointsAssumption, InferiorAssumption
<1>2. image \in Int /\ image = proc_load_address
  BY DEF SessionInv, InferiorTypeOK, LoadKnown
<1> QED
  BY <1>1, <1>2 DEF get_address_from_vma, AddressOf, VmaOf

(* Every byte of the text is the program's, or the INT3 of a breakpoint in   *)
(* the table; without a process the text is the program's.                   *)
TextInv ==
  /\ \A v \in Text : memory[v] = TextData[v] \/ (memory[v] = INT3 /\ v \in Addresses)
  /\ proc = "none" => memory = TextData

(* The breakpoints the injection has passed are in the text, but the one at  *)
(* rip.                                                                      *)
PassedAreArmed ==
  \A j \in DOMAIN breakpoints :
    j < index => \/ memory[breakpoints[j].address] = INT3
                 \/ AddressOf(breakpoints[j].address) = rip

(* An injection into a stopped debuggee has its rip, arms the breakpoints it *)
(* passes, and has read the word it is about to write back.                  *)
InjectInv ==
  pc \in {"inject", "poke"} /\ proc = "stopped" =>
    /\ regs = rip
    /\ PassedAreArmed
    /\ pc = "poke" => peeked

(* inject_byte writes an INT3 over the next breakpoint and changes nothing   *)
(* else.                                                                     *)
LEMMA PokeEffect ==
  ASSUME SessionInv, LoadKnown, PokeInv, InjectInv, ContinuePoke, proc = "stopped",
         NEW v \in Text
  PROVE  /\ breakpoints[index].address \in Addresses
         /\ v = breakpoints[index].address => memory'[v] = INT3
         /\ v # breakpoints[index].address => memory'[v] = memory[v]
<1>1. pc = "poke" /\ inject_byte(Target, INT3, peeked)
  BY DEF ContinuePoke, Poke
<1>2. /\ index \in DOMAIN breakpoints /\ breakpoints[index].address \in Text
      /\ Target \in Int
  BY <1>1, TargetFacts DEF PokeInv
<1>3. peeked /\ peeked \in BOOLEAN
  BY <1>1 DEF InjectInv, SessionInv, SessionTypeOK
<1>4. VmaOf(Target) = breakpoints[index].address
  BY <1>2, Relocated DEF Target
<1>5. InferiorTypeOK
  BY DEF SessionInv
<1>6. PICK known \in BOOLEAN : known /\ inject_byte(Target, INT3, known)
  BY <1>1, <1>3
<1> DEFINE r == Target
           byte == INT3
<1>7. r \in Int /\ inject_byte(r, byte, known)
  BY <1>2, <1>6
<1> HIDE DEF r, byte
<1>8. /\ v = VmaOf(r) => memory'[v] = byte
      /\ v # VmaOf(r) => memory'[v] = memory[v] \/ (memory'[v] = 255 /\ ~known)
  BY <1>5, <1>7, PatchedValue
<1> QED
  BY <1>2, <1>4, <1>6, <1>8 DEF Addresses, r, byte

(* handle_inferior_signal puts the program's own byte back where the trap was*)
(* and changes nothing else.                                                 *)
LEMMA RestoreEffect ==
  ASSUME SessionInv, StatusOfProcess, LoadKnown, ReapBreakpoint, NEW v \in Text
  PROVE  /\ proc = "stopped"
         /\ VmaOf(rip - 1) \in Addresses
         /\ v = VmaOf(rip - 1) => memory'[v] = TextData[v]
         /\ v # VmaOf(rip - 1) => memory'[v] = memory[v]
<1>1. PICK i \in FirstOf(TrapHits) :
        inject_byte(rip - 1, breakpoints[i].original_byte, TRUE)
  BY DEF ReapBreakpoint
<1>2. InferiorTypeOK /\ TableFacts
  BY DEF SessionInv
<1>3. proc = "stopped"
  BY <1>2 DEF ReapBreakpoint, StatusOfProcess, InferiorTypeOK
<1> DEFINE a == breakpoints[i].address
           byte == breakpoints[i].original_byte
           r == rip - 1
<1>4. i \in DOMAIN breakpoints /\ get_address_from_vma(a, proc_load_address) = r
  BY <1>1 DEF FirstOf, TrapHits
<1>5. a \in Text /\ a \in Addresses /\ byte = TextData[a]
  BY <1>2, <1>4, AddressesInText DEF Addresses, TableFacts, OriginalBytes
<1>6. r \in Int
  BY <1>2 DEF InferiorTypeOK
<1>7. VmaOf(r) = a
  BY <1>3, <1>4, <1>5, Relocated
<1>8. PICK known \in BOOLEAN : known /\ inject_byte(r, byte, known)
  BY <1>1
<1> HIDE DEF a, byte, r
<1>9. /\ v = VmaOf(r) => memory'[v] = byte
      /\ v # VmaOf(r) => memory'[v] = memory[v] \/ (memory'[v] = 255 /\ ~known)
  <2>1. InferiorTypeOK /\ inject_byte(r, byte, known)
    BY <1>2, <1>8
  <2> QED
    BY <1>3, <1>6, <2>1, PatchedValue
<1> QED
  BY <1>3, <1>5, <1>7, <1>8, <1>9 DEF r


(* A fresh image has the breakpoints of the table in it and nothing else.    *)
LEMMA SpawnedText ==
  ASSUME PathParses, TableFacts, NEW load \in LoadAddresses, NEW ip, NEW v \in Text
  PROVE  \/ Injected(load, get_load_address(load), ip)[v] = TextData[v]
         \/ Injected(load, get_load_address(load), ip)[v] = INT3 /\ v \in Addresses
<1>1. get_load_address(load) = load
  BY DEF get_load_address
<1>2. /\ Text \subseteq Int /\ LoadAddresses \subseteq Int /\ ElfLoadAddress \in Int
      /\ Addresses \subseteq Int
  BY BreakpointsAssumption, InferiorAssumption, AddressesInText
<1>3. ASSUME NEW a \in Addresses, get_address_from_vma(v, load) = get_address_from_vma(a, load)
      PROVE  v = a
  BY <1>2, <1>3 DEF get_address_from_vma
<1>4. v \notin Addresses =>
        get_address_from_vma(v, load)
          \notin {get_address_from_vma(a, load) : a \in Addresses} \ {ip}
  BY <1>3
<1> QED
  BY <1>1, <1>4 DEF Injected

(* Nothing but the debugger's INT3s is ever in the text beside the program,  *)
(* and a breakpoint is removed only where its INT3 is gone with the process. *)
LEMMA TextStep ==
  ASSUME Disciplined, PathParses
  PROVE  SessionInv /\ StatusOfProcess /\ LoadKnown /\ PokeInv /\ InjectInv /\ TextInv
           /\ [Next]_vars => TextInv'
<1> SUFFICES ASSUME SessionInv, StatusOfProcess, LoadKnown, PokeInv, InjectInv, TextInv,
                    [Next]_vars
             PROVE  TextInv'
  OBVIOUS
<1>0. InferiorTypeOK /\ TableFacts /\ SessionMatchesProcess
  BY DEF SessionInv
<1>1. CASE UNCHANGED <<memory, image>> /\ (proc' = "none" => proc = "none")
  <2>1. CASE UNCHANGED tables
    BY <1>1, <2>1 DEF TextInv, tables, Addresses
  <2>2. CASE Toggle
    <3>1. Addresses \subseteq Addresses' \/ proc = "none"
      BY <1>0, <2>2 DEF Toggle, MayToggle, SessionMatchesProcess
    <3> QED
      BY <1>1, <3>1 DEF TextInv
  <2> QED
    BY <2>1, <2>2, TablesChange
<1>2. CASE ContinuePoke
  <2>1. UNCHANGED <<tables, proc>>
    BY <1>2 DEF ContinuePoke, Poke
  <2>2. proc # "stopped" => memory' = memory
    BY <1>2 DEF ContinuePoke, Poke, inject_byte
  <2>3. proc = "stopped" =>
          \A v \in Text : memory'[v] = memory[v] \/ (memory'[v] = INT3 /\ v \in Addresses)
    BY <1>2, PokeEffect
  <2> QED
    BY <2>1, <2>2, <2>3 DEF TextInv, tables, Addresses
<1>3. CASE ReapOne /\ ReapBreakpoint
  <2>1. UNCHANGED <<tables, proc>> /\ proc = "stopped"
    BY <1>3, RestoreEffect DEF ReapOne, ReapBreakpoint, StatusOfProcess, InferiorTypeOK,
       SessionInv
  <2>2. \A v \in Text : memory'[v] = memory[v] \/ memory'[v] = TextData[v]
    BY <1>3, RestoreEffect
  <2> QED
    BY <2>1, <2>2 DEF TextInv, tables, Addresses
<1>4. CASE Gone /\ UNCHANGED tables
  BY <1>4 DEF Gone, TextInv
<1>5. CASE Spawn
  <2>1. PICK load \in LoadAddresses :
          memory' = Injected(load, get_load_address(load), get_address_from_vma(Entry, load))
    BY <1>5 DEF Spawn, spawn_inferior
  <2>2. \A v \in Text : memory'[v] = TextData[v] \/ (memory'[v] = INT3 /\ v \in Addresses)
    BY <1>0, <2>1, SpawnedText
  <2>3. UNCHANGED tables /\ proc' = "stopped"
    BY <1>5 DEF Spawn, spawn_inferior
  <2> QED
    BY <2>2, <2>3 DEF TextInv, tables, Addresses
<1> QED
  BY <1>1, <1>2, <1>3, <1>4, <1>5, TextSteps

(* An injection that nobody interrupts arms every breakpoint it passes.      *)
LEMMA InjectStep ==
  ASSUME Disciplined, PathParses
  PROVE  SessionInv /\ LoadKnown /\ RunHeld /\ PokeInv /\ InjectInv
           /\ [Next]_vars => InjectInv'
<1> SUFFICES ASSUME SessionInv, LoadKnown, RunHeld, PokeInv, InjectInv, [Next]_vars,
                    pc' \in {"inject", "poke"}, proc' = "stopped"
             PROVE  regs' = rip' /\ PassedAreArmed' /\ (pc' = "poke" => peeked')
  BY DEF InjectInv
<1>0. /\ \A j \in DOMAIN breakpoints : breakpoints[j].address \in Text /\ j \in Int
      /\ DOMAIN breakpoints = 1..Len(breakpoints)
      /\ index \in Int /\ TableFacts
  BY AddressesInText DEF SessionInv, SessionTypeOK, TableFacts, TablesInv, BreakpointsTypeOK,
     Addresses
<1>1. CASE ContinueRegs
  <2>1. regs' = rip' /\ index' = 1 /\ pc' = "inject" /\ UNCHANGED breakpoints
    BY <1>1 DEF ContinueRegs, GetRegs, inferior_vars, tables
  <2>2. PassedAreArmed'
    BY <1>0, <2>1 DEF PassedAreArmed
  <2> QED
    BY <2>1, <2>2
<1>2. CASE ContinueSkip
  <2>1. /\ UNCHANGED <<pc, proc, image, rip, memory, breakpoints, regs>>
        /\ index <= Len(breakpoints) /\ Target = regs /\ index' = index + 1
    BY <1>2 DEF ContinueSkip, SkipBreakpoint, inferior_vars, tables, loop_vars
  <2>2. regs = rip /\ PassedAreArmed /\ pc = "inject"
    BY <1>2, <2>1 DEF ContinueSkip, InjectInv
  <2>3. AddressOf(breakpoints[index].address) = rip
    BY <2>1, <2>2, Relocated, TargetFacts DEF Target
  <2>4. \A j \in DOMAIN breakpoints : j < index' => j < index \/ j = index
    BY <1>0, <2>1
  <2>5. PassedAreArmed'
    BY <2>1, <2>2, <2>3, <2>4 DEF PassedAreArmed, AddressOf
  <2> QED
    BY <2>1, <2>2, <2>5
<1>3. CASE ContinuePeek
  <2>1. /\ UNCHANGED <<proc, image, rip, memory, breakpoints, regs, index>>
        /\ pc = "inject" /\ peeked' = (proc = "stopped")
    BY <1>3 DEF ContinuePeek, Peek, inferior_vars, tables
  <2>2. regs = rip /\ PassedAreArmed
    BY <2>1 DEF InjectInv
  <2>3. PassedAreArmed'
    BY <2>1, <2>2 DEF PassedAreArmed, AddressOf
  <2>4. peeked'
    BY <2>1
  <2> QED
    BY <2>1, <2>2, <2>3, <2>4
<1>4. CASE ContinuePoke
  <2>1. /\ UNCHANGED <<proc, image, rip, breakpoints, regs>>
        /\ pc = "poke" /\ pc' = "inject" /\ index' = index + 1
    BY <1>4 DEF ContinuePoke, Poke, tables
  <2>2. regs = rip /\ PassedAreArmed /\ proc = "stopped"
    BY <2>1 DEF InjectInv
  <2>3. ASSUME NEW j \in DOMAIN breakpoints, j < index'
        PROVE  \/ memory'[breakpoints[j].address] = INT3
               \/ AddressOf(breakpoints[j].address) = rip
    <3> DEFINE v == breakpoints[j].address
    <3>1. v \in Text
      BY <1>0
    <3>2. v = breakpoints[index].address => memory'[v] = INT3
      BY <1>4, <2>2, <3>1, PokeEffect
    <3>3. v # breakpoints[index].address => memory'[v] = memory[v]
      BY <1>4, <2>2, <3>1, PokeEffect
    <3>4. j < index \/ j = index
      BY <1>0, <2>1, <2>3
    <3> QED
      BY <2>2, <3>2, <3>3, <3>4 DEF PassedAreArmed
  <2>4. PassedAreArmed'
    BY <2>1, <2>3 DEF PassedAreArmed, AddressOf
  <2> QED
    BY <2>1, <2>2, <2>4
<1>5. CASE InferiorAction
  <2>1. proc # "running"
    BY <1>5 DEF InferiorAction, loop_vars, RunHeld, RunHandled, Held
  <2> QED
    BY <1>5, <2>1 DEF InferiorAction, InferiorStep, Execute, ExecuteTrap, SignalStop, Killed,
       Exit, Write, Report
<1>6. CASE UNCHANGED vars
  <2>1. UNCHANGED <<pc, proc, image, rip, memory, breakpoints, regs, index, peeked>>
    BY <1>6 DEF vars, inferior_vars, session_vars, loop_vars, tables
  <2>2. regs = rip /\ PassedAreArmed /\ (pc = "poke" => peeked)
    BY <2>1 DEF InjectInv
  <2>3. PassedAreArmed'
    BY <2>1, <2>2 DEF PassedAreArmed, AddressOf
  <2> QED
    BY <2>1, <2>2, <2>3
<1> QED
  BY <1>1, <1>2, <1>3, <1>4, <1>5, <1>6, InjectionSteps


-----------------------------------------------------------------------------
(* Traps and what they displace.                                             *)

(* Only the debugger's own traps stop the debuggee with a SIGTRAP, each      *)
(* displaces the instruction of a breakpoint in the table, and none is       *)
(* pending otherwise.                                                        *)
DisplacedInv ==
  /\ ~derailed
  /\ proc \in {"running", "stopped"} /\ wstatus # "SIGTRAP" => displaced = {}
  /\ wstatus = "SIGTRAP" => /\ displaced = {VmaOf(rip - 1)}
                            /\ VmaOf(rip - 1) \in Addresses

(* The trap of a breakpoint is recognised as such.                           *)
LEMMA TrapRecognised ==
  ASSUME SessionInv, LoadKnown, proc # "none", VmaOf(rip - 1) \in Addresses
  PROVE  TrapHits # {}
<1>1. PICK i \in DOMAIN breakpoints : breakpoints[i].address = VmaOf(rip - 1)
  BY DEF Addresses
<1>2. TableFacts /\ InferiorTypeOK
  BY DEF SessionInv
<1>3. VmaOf(rip - 1) \in Text
  BY <1>2, AddressesInText
<1>4. get_address_from_vma(VmaOf(rip - 1), proc_load_address) = AddressOf(VmaOf(rip - 1))
  BY <1>3, Relocated
<1>5. AddressOf(VmaOf(rip - 1)) = rip - 1
  BY <1>2, InferiorAssumption DEF AddressOf, VmaOf, InferiorTypeOK
<1> QED
  BY <1>1, <1>4, <1>5 DEF TrapHits

(* Executing a trap displaces the instruction of a breakpoint.               *)
LEMMA TrapDisplaces ==
  ASSUME NoOwnTrap, TextInv, InferiorTypeOK, ExecuteTrap
  PROVE  /\ displaced' = {VmaOf(rip - 1)'}
         /\ VmaOf(rip - 1)' \in Addresses
<1>1. VmaOf(rip) \in Text /\ memory[VmaOf(rip)] = INT3
  BY DEF ExecuteTrap, AtTrap
<1>2. VmaOf(rip) \in Addresses
  BY <1>1 DEF TextInv, NoOwnTrap
<1>3. displaced' = {VmaOf(rip)}
  BY DEF ExecuteTrap, NoOwnTrap
<1>4. VmaOf(rip - 1)' = VmaOf(rip)
  BY InferiorAssumption DEF ExecuteTrap, VmaOf, InferiorTypeOK
<1> QED
  BY <1>2, <1>3, <1>4

(* Nothing but a trap is undone, and every trap is undone before the debuggee*)
(* goes on.                                                                  *)
LEMMA DisplacedStep ==
  ASSUME Undisturbed
  PROVE  SessionInv /\ StatusOfProcess /\ LoadKnown /\ RunHeld /\ TextInv /\ DisplacedInv
           /\ [Next]_vars => DisplacedInv'
<1> SUFFICES ASSUME SessionInv, StatusOfProcess, LoadKnown, RunHeld, TextInv, DisplacedInv,
                    [Next]_vars
             PROVE  DisplacedInv'
  OBVIOUS
<1>0. InferiorTypeOK /\ TableFacts
  BY DEF SessionInv
<1>1. ASSUME UNCHANGED <<tables, proc, wstatus, image, rip, displaced, derailed>>
      PROVE  DisplacedInv'
  BY <1>1 DEF DisplacedInv, VmaOf, tables, Addresses
<1>2. CASE \/ DequeueMessage \/ DequeueNothing \/ on_stdin_input \/ ReapDone
           \/ Confirm \/ NoCommand \/ SpawnCrash \/ ToggleCrash \/ PollInput \/ PollInterrupted
           \/ \E input \in {{}, {"stdin"}} : Poll(input)
           \/ UNCHANGED vars
  <2>1. UNCHANGED inferior_vars
    BY <1>2, QuietStep
  <2>2. UNCHANGED tables
    BY <1>2 DEF DequeueMessage, DequeueNothing, on_stdin_input, ReapDone, Confirm, NoCommand,
       SpawnCrash, ToggleCrash, PollInput, PollInterrupted, Poll, vars
  <2> QED
    BY <1>1, <2>1, <2>2 DEF inferior_vars
<1>3. CASE Toggle
  <2>1. wstatus = "none" /\ UNCHANGED inferior_vars
    BY <1>3 DEF Toggle, MayToggle, Undisturbed
  <2> QED
    BY <2>1 DEF DisplacedInv, inferior_vars
<1>4. CASE \/ on_signal_child \/ on_inferior_pty_update
           \/ ContinueRegs \/ ContinueSkip \/ ContinuePeek \/ ContinuePoke
  BY <1>1, <1>4 DEF on_signal_child, ReadSignal, on_inferior_pty_update, read_inferior_output,
     ContinueRegs, ContinueSkip, ContinuePeek, ContinuePoke, GetRegs, SkipBreakpoint, Peek,
     Poke, inferior_vars, code
<1>5. CASE ReapOne
  <2>1. CASE ReapExited \/ ReapSignaled
    BY <2>1 DEF ReapExited, ReapSignaled, Gone, DisplacedInv
  <2>2. CASE ReapOtherStop
    <3>1. wstatus # "SIGTRAP" /\ wstatus' = "none" /\ UNCHANGED <<proc, displaced, derailed>>
      BY <2>2 DEF ReapOtherStop, code
    <3> QED
      BY <3>1 DEF DisplacedInv
  <2>3. CASE ReapBreakpoint
    <3>1. displaced # {} /\ ~derailed
      BY <2>3 DEF ReapBreakpoint, DisplacedInv
    <3>2. ~derailed' /\ displaced' = {} /\ wstatus' = "none"
      BY <2>3, <3>1 DEF ReapBreakpoint
    <3> QED
      BY <3>2 DEF DisplacedInv
  <2>4. CASE ReapTrap
    <3>1. VmaOf(rip - 1) \in Addresses /\ proc # "none" /\ TrapHits = {}
      BY <2>4 DEF ReapTrap, DisplacedInv, StatusOfProcess
    <3> QED
      BY <3>1, TrapRecognised
  <2> QED
    BY <1>5, <2>1, <2>2, <2>3, <2>4 DEF ReapOne, Reap
<1>6. CASE Quit \/ Spawn
  BY <1>6 DEF Quit, Gone, Spawn, spawn_inferior, DisplacedInv
<1>7. CASE ContinueCont
  <2>1. CASE proc = "stopped"
    <3>1. wstatus = "none"
      BY <1>7, <2>1 DEF ContinueCont, RunHeld, RunHandled, Held, StatusOfProcess
    <3>2. displaced = {} /\ ~derailed
      BY <2>1, <3>1 DEF DisplacedInv
    <3>3. ~derailed' /\ displaced' = {} /\ wstatus' = "none"
      BY <1>7, <2>1, <3>2 DEF ContinueCont, Cont
    <3> QED
      BY <3>3 DEF DisplacedInv
  <2>2. CASE proc # "stopped"
    BY <1>1, <1>7, <2>2 DEF ContinueCont, Cont, inferior_vars
  <2> QED
    BY <2>1, <2>2
<1>8. CASE InferiorAction
  <2>1. UNCHANGED tables
    BY <1>8 DEF InferiorAction
  <2>2. CASE Execute
    BY <2>2 DEF Execute, DisplacedInv, StatusOfProcess
  <2>3. CASE ExecuteTrap
    <3>1. displaced' = {VmaOf(rip - 1)'} /\ VmaOf(rip - 1)' \in Addresses'
      BY <1>0, <2>1, <2>3, TrapDisplaces DEF Undisturbed, tables, Addresses
    <3>2. ~derailed' /\ wstatus' = "SIGTRAP"
      BY <2>3 DEF ExecuteTrap, Report, DisplacedInv
    <3> QED
      BY <3>1, <3>2 DEF DisplacedInv
  <2>4. CASE \E sig \in Signals : SignalStop(sig)
    <3>1. /\ proc = "running" /\ wstatus = "none" /\ wstatus' # "SIGTRAP"
          /\ UNCHANGED <<displaced, derailed>>
      BY <2>4 DEF SignalStop, Report, code, Undisturbed, StatusOfProcess
    <3> QED
      BY <3>1 DEF DisplacedInv
  <2>5. CASE Killed \/ Exit
    BY <2>5 DEF Killed, Exit, Report, code, DisplacedInv
  <2>6. CASE Write
    BY <1>1, <2>1, <2>6 DEF Write, code
  <2> QED
    BY <1>8, <2>2, <2>3, <2>4, <2>5, <2>6 DEF InferiorAction, InferiorStep
<1> QED
  BY <1>2, <1>3, <1>4, <1>5, <1>6, <1>7, <1>8 DEF Next, LoopStep, Terminated


-----------------------------------------------------------------------------
(* Breakpoints in the text of a running debuggee.                            *)

(* Every breakpoint is in the text, but the one resumed from.                *)
Armed ==
  proc = "running" =>
    \A v \in Addresses : memory[v] = INT3 \/ AddressOf(v) = resumed_at

(* Resuming arms the breakpoints, and while the debuggee runs neither its    *)
(* text nor the table changes.                                               *)
LEMMA ArmedStep ==
  ASSUME Disciplined
  PROVE  SessionInv /\ StatusOfProcess /\ RunHeld /\ InjectInv /\ Armed /\ [Next]_vars
           => Armed'
<1> SUFFICES ASSUME SessionInv, StatusOfProcess, RunHeld, InjectInv, Armed, [Next]_vars,
                    proc' = "running"
             PROVE  Armed'
  BY DEF Armed
<1>1. ASSUME UNCHANGED <<tables, proc, image, memory, resumed_at>>
      PROVE  Armed'
  BY <1>1 DEF Armed, AddressOf, tables, Addresses
<1>2. CASE \/ DequeueMessage \/ DequeueNothing \/ on_stdin_input \/ ReapDone
           \/ Confirm \/ Toggle \/ NoCommand \/ SpawnCrash \/ ToggleCrash \/ PollInput \/ PollInterrupted
           \/ \E input \in {{}, {"stdin"}} : Poll(input)
           \/ UNCHANGED vars
  <2>1. UNCHANGED inferior_vars /\ UNCHANGED session_vars
    BY <1>2, QuietStep
  <2>2. UNCHANGED tables
    BY <1>2, <2>1, TablesChange DEF Toggle, MayToggle, inferior_vars
  <2> QED
    BY <1>1, <2>1, <2>2 DEF inferior_vars, session_vars
<1>3. CASE on_signal_child \/ on_inferior_pty_update
  BY <1>1, <1>3 DEF on_signal_child, ReadSignal, on_inferior_pty_update,
     read_inferior_output, session_vars, code, history
<1>4. CASE ContinueRegs \/ ContinueSkip \/ ContinuePeek \/ ContinuePoke
  <2>1. proc # "running"
    BY <1>4 DEF ContinueRegs, ContinueSkip, ContinuePeek, ContinuePoke, RunHeld, RunHandled,
       Held
  <2> QED
    BY <1>4, <2>1 DEF ContinueRegs, ContinueSkip, ContinuePeek, ContinuePoke, GetRegs,
       SkipBreakpoint, Peek, Poke, inferior_vars
<1>5. CASE ReapOne
  <2>1. wstatus # "none"
    BY <1>5, InferiorAssumption DEF ReapOne, Reap, ReapExited, ReapSignaled, ReapOtherStop,
       ReapBreakpoint, ReapTrap
  <2>2. proc # "running"
    BY <2>1 DEF StatusOfProcess
  <2> QED
    BY <1>5, <2>2 DEF ReapOne, Reap, ReapExited, ReapSignaled, ReapOtherStop, ReapBreakpoint,
       ReapTrap, Gone
<1>6. CASE Quit \/ Spawn
  BY <1>6 DEF Quit, Gone, Spawn, spawn_inferior
<1>7. CASE ContinueCont
  <2>1. CASE proc = "stopped"
    <3>1. PassedAreArmed /\ index > Len(breakpoints)
      BY <1>7, <2>1 DEF ContinueCont, Cont, InjectInv
    <3>2. /\ DOMAIN breakpoints = 1..Len(breakpoints) /\ Len(breakpoints) \in Nat
          /\ index \in Int
      BY DEF SessionInv, SessionTypeOK, TableFacts, TablesInv, BreakpointsTypeOK
    <3>3. \A j \in DOMAIN breakpoints : j < index
      BY <3>1, <3>2
    <3>4. \A v \in Addresses : memory[v] = INT3 \/ AddressOf(v) = rip
      BY <3>1, <3>3 DEF PassedAreArmed, Addresses
    <3>5. UNCHANGED <<tables, image, memory>> /\ resumed_at' = rip
      BY <1>7, <2>1 DEF ContinueCont, Cont
    <3> QED
      BY <3>4, <3>5 DEF Armed, AddressOf, tables, Addresses
  <2>2. CASE proc # "stopped"
    BY <1>1, <1>7, <2>2 DEF ContinueCont, Cont, inferior_vars, history
  <2> QED
    BY <2>1, <2>2
<1>8. CASE InferiorAction
  <2>1. CASE Execute \/ Write
    BY <1>1, <1>8, <2>1 DEF InferiorAction, Execute, Write, code, session_vars
  <2>2. CASE ExecuteTrap \/ Killed \/ Exit \/ \E sig \in Signals : SignalStop(sig)
    BY <2>2 DEF ExecuteTrap, Killed, Exit, SignalStop, Report
  <2> QED
    BY <1>8, <2>1, <2>2 DEF InferiorAction, InferiorStep
<1> QED
  BY <1>2, <1>3, <1>4, <1>5, <1>6, <1>7, <1>8 DEF Next, LoopStep, Terminated

-----------------------------------------------------------------------------
(* The invariant of a disciplined session, and what follows from it.         *)

DisciplinedInv ==
  /\ SessionInv
  /\ StatusOfProcess
  /\ LoadKnown
  /\ RunOrder
  /\ RunHeld
  /\ PokeInv
  /\ TextInv
  /\ InjectInv
  /\ DisplacedInv
  /\ Armed

(* Every part of it is kept by every step, given the others.                 *)
LEMMA DisciplinedInvariant ==
  ASSUME Undisturbed
  PROVE  Spec => []DisciplinedInv
<1>1. Init => /\ StatusOfProcess /\ LoadKnown /\ RunOrder /\ RunHeld /\ PokeInv /\ TextInv
              /\ InjectInv /\ DisplacedInv /\ Armed
  <2> SUFFICES ASSUME Init
               PROVE  /\ StatusOfProcess /\ LoadKnown /\ RunOrder /\ RunHeld /\ PokeInv
                      /\ TextInv /\ InjectInv /\ DisplacedInv /\ Armed
    OBVIOUS
  <2>1. /\ proc = "none" /\ wstatus = "none" /\ memory = TextData /\ displaced = {}
        /\ ~derailed /\ pc = "loop" /\ msg_queue = <<"MSG_NONE">>
    BY DEF Init, InferiorInit
  <2>2. StatusOfProcess /\ LoadKnown /\ PokeInv /\ TextInv /\ InjectInv /\ DisplacedInv /\ Armed
    BY <2>1 DEF StatusOfProcess, LoadKnown, PokeInv, TextInv, InjectInv, DisplacedInv, Armed
  <2>3. ~RunHandled /\ ~RunQueued
    BY <2>1 DEF RunHandled, RunQueued
  <2> QED
    BY <2>2, <2>3 DEF RunOrder, RunHeld, RunQueued
<1>2. SessionInv => QueueInv /\ InferiorTypeOK
  BY DEF SessionInv
<1>3. Disciplined /\ PathParses
  BY DEF Undisturbed
<1>4. SessionInv /\ RunOrder /\ RunHeld /\ [Next]_vars => RunOrder' /\ RunHeld'
  BY <1>2, <1>3, RunStep
<1>5. SessionInv /\ StatusOfProcess /\ [Next]_vars => StatusOfProcess'
  BY <1>2, StatusOfProcessStep
<1>6. LoadKnown /\ [Next]_vars => LoadKnown'
  BY <1>3, LoadStep
<1>7. PokeInv /\ [Next]_vars => PokeInv'
  BY PokeStep
<1>8. DisciplinedInv /\ [Next]_vars => TextInv' /\ InjectInv' /\ DisplacedInv' /\ Armed'
  <2>1. DisciplinedInv /\ [Next]_vars => TextInv'
    BY <1>3, TextStep DEF DisciplinedInv
  <2>2. DisciplinedInv /\ [Next]_vars => InjectInv'
    BY <1>3, InjectStep DEF DisciplinedInv
  <2>3. DisciplinedInv /\ [Next]_vars => DisplacedInv'
    BY DisplacedStep DEF DisciplinedInv
  <2>4. DisciplinedInv /\ [Next]_vars => Armed'
    BY <1>3, ArmedStep DEF DisciplinedInv
  <2> QED
    BY <2>1, <2>2, <2>3, <2>4
<1>9. SessionInv /\ Init => DisciplinedInv
  BY <1>1 DEF DisciplinedInv
<1>10. SessionInv' /\ DisciplinedInv /\ [Next]_vars => DisciplinedInv'
  BY <1>4, <1>5, <1>6, <1>7, <1>8 DEF DisciplinedInv
<1> QED
  BY <1>9, <1>10, SessionInvariant, PTL DEF Spec

(* The debuggee executes its own instructions, each once: every trap it runs *)
(* into is undone before it goes on (continue_inferior), and                 *)
(* handle_inferior_signal never moves rip back where no trap was.            *)
THEOREM DebuggeeNeverDerails ==
  ASSUME Undisturbed
  PROVE  Spec => []NoDerail
<1>1. DisciplinedInv => NoDerail
  BY DEF DisciplinedInv, DisplacedInv, NoDerail
<1> QED
  BY <1>1, DisciplinedInvariant, PTL

(* While the debuggee runs the breakpoints in its text are those of the      *)
(* table, whatever was toggled between runs and however many stops there     *)
(* were: the bytes of removed ones are the program's (inject_breakpoints).   *)
THEOREM BreakpointsArmed ==
  ASSUME Undisturbed
  PROVE  Spec => []ArmedWhileRunning
<1>1. DisciplinedInv => ArmedWhileRunning
  BY DEF DisciplinedInv, TextInv, Armed, ArmedWhileRunning
<1> QED
  BY <1>1, DisciplinedInvariant, PTL


-----------------------------------------------------------------------------
(* Refinement of DebuggedProgram.                                            *)

(* What DebuggedProgram sees of the state, apart from the breakpoints.       *)
StatusSeen ==
  CASE proc = "stopped" -> "paused"
    [] proc = "zombie" -> "ended"
    [] OTHER -> proc

PassesSeen == IF proc = "running" THEN {VmaOf(resumed_at)} ELSE {}

(* A step that changes nothing of it is a stuttering step of the program.    *)
LEMMA UnseenStep ==
  ASSUME UNCHANGED <<tables, Position, StatusSeen, PassesSeen>>
  PROVE  UNCHANGED Program!program
BY DEF Program!program, StatusSeen, PassesSeen, tables, Addresses

(* The steps that leave the execution of the debuggee alone.                 *)
LEMMA QuietUnseen ==
  ASSUME UNCHANGED <<tables, proc, image, rip, displaced, resumed_at>>
  PROVE  UNCHANGED Program!program
<1>1. UNCHANGED <<Position, StatusSeen, PassesSeen>>
  BY DEF Position, StatusSeen, PassesSeen, VmaOf
<1> QED
  BY <1>1, UnseenStep

(* A step of the debuggee is one of the program, or is not seen.             *)
LEMMA DebuggeeRefines ==
  ASSUME NoOwnTrap, DisciplinedInv, InferiorAction
  PROVE  Program!Next \/ UNCHANGED Program!program
<1>0. /\ InferiorTypeOK /\ StatusOfProcess /\ Armed /\ DisplacedInv /\ TextInv
      /\ UNCHANGED <<tables, resumed_at>>
  BY DEF DisciplinedInv, SessionInv, InferiorAction, session_vars
<1>1. proc = "running" =>
        displaced = {} /\ Position = {VmaOf(rip)} /\ StatusSeen = "running"
  BY <1>0 DEF DisplacedInv, StatusOfProcess, Position, StatusSeen
<1>2. UNCHANGED Addresses
  BY <1>0 DEF tables, Addresses
<1>3. CASE Execute
  <2>1. proc = "running" /\ proc' = "running" /\ UNCHANGED <<image, displaced>> /\ ~AtTrap
    BY <1>3 DEF Execute
  <2>2. Position \cap Addresses \subseteq PassesSeen
    <3>1. ASSUME VmaOf(rip) \in Addresses
          PROVE  VmaOf(rip) = VmaOf(resumed_at)
      <4>1. VmaOf(rip) \in Text
        BY <3>1, AddressesInText DEF DisciplinedInv, SessionInv
      <4>2. AddressOf(VmaOf(rip)) = resumed_at
        BY <1>0, <2>1, <3>1, <4>1 DEF Armed, AtTrap
      <4>3. AddressOf(VmaOf(rip)) = rip
        BY <1>0, InferiorAssumption DEF AddressOf, VmaOf, InferiorTypeOK
      <4> QED
        BY <4>2, <4>3
    <3> QED
      BY <1>1, <2>1, <3>1 DEF PassesSeen
  <2>3. \E p \in Text \cup {External} : Position' = {p}
    <3>1. PICK p \in Text \cup {External} : rip' = AddressOf(p)
      BY <1>3 DEF Execute
    <3>2. VmaOf(rip)' = p
      BY <1>0, <2>1, <3>1, BreakpointsAssumption, InferiorAssumption
         DEF AddressOf, VmaOf, InferiorTypeOK
    <3>3. Position' = {p}
      BY <1>1, <2>1, <3>2 DEF Position
    <3> QED
      BY <3>3
  <2>4. UNCHANGED <<StatusSeen, PassesSeen>>
    BY <1>0, <2>1 DEF StatusSeen, PassesSeen, VmaOf
  <2>5. Program!Execute
    BY <1>1, <1>2, <2>1, <2>2, <2>3, <2>4 DEF Program!Execute, StatusSeen, PassesSeen
  <2> QED
    BY <2>5 DEF Program!Next
<1>4. CASE ExecuteTrap \/ \E sig \in Signals : SignalStop(sig)
  <2>1. proc = "running" /\ proc' = "stopped"
    BY <1>4 DEF ExecuteTrap, SignalStop, Report
  <2>2. Position' = {VmaOf(rip)}
    <3>1. CASE ExecuteTrap
      <4>1. displaced' = {VmaOf(rip)}
        BY <3>1 DEF ExecuteTrap, NoOwnTrap
      <4> QED
        BY <2>1, <4>1 DEF Position
    <3>2. CASE \E sig \in Signals : SignalStop(sig)
      BY <1>1, <2>1, <3>2 DEF SignalStop, code, Position, VmaOf
    <3> QED
      BY <1>4, <3>1, <3>2
  <2>3. StatusSeen' = "paused" /\ PassesSeen' = {}
    BY <2>1 DEF StatusSeen, PassesSeen
  <2>4. Program!Pause
    BY <1>1, <1>2, <2>1, <2>2, <2>3 DEF Program!Pause, Program!Nowhere, StatusSeen, PassesSeen
  <2> QED
    BY <2>4 DEF Program!Next
<1>5. CASE Killed \/ Exit
  <2>1. proc \in {"running", "stopped"} /\ proc' = "zombie"
    BY <1>5 DEF Killed, Exit, Report
  <2>2. Position' = {} /\ StatusSeen' = "ended" /\ PassesSeen' = {}
    BY <2>1 DEF Position, StatusSeen, PassesSeen
  <2>3. Program!End
    BY <1>2, <2>1, <2>2 DEF Program!End, Program!Nowhere, StatusSeen, PassesSeen
  <2> QED
    BY <2>3 DEF Program!Next
<1>6. CASE Write
  BY <1>0, <1>6, QuietUnseen DEF Write, code
<1> QED
  BY <1>3, <1>4, <1>5, <1>6 DEF InferiorAction, InferiorStep


(* Collecting a stop is not seen: a trap is undone to the position the       *)
(* program had.  Collecting an end is.                                       *)
LEMMA ReapRefines ==
  ASSUME DisciplinedInv, ReapOne
  PROVE  Program!Next \/ UNCHANGED Program!program
<1>0. InferiorTypeOK /\ StatusOfProcess /\ DisplacedInv /\ UNCHANGED tables
  BY DEF DisciplinedInv, SessionInv, ReapOne
<1>1. CASE ReapExited \/ ReapSignaled
  <2>1. proc = "zombie" /\ proc' = "none"
    BY <1>0, <1>1 DEF ReapExited, ReapSignaled, Gone, StatusOfProcess, InferiorTypeOK
  <2>2. /\ Position = {} /\ StatusSeen = "ended" /\ PassesSeen = {}
        /\ Position' = {} /\ StatusSeen' = "none" /\ PassesSeen' = {}
    BY <2>1 DEF Position, StatusSeen, PassesSeen
  <2>3. Program!Collect
    BY <1>0, <2>2 DEF Program!Collect, StatusSeen, PassesSeen, tables, Addresses
  <2> QED
    BY <2>3 DEF Program!Next
<1>2. CASE ReapOtherStop \/ ReapTrap
  BY <1>0, <1>2, QuietUnseen DEF ReapOtherStop, ReapTrap, code, session_vars, history
<1>3. CASE ReapBreakpoint
  <2>1. proc = "stopped" /\ proc' = "stopped"
    BY <1>0, <1>3 DEF ReapBreakpoint, StatusOfProcess, InferiorTypeOK
  <2>2. Position = {VmaOf(rip - 1)}
    BY <1>0, <1>3, <2>1 DEF ReapBreakpoint, DisplacedInv, Position
  <2>3. Position' = {VmaOf(rip - 1)}
    BY <1>3, <2>1 DEF ReapBreakpoint, Position, VmaOf
  <2>4. UNCHANGED <<StatusSeen, PassesSeen>>
    BY <2>1 DEF StatusSeen, PassesSeen
  <2> QED
    BY <1>0, <2>2, <2>3, <2>4, UnseenStep
<1> QED
  BY <1>1, <1>2, <1>3 DEF ReapOne, Reap

(* A command that starts, resumes or abandons the debuggee does that to the  *)
(* program.                                                                  *)
LEMMA CommandRefines ==
  ASSUME DisciplinedInv, Spawn \/ ContinueCont \/ Quit
  PROVE  Program!Next \/ UNCHANGED Program!program
<1>0. /\ InferiorTypeOK /\ StatusOfProcess /\ DisplacedInv /\ RunHeld
      /\ SessionMatchesProcess /\ UNCHANGED tables
  BY DEF DisciplinedInv, SessionInv, Spawn, ContinueCont, Quit
<1>1. UNCHANGED Addresses
  BY <1>0 DEF tables, Addresses
<1>2. CASE Spawn
  <2>1. PICK load \in LoadAddresses : image' = load /\ rip' = get_address_from_vma(Entry, load)
    BY <1>2 DEF Spawn, spawn_inferior
  <2>2. VmaOf(rip)' = Entry
    BY <2>1, BreakpointsAssumption, InferiorAssumption DEF VmaOf, get_address_from_vma
  <2>3. proc = "none" /\ proc' = "stopped" /\ displaced' = {}
    BY <1>0, <1>2 DEF Spawn, spawn_inferior, SessionMatchesProcess
  <2>4. /\ StatusSeen = "none" /\ PassesSeen = {}
        /\ Position' = {Entry} /\ StatusSeen' = "paused" /\ PassesSeen' = {}
    BY <2>2, <2>3 DEF Position, StatusSeen, PassesSeen
  <2>5. Program!Start
    BY <1>1, <2>4 DEF Program!Start, StatusSeen, PassesSeen
  <2> QED
    BY <2>5 DEF Program!Next
<1>3. CASE ContinueCont /\ proc = "stopped"
  <2>1. wstatus = "none"
    BY <1>0, <1>3 DEF ContinueCont, RunHeld, RunHandled, Held, StatusOfProcess
  <2>2. displaced = {} /\ Position = {VmaOf(rip)}
    BY <1>0, <1>3, <2>1 DEF DisplacedInv, Position
  <2>3. /\ proc' = "running" /\ displaced' = {} /\ resumed_at' = rip
        /\ UNCHANGED <<image, rip>>
    BY <1>3 DEF ContinueCont, Cont
  <2>4. /\ StatusSeen = "paused" /\ StatusSeen' = "running"
        /\ Position' = Position /\ PassesSeen' = Position
    BY <1>3, <2>2, <2>3 DEF Position, StatusSeen, PassesSeen, VmaOf
  <2>5. Program!Resume
    BY <1>1, <2>4 DEF Program!Resume, StatusSeen, PassesSeen
  <2> QED
    BY <2>5 DEF Program!Next
<1>4. CASE ContinueCont /\ proc # "stopped"
  BY <1>0, <1>4, QuietUnseen DEF ContinueCont, Cont, inferior_vars, history
<1>5. CASE Quit
  <2>1. proc' = "none"
    BY <1>5 DEF Quit, Gone
  <2>2. Position' = {} /\ StatusSeen' = "none" /\ PassesSeen' = {}
    BY <2>1 DEF Position, StatusSeen, PassesSeen
  <2>3. Program!Abandon
    BY <1>1, <2>2 DEF Program!Abandon, Program!Nowhere, StatusSeen, PassesSeen
  <2> QED
    BY <2>3 DEF Program!Next
<1> QED
  BY <1>2, <1>3, <1>4, <1>5

(* A toggle edits the breakpoints of a program that does not run.            *)
LEMMA ToggleRefines ==
  ASSUME Disciplined, TableFacts', Toggle
  PROVE  Program!Next
<1>1. proc # "running" /\ UNCHANGED inferior_vars /\ UNCHANGED session_vars
  BY DEF Toggle, MayToggle
<1>2. Addresses' \in SUBSET Text
  <2> SUFFICES ASSUME NEW i \in DOMAIN breakpoints'
               PROVE  breakpoints'[i].address \in Text
    BY DEF Addresses
  <2>1. breakpoints'[i] \in Breakpoint
    BY DEF TableFacts, TablesInv, BreakpointsTypeOK
  <2> QED
    BY <2>1 DEF Breakpoint
<1>3. UNCHANGED <<Position, StatusSeen, PassesSeen>> /\ StatusSeen # "running"
  BY <1>1 DEF Position, StatusSeen, PassesSeen, VmaOf, inferior_vars, session_vars
<1>4. Program!Edit
  BY <1>2, <1>3 DEF Program!Edit, StatusSeen, PassesSeen
<1> QED
  BY <1>4 DEF Program!Next

(* Every step is a step of the program or is not seen.                       *)
LEMMA StepRefines ==
  ASSUME Undisturbed, DisciplinedInv, [Next]_vars
  PROVE  Program!Next \/ UNCHANGED Program!program
<1>1. CASE \/ DequeueMessage \/ DequeueNothing \/ on_stdin_input \/ ReapDone
           \/ Confirm \/ NoCommand \/ SpawnCrash \/ ToggleCrash \/ PollInput \/ PollInterrupted
           \/ \E input \in {{}, {"stdin"}} : Poll(input)
           \/ UNCHANGED vars
  <2>1. UNCHANGED inferior_vars /\ UNCHANGED session_vars
    BY <1>1, QuietStep
  <2>2. UNCHANGED tables
    BY <1>1 DEF DequeueMessage, DequeueNothing, on_stdin_input, ReapDone, Confirm, NoCommand,
       SpawnCrash, ToggleCrash, PollInput, PollInterrupted, Poll, vars
  <2> QED
    BY <2>1, <2>2, QuietUnseen DEF inferior_vars, session_vars
<1>2. CASE Toggle
  <2>1. TableFacts'
    BY TablesStep DEF DisciplinedInv, SessionInv
  <2> QED
    BY <1>2, <2>1, ToggleRefines DEF Undisturbed
<1>3. CASE \/ on_signal_child \/ on_inferior_pty_update
           \/ ContinueRegs \/ ContinueSkip \/ ContinuePeek \/ ContinuePoke
  BY <1>3, QuietUnseen DEF on_signal_child, ReadSignal, on_inferior_pty_update,
     read_inferior_output, ContinueRegs, ContinueSkip, ContinuePeek, ContinuePoke, GetRegs,
     SkipBreakpoint, Peek, Poke, inferior_vars, session_vars, code, history
<1>4. CASE ReapOne
  BY <1>4, ReapRefines
<1>5. CASE Spawn \/ ContinueCont \/ Quit
  BY <1>5, CommandRefines
<1>6. CASE InferiorAction
  BY <1>6, DebuggeeRefines DEF Undisturbed
<1> QED
  BY <1>1, <1>2, <1>3, <1>4, <1>5, <1>6 DEF Next, LoopStep, Terminated

(* Traps and patched bytes are invisible to the program under the debugger:  *)
(* however the loop, the kernel and the debuggee interleave, it executes its *)
(* own instructions and pauses in front of each breakpoint but the one it    *)
(* was resumed from.                                                         *)
THEOREM DebuggeeImplementsProgram ==
  ASSUME Undisturbed
  PROVE  Spec => ImplementsDebuggedProgram
<1>1. Init => Program!Init
  <2> SUFFICES ASSUME Init PROVE Program!Init
    OBVIOUS
  <2>1. proc = "none" /\ breakpoints = << >>
    BY DEF Init, init_debug_session, InferiorInit, BreakpointsInit
  <2>2. Addresses = {}
    BY <2>1 DEF Addresses
  <2>3. Position = {}
    BY <2>1 DEF Position
  <2> QED
    BY <2>1, <2>2, <2>3 DEF Program!Init, Program!Nowhere
<1>2. DisciplinedInv /\ [Next]_vars => [Program!Next]_Program!program
  BY StepRefines
<1> QED
  BY <1>1, <1>2, DisciplinedInvariant, PTL DEF Spec, ImplementsDebuggedProgram, Program!Spec
===============================================================================
