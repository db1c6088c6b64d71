--------------------------- MODULE EventLoopProofs ---------------------------
(***************************************************************************)
(* Theorems about EventLoop for every program, every set of keys, every    *)
(* debuggee and every user: no status is lost, session and process agree,  *)
(* the loop blocks only in poll, the queue is bounded, all variables keep  *)
(* their types, the address shown at a breakpoint is where the debuggee    *)
(* stopped, and resuming from it does not run into it again.               *)
(***************************************************************************)
EXTENDS EventLoop, BreakpointsProofs

-----------------------------------------------------------------------------
(* No status is lost.                                                        *)

(* A status is raised together with its SIGCHLD, and collected before the    *)
(* loop that reads the signal ends.                                          *)
LEMMA StatusStep == NoLostStatus /\ [Next]_vars => NoLostStatus'
<1> SUFFICES ASSUME NoLostStatus, [Next]_vars PROVE NoLostStatus'
  OBVIOUS
<1> USE DEF NoLostStatus
<1>1. CASE \/ DequeueMessage \/ DequeueNothing \/ on_stdin_input
           \/ Confirm \/ Toggle \/ NoCommand \/ SpawnCrash \/ ToggleCrash \/ PollInput \/ PollInterrupted
           \/ \E input \in {{}, {"stdin"}} : Poll(input)
  BY <1>1 DEF DequeueMessage, DequeueNothing, on_stdin_input, Confirm, Toggle, NoCommand,
     SpawnCrash, ToggleCrash, PollInput, PollInterrupted, Poll, inferior_vars
<1>2. CASE on_signal_child
  BY <1>2 DEF on_signal_child
<1>3. CASE ReapOne
  BY <1>3 DEF ReapOne, Reap, ReapExited, ReapSignaled, ReapOtherStop, ReapBreakpoint, ReapTrap,
     Gone, loop_vars
<1>4. CASE ReapDone
  BY <1>4 DEF ReapDone, inferior_vars
<1>5. CASE on_inferior_pty_update
  BY <1>5 DEF on_inferior_pty_update, read_inferior_output
<1>6. CASE Quit
  BY <1>6 DEF Quit, Gone
<1>7. CASE Spawn
  BY <1>7 DEF Spawn, spawn_inferior
<1>8. CASE ContinueRegs \/ ContinueSkip \/ ContinuePeek \/ ContinuePoke
  BY <1>8 DEF ContinueRegs, ContinueSkip, ContinuePeek, ContinuePoke, GetRegs, SkipBreakpoint,
     Peek, Poke, inferior_vars
<1>9. CASE ContinueCont
  BY <1>9 DEF ContinueCont, Cont, inferior_vars
<1>10. CASE InferiorAction
  BY <1>10 DEF InferiorAction, InferiorStep, Execute, ExecuteTrap, SignalStop, Killed, Exit,
     Write, Report, loop_vars
<1>11. CASE UNCHANGED vars
  BY <1>11 DEF vars, inferior_vars, loop_vars
<1> QED
  BY <1>1, <1>2, <1>3, <1>4, <1>5, <1>6, <1>7, <1>8, <1>9, <1>10, <1>11
     DEF Next, LoopStep, Terminated

(* SIGCHLDs merge, and yet every stop and exit is collected or announced.    *)
THEOREM StatusesAreNotLost == Spec => []NoLostStatus
<1>1. Init => NoLostStatus
  BY DEF Init, InferiorInit, NoLostStatus
<1> QED
  BY <1>1, StatusStep, PTL DEF Spec

-----------------------------------------------------------------------------
(* Session and process agree.                                                *)

(* The session's handles change together, in spawn_inferior and when an exit *)
(* is collected, and a process ends nowhere else without them staying set.   *)
LEMMA SessionStep == SessionMatchesProcess /\ [Next]_vars => SessionMatchesProcess'
<1> SUFFICES ASSUME SessionMatchesProcess, [Next]_vars PROVE SessionMatchesProcess'
  OBVIOUS
<1> USE DEF SessionMatchesProcess
<1>1. CASE \/ DequeueMessage \/ DequeueNothing \/ on_stdin_input \/ ReapDone
           \/ Confirm \/ Toggle \/ NoCommand \/ SpawnCrash \/ ToggleCrash \/ PollInput \/ PollInterrupted
           \/ \E input \in {{}, {"stdin"}} : Poll(input)
  BY <1>1 DEF DequeueMessage, DequeueNothing, on_stdin_input, ReapDone, Confirm, Toggle,
     NoCommand, SpawnCrash, ToggleCrash, PollInput, PollInterrupted, Poll, inferior_vars, session_vars
<1>2. CASE on_signal_child
  BY <1>2 DEF on_signal_child, ReadSignal, session_vars
<1>3. CASE ReapOne
  BY <1>3 DEF ReapOne, Reap, ReapExited, ReapSignaled, ReapOtherStop, ReapBreakpoint, ReapTrap,
     Gone, session_vars, handles
<1>4. CASE on_inferior_pty_update
  BY <1>4 DEF on_inferior_pty_update, read_inferior_output, handles
<1>5. CASE Quit
  BY <1>5 DEF Quit, Gone, session_vars
<1>6. CASE Spawn
  BY <1>6 DEF Spawn, spawn_inferior
<1>7. CASE ContinueRegs \/ ContinueSkip \/ ContinuePeek \/ ContinuePoke
  BY <1>7 DEF ContinueRegs, ContinueSkip, ContinuePeek, ContinuePoke, GetRegs, SkipBreakpoint,
     Peek, Poke, inferior_vars, handles
<1>8. CASE ContinueCont
  BY <1>8 DEF ContinueCont, Cont, inferior_vars, handles
<1>9. CASE InferiorAction
  BY <1>9 DEF InferiorAction, InferiorStep, Execute, ExecuteTrap, SignalStop, Killed, Exit,
     Write, Report, session_vars
<1>10. CASE UNCHANGED vars
  BY <1>10 DEF vars, inferior_vars, session_vars
<1> QED
  BY <1>1, <1>2, <1>3, <1>4, <1>5, <1>6, <1>7, <1>8, <1>9, <1>10
     DEF Next, LoopStep, Terminated

(* spawn_inferior never forks a second debuggee beside a live one.           *)
THEOREM SessionAgrees == Spec => []SessionMatchesProcess
<1>1. Init => SessionMatchesProcess
  BY DEF Init, init_debug_session, InferiorInit, SessionMatchesProcess
<1> QED
  BY <1>1, SessionStep, PTL DEF Spec

-----------------------------------------------------------------------------
(* The loop blocks only in poll.                                             *)

(* Reading the terminal returns at once: with output, or with an error.      *)
MasterReadable ==
  \/ inferior_master_fd = -1
  \/ pty > 0
  \/ proc \in {"zombie", "none"}

(* What poll reported stays true until it is served.                         *)
ServedInTime ==
  /\ pty \in Nat
  /\ pc \in {"signal", "reap"} => "stdin" \notin ready
  /\ pc = "signal" => "signal" \in ready
  /\ pc = "master" => ready = {"master"}
  /\ pc \in {"stdin", "signal"} /\ "signal" \in ready => sigchld
  /\ pc \in {"stdin", "signal", "reap", "master"} /\ "master" \in ready => MasterReadable

(* Where Serve goes is where something is to be served.                      *)
LEMMA ServeFacts ==
  ASSUME NEW fds, Serve(fds)
  PROVE  /\ ready' = fds
         /\ pc' \in {"stdin", "signal", "master", "update"}
         /\ pc' = "signal" => "signal" \in fds
         /\ pc' = "master" => fds = {"master"}
         /\ pc' = "stdin" <=> "stdin" \in fds
BY DEF Serve

(* What a poll announced stays readable until its turn comes.                *)
LEMMA ServedStep == ServedInTime /\ [Next]_vars => ServedInTime'
<1> SUFFICES ASSUME ServedInTime, [Next]_vars PROVE ServedInTime'
  OBVIOUS
<1> USE DEF ServedInTime, MasterReadable
<1>1. CASE \/ DequeueMessage \/ DequeueNothing
           \/ Confirm \/ Toggle \/ NoCommand \/ SpawnCrash \/ ToggleCrash
  BY <1>1 DEF DequeueMessage, DequeueNothing, Confirm, Toggle, NoCommand, SpawnCrash, ToggleCrash,
     inferior_vars
<1>2. CASE PollInput \/ \E input \in {{}, {"stdin"}} : Poll(input)
  <2>1. PICK input \in {{}, {"stdin"}} : Poll(input)
    BY <1>2 DEF PollInput
  <2>2. Serve(ReadyFds \cup input) /\ UNCHANGED <<inferior_vars, session_vars>>
    BY <2>1 DEF Poll
  <2>3. "signal" \in ReadyFds \cup input => sigchld
    BY <2>1 DEF ReadyFds
  <2>4. "master" \in ReadyFds \cup input => MasterReadable
    BY <2>1 DEF ReadyFds
  <2> QED
    BY <2>2, <2>3, <2>4, ServeFacts DEF inferior_vars, session_vars
<1>3. CASE PollInterrupted
  <2>1. Serve({}) /\ UNCHANGED <<inferior_vars, session_vars>>
    BY <1>3 DEF PollInterrupted
  <2> QED
    BY <2>1, ServeFacts DEF inferior_vars
<1>4. CASE on_stdin_input
  <2>1. Serve(ready \ {"stdin"}) /\ UNCHANGED <<inferior_vars, session_vars>> /\ pc = "stdin"
    BY <1>4 DEF on_stdin_input
  <2> QED
    BY <2>1, ServeFacts DEF inferior_vars, session_vars
<1>5. CASE on_signal_child
  BY <1>5 DEF on_signal_child, ReadSignal, session_vars
<1>6. CASE ReapOne
  <2>1. pc = "reap" /\ UNCHANGED <<pc, ready>>
    BY <1>6 DEF ReapOne, loop_vars
  <2>2. CASE ReapExited
    BY <2>1, <2>2 DEF ReapExited
  <2>3. CASE ReapSignaled
    BY <2>1, <2>3 DEF ReapSignaled, Gone, session_vars
  <2>4. CASE ReapOtherStop
    BY <2>1, <2>4 DEF ReapOtherStop, session_vars
  <2>5. CASE ReapBreakpoint
    BY <2>1, <2>5 DEF ReapBreakpoint, handles
  <2>6. CASE ReapTrap
    BY <2>1, <2>6 DEF ReapTrap, handles
  <2> QED
    BY <1>6, <2>2, <2>3, <2>4, <2>5, <2>6 DEF ReapOne, Reap
<1>7. CASE ReapDone
  <2>1. /\ Serve(ready \ {"signal"}) /\ UNCHANGED <<inferior_vars, session_vars>>
        /\ pc = "reap"
    BY <1>7 DEF ReapDone
  <2> QED
    BY <2>1, ServeFacts DEF inferior_vars, session_vars
<1>8. CASE on_inferior_pty_update
  <2>1. Serve(ready \ {"master"})
    BY <1>8 DEF on_inferior_pty_update
  <2>2. pty' \in Nat
    BY <1>8 DEF on_inferior_pty_update, read_inferior_output
  <2>3. ready \ {"master"} = {}
    BY <1>8 DEF on_inferior_pty_update
  <2> QED
    BY <2>1, <2>2, <2>3, ServeFacts
<1>9. CASE Quit
  BY <1>9 DEF Quit
<1>10. CASE Spawn
  BY <1>10 DEF Spawn, spawn_inferior
<1>11. CASE ContinueRegs \/ ContinueSkip \/ ContinuePeek \/ ContinuePoke
  BY <1>11 DEF ContinueRegs, ContinueSkip, ContinuePeek, ContinuePoke, GetRegs,
     SkipBreakpoint, Peek, Poke, inferior_vars, loop_vars
<1>12. CASE ContinueCont
  BY <1>12 DEF ContinueCont, Cont, inferior_vars
<1>13. CASE InferiorAction
  BY <1>13 DEF InferiorAction, InferiorStep, Execute, ExecuteTrap, SignalStop, Killed, Exit,
     Write, Report, session_vars, loop_vars
<1>14. CASE UNCHANGED vars
  BY <1>14 DEF vars, inferior_vars, session_vars, loop_vars
<1> QED
  BY <1>1, <1>2, <1>3, <1>4, <1>5, <1>6, <1>7, <1>8, <1>9, <1>10, <1>11, <1>12, <1>13, <1>14
     DEF Next, LoopStep, Terminated

(* The blocking reads of handle_inferior_signal and read_inferior_output find*)
(* what poll announced, although earlier handlers and the debuggee ran since.*)
THEOREM ReadsDoNotBlock == Spec => []ReadNeverBlocks
<1>1. Init => ServedInTime
  BY DEF Init, InferiorInit, ServedInTime
<1>2. ServedInTime => ReadNeverBlocks
  BY DEF ServedInTime, MasterReadable, ReadNeverBlocks
<1> QED
  BY <1>1, <1>2, ServedStep, PTL DEF Spec

-----------------------------------------------------------------------------
(* The queue is bounded.                                                     *)

(* Messages put in since poll returned, by where the loop is.                *)
Served == [at \in {"poll", "stdin", "signal", "reap", "master"} |->
             CASE at \in {"poll", "stdin"} -> 0
               [] at \in {"signal", "reap"} -> 1
               [] OTHER -> 2]

(* A confirm, which puts in three messages, comes only from a key, and a key *)
(* only into an empty queue: it is first, with two behind it at most.        *)
QueueInv ==
  /\ msg_queue \in Seq(Messages)
  /\ Len(msg_queue) <= 5
  /\ \A i \in DOMAIN msg_queue :
       msg_queue[i] = "MSG_CONFIRM" => i = 1 /\ Len(msg_queue) <= 3
  /\ pc \in DOMAIN Served => current_msg = "MSG_NONE" /\ Len(msg_queue) <= Served[pc]
  /\ pc = "update" =>
       CASE current_msg = "MSG_NONE" -> Len(msg_queue) <= 3
         [] current_msg = "MSG_CONFIRM" ->
              /\ Len(msg_queue) <= 2
              /\ \A i \in DOMAIN msg_queue : msg_queue[i] # "MSG_CONFIRM"
         [] OTHER -> TRUE

(* Putting in one message.                                                   *)
LEMMA Enqueued ==
  ASSUME NEW q \in Seq(Messages), NEW m \in Messages
  PROVE  /\ Append(q, m) \in Seq(Messages)
         /\ Len(Append(q, m)) = Len(q) + 1
         /\ \A i \in DOMAIN Append(q, m) :
              \/ i \in DOMAIN q /\ Append(q, m)[i] = q[i]
              \/ i = Len(q) + 1 /\ Append(q, m)[i] = m
<1>1. /\ DOMAIN q = 1..Len(q) /\ Len(q) \in Nat
      /\ DOMAIN Append(q, m) = 1..(Len(q) + 1)
      /\ Append(q, m)[Len(q) + 1] = m
  OBVIOUS
<1>2. \A i \in 1..Len(q) : Append(q, m)[i] = q[i]
  OBVIOUS
<1> QED
  BY <1>1, <1>2

(* A message of the loop's own, put in while serving.                        *)
LEMMA ServeEnqueued ==
  ASSUME QueueInv, pc \in {"reap", "master"},
         NEW m \in Messages \ {"MSG_CONFIRM"}, enqueue_msg(m),
         current_msg' = current_msg,
         pc' = "update" \/ (pc = "reap" /\ pc' = "master")
  PROVE  QueueInv'
<1>1. /\ msg_queue \in Seq(Messages) /\ current_msg = "MSG_NONE"
      /\ Len(msg_queue) <= IF pc = "reap" THEN 1 ELSE 2
  BY DEF QueueInv, Served
<1>2. /\ msg_queue' \in Seq(Messages)
      /\ Len(msg_queue') = Len(msg_queue) + 1
      /\ \A i \in DOMAIN msg_queue' :
           \/ i \in DOMAIN msg_queue /\ msg_queue'[i] = msg_queue[i]
           \/ msg_queue'[i] = m
  BY <1>1, Enqueued DEF enqueue_msg
<1>3. Len(msg_queue) \in Nat
  BY <1>1
<1>4. \A i \in DOMAIN msg_queue' :
        msg_queue'[i] = "MSG_CONFIRM" => i = 1 /\ Len(msg_queue') <= 3
  BY <1>1, <1>2, <1>3 DEF QueueInv
<1> QED
  BY <1>1, <1>2, <1>3, <1>4 DEF QueueInv, Served

(* Taking out the first message that is not empty leaves no confirm.         *)
LEMMA DequeuePreserves ==
  ASSUME QueueInv, DequeueMessage
  PROVE  QueueInv'
<1> DEFINE n == Len(msg_queue)
<1>1. PICK i \in DOMAIN msg_queue :
        /\ msg_queue[i] # "MSG_NONE"
        /\ \A j \in 1..(i - 1) : msg_queue[j] = "MSG_NONE"
        /\ current_msg' = msg_queue[i]
        /\ msg_queue' = SubSeq(msg_queue, i + 1, n)
  BY DEF DequeueMessage
<1>2. msg_queue \in Seq(Messages) /\ n \in Nat /\ i \in 1..n /\ DOMAIN msg_queue = 1..n
  BY <1>1 DEF QueueInv
<1>3. /\ msg_queue' \in Seq(Messages)
      /\ Len(msg_queue') = n - i
      /\ \A k \in 1..(n - i) : msg_queue'[k] = msg_queue[i + k]
  <2>1. Len(SubSeq(msg_queue, i + 1, n)) = IF i + 1 <= n THEN n - (i + 1) + 1 ELSE 0
    BY <1>2, SubSeqProperties
  <2>2. \A k \in 1..(n - (i + 1) + 1) : SubSeq(msg_queue, i + 1, n)[k] = msg_queue[i + 1 + k - 1]
    BY <1>2, SubSeqProperties
  <2>3. SubSeq(msg_queue, i + 1, n) \in Seq(Messages)
    BY <1>2, SubSeqProperties
  <2> QED
    BY <1>1, <1>2, <2>1, <2>2, <2>3
<1> HIDE DEF n
<1>4. \A k \in DOMAIN msg_queue : msg_queue[k] = "MSG_CONFIRM" => k = 1 /\ n <= 3
  BY DEF QueueInv, n
<1>5. \A k \in DOMAIN msg_queue' : msg_queue'[k] # "MSG_CONFIRM"
  <2> SUFFICES ASSUME NEW k \in DOMAIN msg_queue'
               PROVE  msg_queue'[k] # "MSG_CONFIRM"
    OBVIOUS
  <2>1. k \in 1..(n - i)
    BY <1>3
  <2>2. i + k \in DOMAIN msg_queue /\ i + k # 1 /\ msg_queue'[k] = msg_queue[i + k]
    BY <1>2, <1>3, <2>1
  <2> QED
    BY <1>4, <2>2
<1>6. Len(msg_queue') <= 5
  BY <1>2, <1>3 DEF QueueInv, n
<1>7. current_msg' = "MSG_CONFIRM" => Len(msg_queue') <= 2
  <2> SUFFICES ASSUME current_msg' = "MSG_CONFIRM"
               PROVE  Len(msg_queue') <= 2
    OBVIOUS
  <2>1. i = 1 /\ n <= 3
    <3>1. msg_queue[i] = "MSG_CONFIRM"
      BY <1>1
    <3> QED
      BY <1>1, <1>4, <3>1
  <2>2. Len(msg_queue') = n - i
    BY <1>3
  <2> QED
    BY <1>2, <2>1, <2>2
<1>8. current_msg' # "MSG_NONE" /\ pc' = "update"
  BY <1>1 DEF DequeueMessage
<1> QED
  BY <1>3, <1>5, <1>6, <1>7, <1>8 DEF QueueInv, Served

(* A key goes into an empty queue.                                           *)
LEMMA KeyPreserves ==
  ASSUME QueueInv, on_stdin_input
  PROVE  QueueInv'
<1>1. PICK key \in Keys : enqueue_msg(key)
  BY DEF on_stdin_input
<1>2. key \in Messages
  BY EventLoopAssumption DEF Messages
<1>3. msg_queue \in Seq(Messages) /\ Len(msg_queue) <= 0 /\ current_msg = "MSG_NONE"
  BY DEF QueueInv, Served, on_stdin_input
<1>4. Len(msg_queue) = 0
  BY <1>3
<1>5. /\ msg_queue' \in Seq(Messages) /\ Len(msg_queue') = 1
      /\ \A i \in DOMAIN msg_queue' : i = 1
  BY <1>1, <1>2, <1>3, <1>4, Enqueued DEF enqueue_msg
<1>6. current_msg' = "MSG_NONE" /\ pc' \in {"signal", "master", "update"}
  <2>1. Serve(ready \ {"stdin"}) /\ UNCHANGED current_msg
    BY DEF on_stdin_input
  <2>2. pc' \in {"stdin", "signal", "master", "update"} /\ pc' # "stdin"
    BY <2>1, ServeFacts
  <2> QED
    BY <1>3, <2>1, <2>2
<1> QED
  BY <1>5, <1>6 DEF QueueInv, Served

(* The messages of a confirm go behind at most two others.                   *)
LEMMA ConfirmPreserves ==
  ASSUME QueueInv, Confirm
  PROVE  QueueInv'
<1> DEFINE more == <<"MSG_SET_SOURCE_BUFFER", "MSG_SET_ASSEMBLY_BUFFER", "MSG_SHOW_PICKER">>
<1>1. /\ msg_queue \in Seq(Messages) /\ Len(msg_queue) <= 2
      /\ \A i \in DOMAIN msg_queue : msg_queue[i] # "MSG_CONFIRM"
  BY DEF Confirm, QueueInv
<1>2. more \in Seq(Messages) /\ Len(more) = 3 /\ \A i \in 1..3 : more[i] # "MSG_CONFIRM"
  BY DEF Messages
<1>3. msg_queue' = msg_queue \o more /\ pc' = "loop"
  BY DEF Confirm
<1> HIDE DEF more
<1>4. /\ msg_queue' \in Seq(Messages)
      /\ Len(msg_queue') = Len(msg_queue) + 3
      /\ \A i \in 1..(Len(msg_queue) + 3) :
           msg_queue'[i] = IF i <= Len(msg_queue) THEN msg_queue[i] ELSE more[i - Len(msg_queue)]
  <2>1. /\ msg_queue \o more \in Seq(Messages)
        /\ Len(msg_queue \o more) = Len(msg_queue) + Len(more)
        /\ \A i \in 1..(Len(msg_queue) + Len(more)) :
             (msg_queue \o more)[i] =
               IF i <= Len(msg_queue) THEN msg_queue[i] ELSE more[i - Len(msg_queue)]
    BY <1>1, <1>2, ConcatProperties, Zenon
  <2>2. Len(more) = 3
    BY <1>2
  <2> QED
    BY <1>3, <2>1, <2>2, Zenon
<1>5. \A i \in DOMAIN msg_queue' : msg_queue'[i] # "MSG_CONFIRM"
  <2>1. /\ Len(msg_queue) \in Nat /\ DOMAIN msg_queue = 1..Len(msg_queue)
        /\ DOMAIN msg_queue' = 1..(Len(msg_queue) + 3)
    BY <1>1, <1>4
  <2>2. ASSUME NEW i \in DOMAIN msg_queue'
        PROVE  msg_queue'[i] # "MSG_CONFIRM"
    <3>1. CASE i <= Len(msg_queue)
      BY <1>1, <1>4, <2>1, <3>1
    <3>2. CASE i > Len(msg_queue)
      <4>1. i - Len(msg_queue) \in 1..3
        BY <2>1, <3>2
      <4>2. msg_queue'[i] = more[i - Len(msg_queue)]
        BY <1>4, <2>1, <3>2
      <4> QED
        BY <1>2, <4>1, <4>2
    <3> QED
      BY <2>1, <3>1, <3>2
  <2> QED
    BY <2>2
<1>6. Len(msg_queue') <= 5
  BY <1>1, <1>4
<1> QED
  BY <1>3, <1>4, <1>5, <1>6 DEF QueueInv, Served

(* Every step of the loop keeps its count of messages.                       *)
LEMMA QueueStep == QueueInv /\ ServedInTime /\ [Next]_vars => QueueInv'
<1> SUFFICES ASSUME QueueInv, ServedInTime, [Next]_vars PROVE QueueInv'
  OBVIOUS
<1>1. CASE DequeueMessage
  BY <1>1, DequeuePreserves
<1>2. CASE DequeueNothing
  BY <1>2 DEF DequeueNothing, QueueInv, Served
<1>3. CASE PollInput \/ PollInterrupted \/ \E input \in {{}, {"stdin"}} : Poll(input)
  <2>1. PICK fds : Serve(fds) /\ pc = "poll" /\ UNCHANGED <<msg_queue, current_msg>>
    BY <1>3 DEF PollInput, PollInterrupted, Poll
  <2>2. pc' \in {"stdin", "signal", "master", "update"}
    BY <2>1, ServeFacts
  <2> QED
    BY <2>1, <2>2 DEF QueueInv, Served
<1>4. CASE on_stdin_input
  BY <1>4, KeyPreserves
<1>5. CASE on_signal_child
  BY <1>5 DEF on_signal_child, QueueInv, Served
<1>6. CASE ReapDone
  <2>1. /\ pc = "reap" /\ enqueue_msg("MSG_NONE") /\ UNCHANGED current_msg
        /\ Serve(ready \ {"signal"})
    BY <1>6 DEF ReapDone
  <2>2. pc' \in {"master", "update"}
    BY <2>1, ServeFacts DEF ServedInTime
  <2>3. "MSG_NONE" \in Messages \ {"MSG_CONFIRM"}
    BY DEF Messages
  <2> QED
    BY <2>1, <2>2, <2>3, ServeEnqueued
<1>7. CASE on_inferior_pty_update
  <2>1. /\ pc = "master" /\ enqueue_msg("MSG_OUTPUT_UPDATE") /\ UNCHANGED current_msg
        /\ Serve(ready \ {"master"})
    BY <1>7 DEF on_inferior_pty_update
  <2>2. pc' = "update"
    BY <2>1, ServeFacts DEF ServedInTime
  <2>3. "MSG_OUTPUT_UPDATE" \in Messages \ {"MSG_CONFIRM"}
    BY DEF Messages
  <2> QED
    BY <2>1, <2>2, <2>3, ServeEnqueued
<1>8. CASE Confirm
  BY <1>8, ConfirmPreserves
<1>9. CASE \/ Quit \/ Toggle \/ Spawn \/ SpawnCrash \/ ToggleCrash \/ ContinueRegs \/ ContinuePeek
           \/ ContinuePoke \/ ContinueCont \/ NoCommand
  BY <1>9 DEF Quit, Toggle, Spawn, SpawnCrash, ToggleCrash, ContinueRegs, ContinuePeek, ContinuePoke,
     ContinueCont, NoCommand, QueueInv, Served
<1>10. CASE ReapOne \/ ContinueSkip \/ InferiorAction \/ UNCHANGED vars
  BY <1>10 DEF ReapOne, ContinueSkip, InferiorAction, vars, loop_vars, QueueInv
<1> QED
  BY <1>1, <1>2, <1>3, <1>4, <1>5, <1>6, <1>7, <1>8, <1>9, <1>10
     DEF Next, LoopStep, Terminated

(* The loop starts with one empty message, and nothing to serve.             *)
LEMMA QueueInit == Init => QueueInv /\ ServedInTime
<1>1. <<"MSG_NONE">> \in Seq(Messages)
  BY DEF Messages
<1> QED
  BY <1>1 DEF Init, InferiorInit, ServedInTime, QueueInv, Served

(* Enqueued messages, the three of a confirm included, never pile up.        *)
THEOREM QueueStaysBounded == Spec => []QueueBounded
<1>1. Init => QueueInv /\ ServedInTime
  BY QueueInit
<1>2. QueueInv => QueueBounded
  BY DEF QueueInv, QueueBounded
<1> QED
  BY <1>1, <1>2, ServedStep, QueueStep, PTL DEF Spec

-----------------------------------------------------------------------------
(* The tables, in the session.                                               *)

(* The byte kept with a breakpoint is the one the program has there.         *)
OriginalBytes ==
  \A i \in DOMAIN breakpoints :
    breakpoints[i].original_byte = TextData[breakpoints[i].address]

(* A toggle appends an entry made by add_breakpoint, or removes one.         *)
LEMMA TableChange ==
  ASSUME TablesInv, BreakpointsNext
  PROVE  \/ breakpoints' = breakpoints
         \/ \E a \in Text :
              breakpoints' =
                Append(breakpoints, [address |-> a, original_byte |-> get_text_data(a)])
         \/ \E i \in DOMAIN breakpoints : breakpoints' = CloseGap(breakpoints, i)
<1>1. ASSUME NEW a, DropBreakpoint(a)
      PROVE  \/ breakpoints' = breakpoints
             \/ \E i \in DOMAIN breakpoints : breakpoints' = CloseGap(breakpoints, i)
  BY <1>1 DEF DropBreakpoint, FirstOf, IndicesOf
<1>2. ASSUME NEW cu \in CompUnits, NEW line \in Lines, set_source_breakpoint(cu, line),
             SourceIndicesAt(cu, line) = {}
      PROVE  \E a \in Text :
               breakpoints' =
                 Append(breakpoints, [address |-> a, original_byte |-> get_text_data(a)])
  <2>1. PICK a \in Text : Addresses' = Addresses \cup {a}
    BY <1>2, SetSourcePreserves
  <2>2. PICK p : add_breakpoint(EntryAt(cu, p).address)
    BY <1>2 DEF set_source_breakpoint
  <2> DEFINE b == EntryAt(cu, p).address
  <2>3. /\ b \notin Addresses
        /\ breakpoints' =
             Append(breakpoints, [address |-> b, original_byte |-> get_text_data(b)])
    BY <2>2 DEF add_breakpoint
  <2> DEFINE e == [address |-> b, original_byte |-> get_text_data(b)]
             n == Len(breakpoints)
  <2> HIDE DEF b
  <2>4. n \in Nat /\ DOMAIN breakpoints' = 1..(n + 1) /\ breakpoints'[n + 1] = e
    BY <2>3 DEF TablesInv, BreakpointsTypeOK
  <2>5. b \in Addresses'
    <3>1. n + 1 \in DOMAIN breakpoints'
      BY <2>4
    <3>2. breakpoints'[n + 1].address = b
      BY <2>4
    <3> QED
      BY <3>1, <3>2 DEF Addresses
  <2>6. b = a
    BY <2>1, <2>3, <2>5
  <2> QED
    BY <2>3, <2>6
<1>3. ASSUME NEW a \in Text, toggle_breakpoint(a)
      PROVE  \/ breakpoints' = breakpoints
             \/ breakpoints' =
                  Append(breakpoints, [address |-> a, original_byte |-> get_text_data(a)])
             \/ \E i \in DOMAIN breakpoints : breakpoints' = CloseGap(breakpoints, i)
  BY <1>1, <1>3 DEF toggle_breakpoint, remove_breakpoint, add_breakpoint
<1>4. ASSUME NEW cu \in CompUnits, NEW line \in Lines, remove_source_breakpoint(cu, line)
      PROVE  \/ breakpoints' = breakpoints
             \/ \E i \in DOMAIN breakpoints : breakpoints' = CloseGap(breakpoints, i)
  BY <1>1, <1>4 DEF remove_source_breakpoint
<1> QED
  BY <1>2, <1>3, <1>4 DEF BreakpointsNext, toggle_source_breakpoint

(* Toggles keep every original byte with its address.                        *)
LEMMA TogglesKeepBytes ==
  ASSUME TablesInv, OriginalBytes, BreakpointsNext
  PROVE  OriginalBytes'
<1> DEFINE n == Len(breakpoints)
<1>0. breakpoints \in Seq(Breakpoint) /\ DOMAIN breakpoints = 1..n /\ n \in Nat
  BY DEF TablesInv, BreakpointsTypeOK
<1>1. CASE breakpoints' = breakpoints
  BY <1>1 DEF OriginalBytes
<1>2. ASSUME NEW a \in Text,
             breakpoints' =
               Append(breakpoints, [address |-> a, original_byte |-> get_text_data(a)])
      PROVE  OriginalBytes'
  <2> DEFINE e == [address |-> a, original_byte |-> get_text_data(a)]
  <2>1. e.original_byte = TextData[e.address]
    BY DEF get_text_data
  <2>2. breakpoints' = Append(breakpoints, e)
    BY <1>2
  <2> HIDE DEF e
  <2>3. /\ DOMAIN breakpoints' = 1..(n + 1)
        /\ \A j \in 1..n : breakpoints'[j] = breakpoints[j]
        /\ breakpoints'[n + 1] = e
    BY <1>0, <2>2
  <2>4. \A j \in 1..(n + 1) : j \in 1..n \/ j = n + 1
    BY <1>0
  <2> QED
    BY <1>0, <2>1, <2>3, <2>4 DEF OriginalBytes
<1>3. ASSUME NEW i \in DOMAIN breakpoints, breakpoints' = CloseGap(breakpoints, i)
      PROVE  OriginalBytes'
  <2>1. KeepsOthers(breakpoints, i, breakpoints')
    BY <1>0, <1>3, CloseGapFacts
  <2> QED
    BY <2>1 DEF KeepsOthers, OriginalBytes
<1> QED
  BY <1>1, <1>2, <1>3, TableChange

(* The event loop edits the tables only in Toggle.                           *)
LEMMA TablesChange == [Next]_vars => Toggle \/ UNCHANGED tables
BY DEF Next, LoopStep, PollInput, Terminated, vars, DequeueMessage, DequeueNothing, Poll,
   PollInterrupted, on_stdin_input, on_signal_child, ReapOne, ReapDone,
   on_inferior_pty_update, Quit, Confirm, Spawn, SpawnCrash, ToggleCrash, ContinueRegs, ContinueSkip,
   ContinuePeek, ContinuePoke, ContinueCont, NoCommand, InferiorAction

TableFacts == TablesInv /\ OriginalBytes

(* Whatever the loop does with the tables, it does by a toggle.              *)
LEMMA TablesStep == TableFacts /\ [Next]_vars => TableFacts'
<1> SUFFICES ASSUME TableFacts, [Next]_vars PROVE TableFacts'
  OBVIOUS
<1>1. CASE Toggle
  <2>1. BreakpointsNext
    BY <1>1 DEF Toggle, BreakpointsNext
  <2> QED
    BY <2>1, TogglesPreserve, TogglesKeepBytes DEF TableFacts
<1>2. CASE UNCHANGED tables
  BY <1>2 DEF tables, TableFacts, TablesInv, BreakpointsTypeOK, UniqueAddresses,
     SourceBacked, UniqueSources, Addresses, OriginalBytes
<1> QED
  BY <1>1, <1>2, TablesChange

(* The session starts with empty tables.                                     *)
LEMMA TablesInit == Init => TableFacts
BY DEF Init, init_debug_session, BreakpointsInit, TableFacts, TablesInv, BreakpointsTypeOK,
   UniqueAddresses, SourceBacked, UniqueSources, OriginalBytes
-----------------------------------------------------------------------------
(* Types.                                                                    *)

(* The text keeps its type when a byte is patched into it.                   *)
LEMMA PatchedType ==
  ASSUME NEW mem \in [Text -> Byte], NEW load, NEW r, NEW byte \in Byte, NEW known
  PROVE  Patched(mem, load, r, byte, known) \in [Text -> Byte]
<1>1. 255 \in Byte
  BY DEF Byte
<1> QED
  BY <1>1 DEF Patched

(* Writing a byte through PTRACE_POKETEXT keeps the text's type.             *)
LEMMA InjectByteType ==
  ASSUME memory \in [Text -> Byte], NEW r, NEW byte \in Byte, NEW known,
         inject_byte(r, byte, known)
  PROVE  memory' \in [Text -> Byte]
BY PatchedType DEF inject_byte

(* Injected at once, at start, the text keeps its type too.                  *)
LEMMA InjectedType ==
  ASSUME NEW load, NEW believed, NEW ip
  PROVE  Injected(load, believed, ip) \in [Text -> Byte]
<1>1. INT3 \in Byte
  BY DEF INT3, Byte
<1> QED
  BY <1>1, BreakpointsAssumption DEF Injected

(* What is left of a process that is gone has its type.                      *)
LEMMA GoneType ==
  ASSUME Gone, sigchld' \in BOOLEAN, pty' \in 0..PtyCapacity
  PROVE  InferiorTypeOK'
<1>1. derailed' \in BOOLEAN /\ displaced' \in SUBSET Text
  BY DEF Gone
<1>2. memory' \in [Text -> Byte]
  BY BreakpointsAssumption DEF Gone
<1>3. image' \in Int /\ rip' \in Int
  BY DEF Gone
<1>4. proc' = "none" /\ wstatus' = "none"
  BY DEF Gone
<1> QED
  BY <1>1, <1>2, <1>3, <1>4 DEF InferiorTypeOK

(* The process's variables keep their types: the terminal never holds more   *)
(* than its capacity, and nothing but bytes is written to the text.          *)
LEMMA InferiorTypeStep ==
  TableFacts /\ InferiorTypeOK /\ SessionTypeOK /\ [Next]_vars => InferiorTypeOK'
<1> SUFFICES ASSUME TableFacts, InferiorTypeOK, SessionTypeOK, [Next]_vars
             PROVE  InferiorTypeOK'
  OBVIOUS
<1> USE DEF InferiorTypeOK
<1>0. /\ ElfLoadAddress \in Int /\ LoadAddresses \subseteq Int /\ Text \subseteq Int
      /\ External \in Int /\ Entry \in Int /\ TextData \in [Text -> Byte]
      /\ Signals \subseteq {"SIGTRAP", "SIGSEGV", "SIGKILL"} /\ PtyCapacity \in Nat
  BY BreakpointsAssumption, InferiorAssumption
<1>1. CASE \/ DequeueMessage \/ DequeueNothing \/ on_stdin_input \/ ReapDone
           \/ Confirm \/ Toggle \/ NoCommand \/ SpawnCrash \/ ToggleCrash \/ PollInput \/ PollInterrupted
           \/ \E input \in {{}, {"stdin"}} : Poll(input)
           \/ ContinueRegs \/ ContinueSkip \/ ContinuePeek
  <2>1. UNCHANGED inferior_vars
    BY <1>1 DEF DequeueMessage, DequeueNothing, on_stdin_input, ReapDone, Confirm, Toggle,
       NoCommand, SpawnCrash, ToggleCrash, PollInput, PollInterrupted, Poll, ContinueRegs, ContinueSkip,
       ContinuePeek, GetRegs, SkipBreakpoint, Peek
  <2> QED
    BY <2>1 DEF inferior_vars
<1>2. CASE on_signal_child
  BY <1>2 DEF on_signal_child, ReadSignal, code
<1>3. CASE ReapOne
  <2>1. CASE ReapExited \/ ReapSignaled
    BY <1>0, <2>1, GoneType DEF ReapExited, ReapSignaled
  <2>2. CASE ReapOtherStop \/ ReapTrap
    BY <2>2 DEF ReapOtherStop, ReapTrap, code
  <2>3. CASE ReapBreakpoint
    <3>1. PICK i \in FirstOf(TrapHits) :
            inject_byte(rip - 1, breakpoints[i].original_byte, TRUE)
      BY <2>3 DEF ReapBreakpoint
    <3>2. i \in DOMAIN breakpoints
      BY <3>1 DEF FirstOf, TrapHits
    <3>3. breakpoints[i] \in Breakpoint
      BY <3>2 DEF TableFacts, TablesInv, BreakpointsTypeOK
    <3>4. memory' \in [Text -> Byte]
      BY <3>1, <3>3, InjectByteType DEF Breakpoint
    <3> QED
      BY <2>3, <3>4 DEF ReapBreakpoint
  <2> QED
    BY <1>3, <2>1, <2>2, <2>3 DEF ReapOne, Reap
<1>4. CASE on_inferior_pty_update
  <2>1. pty' \in 0..PtyCapacity
    BY <1>0, <1>4 DEF on_inferior_pty_update, read_inferior_output
  <2> QED
    BY <1>4, <2>1 DEF on_inferior_pty_update, read_inferior_output, code
<1>5. CASE Quit
  BY <1>5, GoneType DEF Quit
<1>6. CASE Spawn
  <2>1. PICK load \in LoadAddresses :
          /\ image' = load
          /\ rip' = get_address_from_vma(Entry, load)
          /\ memory' = Injected(load, get_load_address(load), rip')
    BY <1>6 DEF Spawn, spawn_inferior
  <2>2. memory' \in [Text -> Byte]
    BY <2>1, InjectedType
  <2>3. image' \in Int /\ rip' \in Int
    BY <1>0, <2>1 DEF get_address_from_vma
  <2>4. derailed' \in BOOLEAN /\ sigchld' \in BOOLEAN /\ displaced' \in SUBSET Text
    BY <1>6 DEF Spawn, spawn_inferior
  <2>5. proc' = "stopped" /\ wstatus' = "none" /\ pty' = 0
    BY <1>6 DEF Spawn, spawn_inferior
  <2> QED
    BY <1>0, <2>2, <2>3, <2>4, <2>5
<1>7. CASE ContinuePoke
  <2>1. INT3 \in Byte
    BY DEF INT3, Byte
  <2>2. memory' \in [Text -> Byte]
    BY <1>7, <2>1, InjectByteType DEF ContinuePoke, Poke
  <2> QED
    BY <1>7, <2>2 DEF ContinuePoke, Poke
<1>8. CASE ContinueCont
  BY <1>8 DEF ContinueCont, Cont, inferior_vars
<1>9. CASE InferiorAction
  <2>1. CASE Execute
    BY <1>0, <2>1 DEF Execute, AddressOf
  <2>2. CASE ExecuteTrap
    <3>1. VmaOf(rip) \in Text
      BY <2>2 DEF ExecuteTrap, AtTrap
    <3> QED
      BY <2>2, <3>1 DEF ExecuteTrap, Report
  <2>3. CASE \E sig \in Signals : SignalStop(sig)
    BY <1>0, <2>3 DEF SignalStop, Report, code
  <2>4. CASE Killed \/ Exit
    BY <2>4 DEF Killed, Exit, Report, code
  <2>5. CASE Write
    BY <1>0, <2>5 DEF Write, code
  <2> QED
    BY <1>9, <2>1, <2>2, <2>3, <2>4, <2>5 DEF InferiorAction, InferiorStep
<1>10. CASE UNCHANGED vars
  BY <1>10 DEF vars, inferior_vars
<1> QED
  BY <1>1, <1>2, <1>3, <1>4, <1>5, <1>6, <1>7, <1>8, <1>9, <1>10
     DEF Next, LoopStep, Terminated

(* Addresses of breakpoints, link-time and run-time, are integers.           *)
LEMMA AddressesInText == TableFacts => Addresses \subseteq Text
<1> SUFFICES ASSUME TableFacts, NEW i \in DOMAIN breakpoints
             PROVE  breakpoints[i].address \in Text
  BY DEF Addresses
<1>1. breakpoints[i] \in Breakpoint
  BY DEF TableFacts, TablesInv, BreakpointsTypeOK
<1> QED
  BY <1>1 DEF Breakpoint

(* The output cursor stays in the buffer, whatever read returns.             *)
LEMMA CursorInBuffer ==
  ASSUME cursor \in 0..MAX_OUTPUT_SIZE, read_inferior_output
  PROVE  cursor' \in 0..MAX_OUTPUT_SIZE
<1>1. MAX_OUTPUT_SIZE \in Nat \ {0}
  BY DebugSessionAssumption
<1> DEFINE start == IF cursor + 1 > MAX_OUTPUT_SIZE THEN 0 ELSE cursor
<1>2. start \in 0..(MAX_OUTPUT_SIZE - 1)
  BY <1>1
<1>3. \/ cursor' = start
      \/ \E n \in 1..(MAX_OUTPUT_SIZE - start) : cursor' = start + n
  BY DEF read_inferior_output
<1> QED
  BY <1>1, <1>2, <1>3

(* Registers shown, cursor and buffer of the session keep their types.       *)
LEMMA SessionTypeStep ==
  TableFacts /\ InferiorTypeOK /\ SessionTypeOK /\ [Next]_vars => SessionTypeOK'
<1> SUFFICES ASSUME TableFacts, InferiorTypeOK, SessionTypeOK, [Next]_vars
             PROVE  SessionTypeOK'
  OBVIOUS
<1> USE DEF SessionTypeOK, DebugState
<1>0. /\ ElfLoadAddress \in Int /\ LoadAddresses \subseteq Int
      /\ Addresses \subseteq Int /\ rip \in Int
  BY BreakpointsAssumption, InferiorAssumption, AddressesInText DEF InferiorTypeOK
<1>1. CASE \/ DequeueMessage \/ DequeueNothing \/ on_stdin_input \/ ReapDone
           \/ Confirm \/ Toggle \/ NoCommand \/ SpawnCrash \/ ToggleCrash \/ PollInput \/ PollInterrupted
           \/ \E input \in {{}, {"stdin"}} : Poll(input)
           \/ on_signal_child \/ Quit \/ InferiorAction \/ UNCHANGED vars
  <2>1. UNCHANGED session_vars
    BY <1>1 DEF DequeueMessage, DequeueNothing, on_stdin_input, ReapDone, Confirm, Toggle,
       NoCommand, SpawnCrash, ToggleCrash, PollInput, PollInterrupted, Poll, on_signal_child, ReadSignal,
       Quit, InferiorAction, vars
  <2> QED
    BY <2>1 DEF session_vars
<1>2. CASE ReapOne
  <2>1. CASE ReapExited
    <3>1. peeked' \in BOOLEAN /\ at_breakpoint' \in BOOLEAN
      BY <2>1 DEF ReapExited, locals
    <3>2. cursor' \in 0..MAX_OUTPUT_SIZE
      BY <2>1, DebugSessionAssumption DEF ReapExited
    <3>3. UNCHANGED <<proc_load_address, regs, index>>
      BY <2>1 DEF ReapExited, locals
    <3>4. /\ state' = "DEBUG_DEAD" /\ inferior_pid' = 0 /\ inferior_master_fd' = -1
          /\ inferior_registers' = 0 /\ resumed_at' = 0
      BY <2>1 DEF ReapExited
    <3> QED
      BY <3>1, <3>2, <3>3, <3>4
  <2>2. CASE ReapSignaled \/ ReapOtherStop
    BY <2>2 DEF ReapSignaled, ReapOtherStop, session_vars
  <2>3. CASE ReapBreakpoint
    BY <1>0, <2>3 DEF ReapBreakpoint, handles, locals
  <2>4. CASE ReapTrap
    BY <1>0, <2>4 DEF ReapTrap, handles, locals, history
  <2> QED
    BY <1>2, <2>1, <2>2, <2>3, <2>4 DEF ReapOne, Reap
<1>3. CASE on_inferior_pty_update
  BY <1>3, CursorInBuffer DEF on_inferior_pty_update, read_inferior_output, handles, locals,
     history
<1>4. CASE Spawn
  <2>1. proc_load_address' \in Int
    BY <1>0, <1>4 DEF Spawn, spawn_inferior, get_load_address
  <2> QED
    BY <1>4, <2>1 DEF Spawn, spawn_inferior, locals
<1>5. CASE ContinueRegs
  <2>1. regs' \in Int
    BY <1>0, <1>5 DEF ContinueRegs, GetRegs, get_address_from_vma
  <2> QED
    BY <1>5, <2>1 DEF ContinueRegs, GetRegs, handles, history
<1>6. CASE ContinueSkip \/ ContinuePeek \/ ContinuePoke
  <2>1. peeked' \in BOOLEAN /\ at_breakpoint' \in BOOLEAN
    BY <1>6 DEF ContinueSkip, ContinuePeek, ContinuePoke, SkipBreakpoint, Peek, Poke, history
  <2>2. index' \in {index, index + 1}
    BY <1>6 DEF ContinueSkip, ContinuePeek, ContinuePoke, SkipBreakpoint, Peek, Poke
  <2>3. UNCHANGED <<state, inferior_pid, inferior_master_fd, cursor, inferior_registers,
                    proc_load_address, regs, resumed_at>>
    BY <1>6 DEF ContinueSkip, ContinuePeek, ContinuePoke, SkipBreakpoint, Peek, Poke, handles,
       history
  <2> QED
    BY <2>1, <2>2, <2>3
<1>7. CASE ContinueCont
  <2>1. peeked' \in BOOLEAN /\ at_breakpoint' \in BOOLEAN
    BY <1>7 DEF ContinueCont, Cont, ForgetLocals, history
  <2>2. regs' = 0 /\ index' = 1 /\ resumed_at' \in {resumed_at, rip}
    BY <1>7 DEF ContinueCont, Cont, ForgetLocals, history
  <2>3. UNCHANGED <<state, inferior_pid, inferior_master_fd, cursor, inferior_registers,
                    proc_load_address>>
    BY <1>7 DEF ContinueCont, Cont, handles
  <2> QED
    BY <1>0, <2>1, <2>2, <2>3
<1> QED
  BY <1>1, <1>2, <1>3, <1>4, <1>5, <1>6, <1>7 DEF Next, LoopStep, Terminated

LoopTypeOK ==
  /\ pc \in {"loop", "poll", "stdin", "signal", "reap", "master", "update",
             "inject", "poke", "exited", "crashed"}
  /\ current_msg \in Messages
  /\ ready \subseteq {"stdin", "signal", "master"}

(* The loop serves only descriptors that poll reported.                      *)
LEMMA LoopTypeStep == QueueInv /\ LoopTypeOK /\ [Next]_vars => LoopTypeOK'
<1> SUFFICES ASSUME QueueInv, LoopTypeOK, [Next]_vars PROVE LoopTypeOK'
  OBVIOUS
<1> USE DEF LoopTypeOK
<1>1. CASE DequeueMessage
  <2>1. PICK i \in DOMAIN msg_queue : current_msg' = msg_queue[i]
    BY <1>1 DEF DequeueMessage
  <2>2. current_msg' \in Messages
    BY <2>1 DEF QueueInv
  <2> QED
    BY <1>1, <2>2 DEF DequeueMessage
<1>2. CASE DequeueNothing
  BY <1>2 DEF DequeueNothing, Messages
<1>3. CASE PollInput \/ PollInterrupted \/ \E input \in {{}, {"stdin"}} : Poll(input)
  <2>1. PICK fds \in SUBSET {"stdin", "signal", "master"} :
          Serve(fds) /\ UNCHANGED current_msg
    BY <1>3 DEF PollInput, PollInterrupted, Poll, ReadyFds
  <2> QED
    BY <2>1, ServeFacts
<1>4. CASE on_stdin_input \/ ReapDone \/ on_inferior_pty_update
  <2>1. PICK fds \in SUBSET ready : Serve(fds) /\ UNCHANGED current_msg
    BY <1>4 DEF on_stdin_input, ReapDone, on_inferior_pty_update
  <2> QED
    BY <2>1, ServeFacts
<1>5. CASE \/ on_signal_child \/ ReapOne \/ Quit \/ Confirm \/ Toggle \/ Spawn \/ SpawnCrash \/ ToggleCrash
           \/ ContinueRegs \/ ContinueSkip \/ ContinuePeek \/ ContinuePoke \/ ContinueCont
           \/ NoCommand \/ InferiorAction \/ UNCHANGED vars
  BY <1>5 DEF on_signal_child, ReapOne, Quit, Confirm, Toggle, Spawn, SpawnCrash, ToggleCrash,
     ContinueRegs, ContinueSkip, ContinuePeek, ContinuePoke, ContinueCont, NoCommand,
     InferiorAction, vars, loop_vars
<1> QED
  BY <1>1, <1>2, <1>3, <1>4, <1>5 DEF Next, LoopStep, Terminated

-----------------------------------------------------------------------------
(* The invariants every session keeps, in one place.                         *)

SessionInv ==
  /\ TableFacts
  /\ InferiorTypeOK
  /\ SessionTypeOK
  /\ LoopTypeOK
  /\ ServedInTime
  /\ QueueInv
  /\ SessionMatchesProcess

(* What the other invariants of this module are proved from.                 *)
LEMMA SessionInvariant == Spec => []SessionInv
<1>1. Init => SessionInv
  <2> SUFFICES ASSUME Init PROVE SessionInv
    OBVIOUS
  <2>1. InferiorTypeOK
    <3>1. sigchld \in BOOLEAN /\ derailed \in BOOLEAN /\ displaced \in SUBSET Text
      BY DEF Init, InferiorInit
    <3>2. memory \in [Text -> Byte] /\ pty \in 0..PtyCapacity
      BY BreakpointsAssumption, InferiorAssumption DEF Init, InferiorInit
    <3>3. proc = "none" /\ wstatus = "none" /\ image = 0 /\ rip = 0
      BY DEF Init, InferiorInit
    <3> QED
      BY <3>1, <3>2, <3>3 DEF InferiorTypeOK
  <2>2. SessionTypeOK
    <3>1. peeked \in BOOLEAN /\ at_breakpoint \in BOOLEAN
      BY DEF Init, init_debug_session
    <3>2. cursor \in 0..MAX_OUTPUT_SIZE
      BY DebugSessionAssumption DEF Init, init_debug_session
    <3>3. /\ state = "DEBUG_DEAD" /\ inferior_pid = 0 /\ inferior_master_fd = -1
          /\ inferior_registers = 0 /\ proc_load_address = 0 /\ regs = 0 /\ index = 1
          /\ resumed_at = 0
      BY DEF Init, init_debug_session
    <3> QED
      BY <3>1, <3>2, <3>3 DEF SessionTypeOK, DebugState
  <2>3. LoopTypeOK
    BY DEF Init, LoopTypeOK, Messages
  <2>4. QueueInv /\ ServedInTime
    BY QueueInit
  <2>5. SessionMatchesProcess
    BY DEF Init, init_debug_session, InferiorInit, SessionMatchesProcess
  <2> QED
    BY <2>1, <2>2, <2>3, <2>4, <2>5, TablesInit DEF SessionInv
<1>2. SessionInv /\ [Next]_vars => SessionInv'
  BY TablesStep, InferiorTypeStep, SessionTypeStep, LoopTypeStep, ServedStep, QueueStep,
     SessionStep DEF SessionInv
<1> QED
  BY <1>1, <1>2, PTL DEF Spec

(* Every variable of the debugger and the debuggee keeps its type; that the  *)
(* output cursor stays in its buffer is part of it.                          *)
THEOREM EventLoopTypeCorrect == Spec => []TypeOK
<1>1. SessionInv => TypeOK
  BY DEF SessionInv, TableFacts, TablesInv, LoopTypeOK, QueueInv, TypeOK
<1> QED
  BY <1>1, SessionInvariant, PTL

-----------------------------------------------------------------------------
(* What a stop is.                                                           *)

(* A status to collect tells what became of the process; a running one has   *)
(* none.                                                                     *)
StatusOfProcess ==
  /\ proc \in {"none", "running"} => wstatus = "none"
  /\ proc = "stopped" => wstatus \in {"none", "SIGTRAP", "SIGSEGV"}
  /\ proc = "zombie" => wstatus \in {"exited", "signaled"}

(* The steps of the debugger itself that leave process and session alone.    *)
LEMMA QuietStep ==
  ASSUME \/ DequeueMessage \/ DequeueNothing \/ on_stdin_input \/ ReapDone
         \/ Confirm \/ Toggle \/ NoCommand \/ SpawnCrash \/ ToggleCrash \/ PollInput \/ PollInterrupted
         \/ \E input \in {{}, {"stdin"}} : Poll(input)
         \/ UNCHANGED vars
  PROVE  UNCHANGED inferior_vars /\ UNCHANGED session_vars
BY DEF DequeueMessage, DequeueNothing, on_stdin_input, ReapDone, Confirm, Toggle, NoCommand,
   SpawnCrash, ToggleCrash, PollInput, PollInterrupted, Poll, vars

(* A status is raised by the process that has just changed, and goes         *)
(* before it changes again.                                                  *)
LEMMA StatusOfProcessStep ==
  InferiorTypeOK /\ StatusOfProcess /\ [Next]_vars => StatusOfProcess'
<1> SUFFICES ASSUME InferiorTypeOK, StatusOfProcess, [Next]_vars PROVE StatusOfProcess'
  OBVIOUS
<1> USE DEF StatusOfProcess
<1>1. CASE \/ DequeueMessage \/ DequeueNothing \/ on_stdin_input \/ ReapDone
           \/ Confirm \/ Toggle \/ NoCommand \/ SpawnCrash \/ ToggleCrash \/ PollInput \/ PollInterrupted
           \/ \E input \in {{}, {"stdin"}} : Poll(input)
           \/ UNCHANGED vars
  BY <1>1, QuietStep DEF inferior_vars
<1>2. CASE \/ on_signal_child \/ on_inferior_pty_update
           \/ ContinueRegs \/ ContinueSkip \/ ContinuePeek \/ ContinuePoke
  BY <1>2 DEF on_signal_child, ReadSignal, on_inferior_pty_update, read_inferior_output,
     ContinueRegs, ContinueSkip, ContinuePeek, ContinuePoke, GetRegs, SkipBreakpoint, Peek,
     Poke, inferior_vars
<1>3. CASE ReapOne
  <2>1. CASE ReapExited \/ ReapSignaled
    BY <2>1 DEF ReapExited, ReapSignaled, Gone
  <2>2. CASE ReapOtherStop \/ ReapBreakpoint \/ ReapTrap
    <3>1. wstatus' = "none" /\ UNCHANGED proc /\ wstatus \notin {"exited", "signaled"}
      BY <2>2, InferiorAssumption DEF ReapOtherStop, ReapBreakpoint, ReapTrap
    <3> QED
      BY <3>1 DEF InferiorTypeOK
  <2> QED
    BY <1>3, <2>1, <2>2 DEF ReapOne, Reap
<1>4. CASE Quit \/ Spawn
  BY <1>4 DEF Quit, Gone, Spawn, spawn_inferior
<1>5. CASE ContinueCont
  BY <1>5 DEF ContinueCont, Cont, inferior_vars
<1>6. CASE InferiorAction
  BY <1>6, InferiorAssumption DEF InferiorAction, InferiorStep, Execute, ExecuteTrap,
     SignalStop, Killed, Exit, Write, Report
<1> QED
  BY <1>1, <1>2, <1>3, <1>4, <1>5, <1>6 DEF Next, LoopStep, Terminated

-----------------------------------------------------------------------------
(* The address shown at a breakpoint.                                        *)

(* A session that took its stop for a breakpoint has collected the stop and  *)
(* displays the registers it wrote back.                                     *)
ShownInv ==
  /\ state = "DEBUG_DEAD" \/ proc = "running" => ~at_breakpoint
  /\ at_breakpoint /\ proc = "stopped" => inferior_registers = rip /\ wstatus = "none"

(* Undoing a trap shows what it winds back to; nothing else moves a          *)
(* stopped debuggee.                                                         *)
LEMMA ShownStep == SessionInv /\ StatusOfProcess /\ ShownInv /\ [Next]_vars => ShownInv'
<1> SUFFICES ASSUME SessionInv, StatusOfProcess, ShownInv, [Next]_vars PROVE ShownInv'
  OBVIOUS
<1> USE DEF ShownInv
<1>1. CASE \/ DequeueMessage \/ DequeueNothing \/ on_stdin_input \/ ReapDone
           \/ Confirm \/ Toggle \/ NoCommand \/ SpawnCrash \/ ToggleCrash \/ PollInput \/ PollInterrupted
           \/ \E input \in {{}, {"stdin"}} : Poll(input)
           \/ UNCHANGED vars
  BY <1>1, QuietStep DEF inferior_vars, session_vars
<1>2. CASE \/ on_signal_child \/ on_inferior_pty_update
           \/ ContinueRegs \/ ContinueSkip \/ ContinuePeek \/ ContinuePoke
  BY <1>2 DEF on_signal_child, ReadSignal, on_inferior_pty_update, read_inferior_output,
     ContinueRegs, ContinueSkip, ContinuePeek, ContinuePoke, GetRegs, SkipBreakpoint, Peek,
     Poke, inferior_vars, session_vars, code, handles, history
<1>3. CASE ReapOne
  <2>1. CASE ReapExited
    BY <2>1 DEF ReapExited, Gone
  <2>2. CASE ReapSignaled
    BY <2>2 DEF ReapSignaled, Gone, session_vars
  <2>3. CASE ReapOtherStop
    BY <2>3 DEF ReapOtherStop, session_vars, code
  <2>4. CASE ReapBreakpoint
    <3>1. proc = "stopped"
      BY <2>4 DEF ReapBreakpoint, SessionInv, InferiorTypeOK, StatusOfProcess
    <3>2. state # "DEBUG_DEAD"
      BY <3>1 DEF SessionInv, SessionMatchesProcess
    <3> QED
      BY <2>4, <3>1, <3>2 DEF ReapBreakpoint, handles
  <2>5. CASE ReapTrap
    BY <2>5 DEF ReapTrap, handles, history, code
  <2> QED
    BY <1>3, <2>1, <2>2, <2>3, <2>4, <2>5 DEF ReapOne, Reap
<1>4. CASE Quit
  BY <1>4 DEF Quit, Gone, session_vars
<1>5. CASE Spawn
  BY <1>5 DEF Spawn, spawn_inferior
<1>6. CASE ContinueCont
  BY <1>6 DEF ContinueCont, Cont, inferior_vars, handles, history
<1>7. CASE InferiorAction
  BY <1>7, InferiorAssumption DEF InferiorAction, InferiorStep, Execute, ExecuteTrap,
     SignalStop, Killed, Exit, Write, Report, code, session_vars
<1> QED
  BY <1>1, <1>2, <1>3, <1>4, <1>5, <1>6, <1>7 DEF Next, LoopStep, Terminated

(* Where the session believes the image to be is where it is.                *)
LoadKnown == proc # "none" => image = proc_load_address

(* spawn_inferior looks the image up once, and nothing moves it              *)
(* afterwards.                                                               *)
LEMMA LoadStep ==
  ASSUME PathParses
  PROVE  LoadKnown /\ [Next]_vars => LoadKnown'
<1> SUFFICES ASSUME LoadKnown, [Next]_vars PROVE LoadKnown'
  OBVIOUS
<1> USE DEF LoadKnown
<1>1. CASE \/ DequeueMessage \/ DequeueNothing \/ on_stdin_input \/ ReapDone
           \/ Confirm \/ Toggle \/ NoCommand \/ SpawnCrash \/ ToggleCrash \/ PollInput \/ PollInterrupted
           \/ \E input \in {{}, {"stdin"}} : Poll(input)
           \/ UNCHANGED vars
  BY <1>1, QuietStep DEF inferior_vars, session_vars
<1>2. CASE \/ on_signal_child \/ on_inferior_pty_update
           \/ ContinueRegs \/ ContinueSkip \/ ContinuePeek \/ ContinuePoke
  BY <1>2 DEF on_signal_child, ReadSignal, on_inferior_pty_update, read_inferior_output,
     ContinueRegs, ContinueSkip, ContinuePeek, ContinuePoke, GetRegs, SkipBreakpoint, Peek,
     Poke, inferior_vars, session_vars, code
<1>3. CASE ReapOne
  BY <1>3 DEF ReapOne, Reap, ReapExited, ReapSignaled, ReapOtherStop, ReapBreakpoint, ReapTrap,
     Gone, code, session_vars
<1>4. CASE Quit \/ Spawn
  BY <1>4 DEF Quit, Gone, Spawn, spawn_inferior, get_load_address
<1>5. CASE ContinueCont
  BY <1>5 DEF ContinueCont, Cont, inferior_vars
<1>6. CASE InferiorAction
  BY <1>6 DEF InferiorAction, InferiorStep, Execute, ExecuteTrap, SignalStop, Killed, Exit,
     Write, Report, code, session_vars
<1> QED
  BY <1>1, <1>2, <1>3, <1>4, <1>5, <1>6 DEF Next, LoopStep, Terminated

(* The address the views show at a breakpoint is the link-time address of    *)
(* where the debuggee goes on, wherever the kernel loaded it.  The program   *)
(* must have a path that sscanf can cut out of /proc/pid/maps: for another   *)
(* the session computes with a load address of 0.                            *)
THEOREM BreakpointsShown ==
  ASSUME PathParses
  PROVE  Spec => []ShownWhereStopped
<1>1. Init => StatusOfProcess /\ ShownInv /\ LoadKnown
  BY DEF Init, init_debug_session, InferiorInit, StatusOfProcess, ShownInv, LoadKnown
<1>2. SessionInv => InferiorTypeOK /\ SessionMatchesProcess
  BY DEF SessionInv
<1>3. SessionInv /\ ShownInv /\ LoadKnown => ShownWhereStopped
  <2> SUFFICES ASSUME SessionInv, ShownInv, LoadKnown, at_breakpoint, proc = "stopped"
               PROVE  get_instruction_pointer_vma = VmaOf(rip)
    BY DEF ShownWhereStopped
  <2>1. inferior_registers = rip /\ image = proc_load_address
    BY DEF ShownInv, LoadKnown
  <2>2. rip \in Int /\ image \in Int /\ ElfLoadAddress \in Int
    BY InferiorAssumption DEF SessionInv, InferiorTypeOK
  <2> QED
    BY <2>1, <2>2 DEF get_instruction_pointer_vma, VmaOf
<1> QED
  BY <1>1, <1>2, <1>3, StatusOfProcessStep, ShownStep, LoadStep, SessionInvariant, PTL DEF Spec

-----------------------------------------------------------------------------
(* No trap loop.                                                             *)

(* The program has no INT3 of its own.                                       *)
NoOwnTrap == \A v \in Text : TextData[v] # INT3

(* At a breakpoint the debuggee's next instruction is its own.               *)
OwnInstruction == at_breakpoint /\ proc = "stopped" => ~AtTrap

(* The injection before a debuggee at a breakpoint is resumed has its rip and*)
(* writes nothing there.                                                     *)
PassesBy ==
  at_breakpoint /\ proc = "stopped" /\ pc \in {"inject", "poke"} =>
    regs = rip /\ (pc = "poke" => Target # regs)

(* What writing a byte at r into a stopped debuggee makes of its text.       *)
LEMMA PatchedValue ==
  ASSUME InferiorTypeOK, proc = "stopped",
         NEW r \in Int, NEW byte, NEW known \in BOOLEAN, inject_byte(r, byte, known),
         NEW v \in Text
  PROVE  /\ v = VmaOf(r) => memory'[v] = byte
         /\ v # VmaOf(r) => memory'[v] = memory[v] \/ (memory'[v] = 255 /\ ~known)
<1> DEFINE offset == get_address_from_vma(v, image) - r
<1>1. memory'[v] = CASE offset = 0 -> byte
                     [] offset \in 1..7 /\ ~known -> 255
                     [] OTHER -> memory[v]
  BY DEF inject_byte, Patched
<1>2. v \in Int /\ image \in Int /\ ElfLoadAddress \in Int
  BY BreakpointsAssumption, InferiorAssumption DEF InferiorTypeOK
<1>3. v = VmaOf(r) <=> offset = 0
  BY <1>2 DEF VmaOf, get_address_from_vma
<1> HIDE DEF offset
<1> QED
  BY <1>1, <1>3

(* Only inject_breakpoints and the debuggee take steps in an injection.      *)
LEMMA InjectionSteps ==
  ASSUME [Next]_vars, pc' \in {"inject", "poke"}
  PROVE  \/ ContinueRegs \/ ContinueSkip \/ ContinuePeek \/ ContinuePoke
         \/ InferiorAction \/ UNCHANGED vars
<1>1. CASE \/ \E input \in {{}, {"stdin"}} : Poll(input)
           \/ PollInput \/ PollInterrupted \/ on_stdin_input \/ ReapDone
           \/ on_inferior_pty_update
  <2>1. \E fds : Serve(fds)
    BY <1>1 DEF Poll, PollInput, PollInterrupted, on_stdin_input, ReapDone,
       on_inferior_pty_update
  <2> QED
    BY <2>1, ServeFacts
<1>2. CASE \/ DequeueMessage \/ DequeueNothing \/ on_signal_child \/ ReapOne \/ Quit
           \/ Confirm \/ Toggle \/ Spawn \/ SpawnCrash \/ ToggleCrash \/ NoCommand \/ ContinueCont
  BY <1>2 DEF DequeueMessage, DequeueNothing, on_signal_child, ReapOne, Quit, Confirm,
     Toggle, Spawn, SpawnCrash, ToggleCrash, NoCommand, ContinueCont, loop_vars
<1> QED
  BY <1>1, <1>2 DEF Next, LoopStep, Terminated

(* inject_byte's target, once peeked at, is a breakpoint of the table.       *)
PokeInv == pc = "poke" => index <= Len(breakpoints)

(* A breakpoint is poked in the step after it was peeked; the table is       *)
(* not edited between.                                                       *)
LEMMA PokeStep == PokeInv /\ [Next]_vars => PokeInv'
<1> SUFFICES ASSUME PokeInv, [Next]_vars, pc' = "poke"
             PROVE  index' <= Len(breakpoints)'
  BY DEF PokeInv
<1>1. CASE ContinuePeek
  BY <1>1 DEF ContinuePeek, Peek, tables
<1>2. CASE ContinueRegs \/ ContinueSkip \/ ContinuePoke
  BY <1>2 DEF ContinueRegs, ContinueSkip, ContinuePoke, loop_vars
<1>3. CASE InferiorAction \/ UNCHANGED vars
  BY <1>3 DEF InferiorAction, vars, loop_vars, session_vars, tables, PokeInv
<1> QED
  BY <1>1, <1>2, <1>3, InjectionSteps

(* The address an injection is about to patch.                               *)
LEMMA TargetFacts ==
  ASSUME SessionInv, index <= Len(breakpoints)
  PROVE  /\ index \in DOMAIN breakpoints
         /\ breakpoints[index].address \in Text
         /\ Target \in Int
<1>1. index \in DOMAIN breakpoints
  BY DEF SessionInv, SessionTypeOK, TableFacts, TablesInv, BreakpointsTypeOK
<1>2. breakpoints[index].address \in Text
  BY <1>1, AddressesInText DEF SessionInv, Addresses
<1>3. Target \in Int
  <2>1. breakpoints[index].address \in Int /\ ElfLoadAddress \in Int
    BY <1>2, BreakpointsAssumption, InferiorAssumption
  <2>2. proc_load_address \in Int
    BY DEF SessionInv, SessionTypeOK
  <2> QED
    BY <2>1, <2>2 DEF Target, get_address_from_vma
<1> QED
  BY <1>1, <1>2, <1>3

(* A debuggee at a breakpoint takes no step but to die.                      *)
LEMMA HeldAtBreakpoint ==
  ASSUME ShownInv, InferiorAction, at_breakpoint', proc' = "stopped"
  PROVE  FALSE
<1>1. at_breakpoint /\ proc # "running"
  BY DEF InferiorAction, session_vars, ShownInv
<1> QED
  BY <1>1 DEF InferiorAction, InferiorStep, Execute, ExecuteTrap, SignalStop, Killed, Exit,
     Write, Report

(* inject_breakpoints compares each breakpoint with the registers it has     *)
(* just read.                                                                *)
LEMMA PassesByStep == ShownInv /\ PassesBy /\ [Next]_vars => PassesBy'
<1> SUFFICES ASSUME ShownInv, PassesBy, [Next]_vars,
                    at_breakpoint', proc' = "stopped", pc' \in {"inject", "poke"}
             PROVE  regs' = rip' /\ (pc' = "poke" => Target' # regs')
  BY DEF PassesBy
<1>1. CASE ContinueRegs
  BY <1>1 DEF ContinueRegs, GetRegs, inferior_vars
<1>2. CASE ContinueSkip
  BY <1>2 DEF ContinueSkip, SkipBreakpoint, inferior_vars, loop_vars, history, PassesBy
<1>3. CASE ContinuePeek
  BY <1>3 DEF ContinuePeek, Peek, inferior_vars, history, PassesBy, tables, Target
<1>4. CASE ContinuePoke
  BY <1>4 DEF ContinuePoke, Poke, history, PassesBy
<1>5. CASE InferiorAction
  BY <1>5, HeldAtBreakpoint
<1>6. CASE UNCHANGED vars
  BY <1>6 DEF vars, inferior_vars, session_vars, loop_vars, tables, PassesBy, Target
<1> QED
  BY <1>1, <1>2, <1>3, <1>4, <1>5, <1>6, InjectionSteps

(* The INT3 under rip is taken back when a trap is undone, and injecting     *)
(* does not put it there again.                                              *)
LEMMA OwnInstructionStep ==
  ASSUME NoOwnTrap
  PROVE  SessionInv /\ StatusOfProcess /\ ShownInv /\ PokeInv /\ PassesBy /\ OwnInstruction
           /\ [Next]_vars => OwnInstruction'
<1> SUFFICES ASSUME SessionInv, StatusOfProcess, ShownInv, PokeInv, PassesBy, OwnInstruction,
                    [Next]_vars, at_breakpoint', proc' = "stopped"
             PROVE  ~AtTrap'
  BY DEF OwnInstruction
<1>0. InferiorTypeOK /\ SessionTypeOK /\ TableFacts
  BY DEF SessionInv
<1>1. CASE \/ DequeueMessage \/ DequeueNothing \/ on_stdin_input \/ ReapDone
           \/ Confirm \/ Toggle \/ NoCommand \/ SpawnCrash \/ ToggleCrash \/ PollInput \/ PollInterrupted
           \/ \E input \in {{}, {"stdin"}} : Poll(input)
           \/ UNCHANGED vars
  BY <1>1, QuietStep DEF inferior_vars, session_vars, OwnInstruction, AtTrap, VmaOf
<1>2. CASE \/ on_signal_child \/ on_inferior_pty_update
           \/ ContinueRegs \/ ContinueSkip \/ ContinuePeek
  BY <1>2 DEF on_signal_child, ReadSignal, on_inferior_pty_update, read_inferior_output,
     ContinueRegs, ContinueSkip, ContinuePeek, GetRegs, SkipBreakpoint, Peek, inferior_vars,
     session_vars, code, history, OwnInstruction, AtTrap, VmaOf
<1>3. CASE ReapOne
  <2>1. CASE ReapExited \/ ReapSignaled
    BY <2>1 DEF ReapExited, ReapSignaled, Gone
  <2>2. CASE ReapOtherStop \/ ReapTrap
    BY <2>2 DEF ReapOtherStop, ReapTrap, session_vars, history, code, OwnInstruction, AtTrap,
       VmaOf
  <2>3. CASE ReapBreakpoint
    <3>1. PICK i \in FirstOf(TrapHits) :
            inject_byte(rip - 1, breakpoints[i].original_byte, TRUE)
      BY <2>3 DEF ReapBreakpoint
    <3>2. i \in DOMAIN breakpoints /\ breakpoints[i].address \in Text
      BY <1>0, <3>1, AddressesInText DEF FirstOf, TrapHits, Addresses
    <3>3. breakpoints[i].original_byte # INT3
      BY <1>0, <3>2 DEF TableFacts, OriginalBytes, NoOwnTrap
    <3>4. VmaOf(rip)' = VmaOf(rip - 1) /\ rip - 1 \in Int /\ proc = "stopped"
      BY <1>0, <2>3 DEF ReapBreakpoint, VmaOf, InferiorTypeOK
    <3>5. ASSUME VmaOf(rip - 1) \in Text
          PROVE  memory'[VmaOf(rip - 1)] = breakpoints[i].original_byte
      <4> DEFINE r == rip - 1
                 v == VmaOf(r)
                 byte == breakpoints[i].original_byte
      <4>1. inject_byte(r, byte, TRUE) /\ r \in Int /\ proc = "stopped" /\ v \in Text
        BY <3>1, <3>4, <3>5
      <4>2. PICK known \in BOOLEAN : inject_byte(r, byte, known)
        BY <4>1
      <4> HIDE DEF r, byte
      <4>3. memory'[v] = byte
        BY <1>0, <4>1, <4>2, PatchedValue
      <4> QED
        BY <4>3 DEF r, byte
    <3> QED
      BY <3>3, <3>4, <3>5 DEF AtTrap
  <2> QED
    BY <1>3, <2>1, <2>2, <2>3 DEF ReapOne, Reap
<1>4. CASE ContinuePoke
  <2>1. at_breakpoint /\ proc = "stopped" /\ VmaOf(rip)' = VmaOf(rip)
    BY <1>4 DEF ContinuePoke, Poke, history, VmaOf
  <2>2. regs = rip /\ Target # regs /\ Target \in Int
    BY <1>4, <2>1, TargetFacts DEF ContinuePoke, PassesBy, PokeInv
  <2>3. VmaOf(rip) # VmaOf(Target)
    <3>1. rip \in Int /\ image \in Int /\ ElfLoadAddress \in Int
      BY <1>0, InferiorAssumption DEF InferiorTypeOK
    <3> QED
      BY <2>2, <3>1 DEF VmaOf
  <2>4. inject_byte(Target, INT3, peeked)
    BY <1>4 DEF ContinuePoke, Poke
  <2>5. VmaOf(rip) \in Text =>
          memory'[VmaOf(rip)] = memory[VmaOf(rip)] \/ memory'[VmaOf(rip)] = 255
    BY <1>0, <2>1, <2>2, <2>3, <2>4, PatchedValue DEF SessionTypeOK
  <2>6. ~AtTrap
    BY <2>1 DEF OwnInstruction
  <2> QED
    BY <2>1, <2>5, <2>6 DEF AtTrap, INT3
<1>5. CASE Quit \/ Spawn
  <2>1. proc' = "none" \/ (state = "DEBUG_DEAD" /\ at_breakpoint' = at_breakpoint)
    BY <1>5 DEF Quit, Gone, Spawn, spawn_inferior
  <2> QED
    BY <2>1 DEF ShownInv
<1>6. CASE ContinueCont
  BY <1>6 DEF ContinueCont, Cont, inferior_vars, history, OwnInstruction, AtTrap, VmaOf
<1>7. CASE InferiorAction
  BY <1>7, HeldAtBreakpoint
<1> QED
  BY <1>1, <1>2, <1>3, <1>4, <1>5, <1>6, <1>7 DEF Next, LoopStep, Terminated

(* What every session keeps of its stops, for a program without traps.       *)
StopInv ==
  /\ SessionInv
  /\ StatusOfProcess
  /\ ShownInv
  /\ PokeInv
  /\ PassesBy
  /\ OwnInstruction

(* What is known of a stop holds from the first state on.                    *)
LEMMA StopInvariant ==
  ASSUME NoOwnTrap
  PROVE  Spec => []StopInv
<1>1. Init => StatusOfProcess /\ ShownInv /\ PokeInv /\ PassesBy /\ OwnInstruction
  BY DEF Init, init_debug_session, InferiorInit, StatusOfProcess, ShownInv, PokeInv, PassesBy,
     OwnInstruction
<1>2. SessionInv => InferiorTypeOK
  BY DEF SessionInv
<1> QED
  BY <1>1, <1>2, StatusOfProcessStep, ShownStep, PokeStep, PassesByStep, OwnInstructionStep,
     SessionInvariant, PTL DEF Spec, StopInv

(* "Will not inject a trap at the current instruction pointer, this is to    *)
(* avoid getting stuck in a SIGTRAP loop" (inject_breakpoints): a debuggee   *)
(* resumed from a breakpoint executes an instruction of its own first,       *)
(* whatever the user toggled in between and wherever it was loaded.          *)
THEOREM NoTrapLoops ==
  ASSUME NoOwnTrap
  PROVE  Spec => NoTrapLoop
<1>1. StopInv /\ [Next]_vars =>
        [at_breakpoint /\ proc = "stopped" /\ proc' = "running" => ~AtTrap]_vars
  BY DEF StopInv, OwnInstruction
<1> QED
  BY <1>1, StopInvariant, PTL DEF Spec, NoTrapLoop
===============================================================================
