--------------------------- MODULE DebuggedProgram ---------------------------
(***************************************************************************)
(* What a debugger promises about the program under it, with no traps, no  *)
(* patched text and no signals in sight.  The program executes instruction *)
(* after instruction; it does not execute an instruction that has a        *)
(* breakpoint, but pauses in front of it, except at the instruction it was *)
(* last resumed from.  The breakpoints change only while it does not run.  *)
(***************************************************************************)
CONSTANTS
  Instructions,  (* Where breakpoints can be.                                *)
  Elsewhere,     (* Code without breakpoints (libraries).                    *)
  FirstPosition  (* Where the program starts.                                *)

VARIABLES
  stops,     (* The instructions with a breakpoint.                          *)
  status,    (* "none", "paused", "running" or "ended".                      *)
  position,  (* The instruction about to execute, if there is a program.     *)
  passes     (* The instruction the running program was resumed from.        *)

program == <<stops, status, position, passes>>

Nowhere == {}

Init ==
  /\ stops = {}
  /\ status = "none"
  /\ position = Nowhere
  /\ passes = Nowhere

Start ==
  /\ status = "none"
  /\ status' = "paused"
  /\ position' = {FirstPosition}
  /\ UNCHANGED <<stops, passes>>

Resume ==
  /\ status = "paused"
  /\ status' = "running"
  /\ passes' = position
  /\ UNCHANGED <<stops, position>>

Execute ==
  /\ status = "running"
  /\ position \cap stops \subseteq passes
  /\ \E p \in Instructions \cup {Elsewhere} : position' = {p}
  /\ UNCHANGED <<stops, status, passes>>

(* At a breakpoint, or for a signal.                                         *)
Pause ==
  /\ status = "running"
  /\ status' = "paused"
  /\ passes' = Nowhere
  /\ UNCHANGED <<stops, position>>

End ==
  /\ status \in {"running", "paused"}
  /\ status' = "ended"
  /\ position' = Nowhere
  /\ passes' = Nowhere
  /\ UNCHANGED stops

Collect ==
  /\ status = "ended"
  /\ status' = "none"
  /\ UNCHANGED <<stops, position, passes>>

(* The debugger quits, and the program with it.                              *)
Abandon ==
  /\ status' = "none"
  /\ position' = Nowhere
  /\ passes' = Nowhere
  /\ UNCHANGED stops

Edit ==
  /\ status # "running"
  /\ stops' \in SUBSET Instructions
  /\ UNCHANGED <<status, position, passes>>

Next ==
  Start \/ Resume \/ Execute \/ Pause \/ End \/ Collect \/ Abandon \/ Edit

Spec == Init /\ [][Next]_program
=============================================================================
