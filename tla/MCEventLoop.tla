----------------------------- MODULE MCEventLoop -----------------------------
(***************************************************************************)
(* A program for model checking the event loop: two one-byte instructions, *)
(* at 10 and 11, so that rip after a trap at 10 is the address of the other*)
(* breakpoint.  Line 1 of the only unit begins at 11.                      *)
(***************************************************************************)
EXTENDS EventLoop

MCText == {10, 11}

MCTextData == [a \in MCText |-> a]

(* The program has an INT3 of its own at 11.                                 *)
TrapTextData == [a \in MCText |-> IF a = 11 THEN INT3 ELSE a]

MCLineInfo ==
  [cu \in {0} |->
     << << [address |-> 11, line |-> 1, is_stmt |-> TRUE, end_sequence |-> FALSE] >> >>]

(* The same with a line 2 outside .text.                                     *)
StrayLineInfo ==
  [cu \in {0} |->
     << <<MCLineInfo[0][1][1],
          [address |-> 40, line |-> 2, is_stmt |-> TRUE, end_sequence |-> FALSE]>> >>]
=============================================================================
