---------------------------- MODULE MCBreakpoints ----------------------------
(***************************************************************************)
(* A small program for model checking the breakpoint tables: two units     *)
(* whose line tables have two sequences, share an address, repeat a line,  *)
(* and hold entries that are not statements; one line lies outside .text.  *)
(***************************************************************************)
EXTENDS RemovalRecursion

MCText == {10, 12, 15, 19}

MCTextData == [a \in MCText |-> a]

Row(a, l, stmt, end) ==
  [address |-> a, line |-> l, is_stmt |-> stmt, end_sequence |-> end]

(* Line 1 of unit 0 begins at 12 although a non-statement entry and a marker *)
(* precede it; line 2 has two statements; lines 1 and 3 start at one address.*)
MCLineInfo ==
  [cu \in {0, 1} |->
     IF cu = 0
       THEN << << Row(10, 1, FALSE, FALSE), Row(12, 1, TRUE, FALSE),
                  Row(12, 3, TRUE, FALSE), Row(15, 1, TRUE, TRUE) >>,
               << Row(19, 2, TRUE, FALSE), Row(15, 2, TRUE, FALSE) >>,
               << >> >>
       ELSE << << Row(15, 1, TRUE, FALSE), Row(10, 2, FALSE, FALSE),
                  Row(19, 2, TRUE, TRUE), Row(40, 3, TRUE, FALSE) >>,
               << >> >>]
=============================================================================
