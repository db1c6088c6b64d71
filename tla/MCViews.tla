------------------------------- MODULE MCViews -------------------------------
(***************************************************************************)
(* A small program for model checking the interface and its tables: a unit *)
(* of one sequence, with more lines than its window shows, one of them at  *)
(* two addresses and one without code; and a unit of several sequences, the*)
(* last with code cut short by bytes that cannot be decoded and ending past*)
(* the section, whose first line has the number of a line of the other     *)
(* unit, and whose second lies outside .text.                              *)
(***************************************************************************)
EXTENDS Views

MCText == {10, 12, 15, 19, 22}

MCTextData == [a \in MCText |-> a]

Row(a, l, stmt, end) ==
  [address |-> a, line |-> l, is_stmt |-> stmt, end_sequence |-> end]

MCLineInfo ==
  [cu \in {0, 1} |->
     IF cu = 0
       THEN << << >>,
               << Row(10, 1, TRUE, FALSE), Row(12, 1, FALSE, FALSE),
                  Row(12, 2, TRUE, FALSE), Row(15, 2, TRUE, TRUE) >> >>
       ELSE << << Row(19, 1, FALSE, FALSE), Row(22, 1, TRUE, TRUE) >>,
               << Row(22, 1, TRUE, FALSE), Row(40, 2, TRUE, FALSE),
                  Row(43, 2, TRUE, FALSE), Row(46, 2, TRUE, TRUE) >>,
               << >> >>]

MCLines == 1..255

MCUnits ==
  << [lines |-> 3, instructions |-> 2, readable |-> TRUE, in_text |-> TRUE],
     [lines |-> 2, instructions |-> 2, readable |-> TRUE, in_text |-> FALSE] >>
=============================================================================
