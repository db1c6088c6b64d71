-------------------------------- MODULE MCTui --------------------------------
(***************************************************************************)
(* Programs and terminals for model checking the user interface.           *)
(***************************************************************************)
EXTENDS Tui

Unit(lines, instructions, readable, in_text) ==
  [lines |-> lines, instructions |-> instructions, readable |-> readable,
   in_text |-> in_text]

(* A unit longer than the smaller windows, one with neither lines nor code,  *)
(* one whose source cannot be opened, and one with code outside .text.       *)
MCUnits == << Unit(4, 3, TRUE, TRUE), Unit(0, 0, TRUE, TRUE), Unit(1, 2, FALSE, TRUE),
              Unit(1, 1, TRUE, FALSE) >>
=============================================================================
