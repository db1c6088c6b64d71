----------------------------- MODULE Breakpoints -----------------------------
(***************************************************************************)
(* The two breakpoint tables of a debug session (src/debug.c): the address *)
(* breakpoints that are injected into the debuggee, and the source         *)
(* breakpoints, which remember the source line an address breakpoint was   *)
(* set from.  The tables are edited only by toggle_breakpoint (from the    *)
(* assembly view) and toggle_source_breakpoint (from the source view).     *)
(***************************************************************************)
EXTENDS Integers, Sequences

CONSTANTS
  Text,       (* Addresses of the instructions in .text (link-time VMAs).    *)
  TextData,   (* The byte the ELF file holds at each of those addresses.     *)
  CompUnits,  (* Indices of the compilation units with line information.     *)
  Lines,      (* The 1-indexed source lines the user can select.             *)
  LineInfo    (* Per unit, its sequences of line-table entries.              *)

Byte == 0..255

(* The fields of LineInfoEntry that a line lookup reads.  Nothing ties the   *)
(* address to .text: a table may name addresses of other sections.           *)
LineInfoEntry ==
  [address : Int, line : Nat, is_stmt : BOOLEAN, end_sequence : BOOLEAN]

ASSUME BreakpointsAssumption ==
  /\ Text \subseteq Int
  /\ TextData \in [Text -> Byte]
  /\ Lines \subseteq Nat \ {0}
  /\ LineInfo \in [CompUnits -> Seq(Seq(LineInfoEntry))]

VARIABLES
  breakpoints,      (* session->breakpoints: address and displaced byte.     *)
  src_breakpoints   (* session->src_breakpoints: address, unit and line.     *)

tables == <<breakpoints, src_breakpoints>>

Breakpoint == [address : Text, original_byte : Byte]

SourceBreakpoint ==
  [address : Text, comp_unit_index : CompUnits, line_num : Lines]

-----------------------------------------------------------------------------
(* Line lookup.                                                              *)

(* Positions in a unit's line table, as <<sequence, entry>>, and their order.*)
Positions(cu) ==
  UNION {{i} \X (1..Len(LineInfo[cu][i])) : i \in 1..Len(LineInfo[cu])}

EntryAt(cu, p) == LineInfo[cu][p[1]][p[2]]

Before(p, q) == p[1] < q[1] \/ (p[1] = q[1] /\ p[2] < q[2])

(* Where the entries of a line are; end-of-sequence markers do not count.    *)
get_instructions_for_line(cu, line) ==
  {p \in Positions(cu) :
     ~EntryAt(cu, p).end_sequence /\ EntryAt(cu, p).line = line}

(* The entries among them that begin a statement, and the first of those.    *)
StatementsOf(cu, line) ==
  {p \in get_instructions_for_line(cu, line) : EntryAt(cu, p).is_stmt}

FirstStatementOf(cu, line) ==
  {p \in StatementsOf(cu, line) :
     \A q \in StatementsOf(cu, line) \ {p} : Before(p, q)}

-----------------------------------------------------------------------------
(* Table lookups and the shift loop both removals use.                       *)

Addresses == {breakpoints[i].address : i \in DOMAIN breakpoints}

IndicesOf(a) == {i \in DOMAIN breakpoints : breakpoints[i].address = a}

SourceIndicesOf(a) ==
  {i \in DOMAIN src_breakpoints : src_breakpoints[i].address = a}

SourceIndicesAt(cu, line) ==
  {i \in DOMAIN src_breakpoints :
     /\ src_breakpoints[i].comp_unit_index = cu
     /\ src_breakpoints[i].line_num = line}

FirstOf(S) == {i \in S : \A j \in S : i <= j}

(* Mutant of CloseGap: the loop starts one entry late and removes the next.  *)
CloseGap_OneLate(table, i) ==
  [j \in 1..(Len(table) - 1) |-> IF j <= i THEN table[j] ELSE table[j + 1]]

(* Mutant of CloseGap: the table is cut at the entry instead of shifted.     *)
CloseGap_Truncates(table, i) == SubSeq(table, 1, i - 1)

(* Entry i is overwritten by its successors and the table shrinks by one.    *)
CloseGap(table, i) ==
  [j \in 1..(Len(table) - 1) |-> IF j < i THEN table[j] ELSE table[j + 1]]

(* The byte at an address of .text, past the assertion that it is one.       *)
get_text_data(a) == TextData[a]

(* add_breakpoint(a) ends in that assertion, once past its duplicate check.  *)
AssertionFails(a) == a \notin Addresses /\ a \notin Text

(* So does setting a breakpoint on a line whose first statement lies outside *)
(* .text.  Neither changes a table: the debugger is gone.                    *)
SourceAssertionFails(cu, line) ==
  /\ SourceIndicesAt(cu, line) = {}
  /\ \E p \in FirstStatementOf(cu, line) : AssertionFails(EntryAt(cu, p).address)

-----------------------------------------------------------------------------
(* Operations.                                                               *)

BreakpointsInit ==
  /\ breakpoints = << >>
  /\ src_breakpoints = << >>

(* Mutant of add_breakpoint: no check for a breakpoint at the address.       *)
add_breakpoint_Unchecked(a) ==
  /\ a \in Text
  /\ breakpoints' =
       Append(breakpoints, [address |-> a, original_byte |-> get_text_data(a)])

(* add_breakpoint past its duplicate check and the assertion.                *)
add_breakpoint(a) ==
  /\ a \notin Addresses
  /\ a \in Text
  /\ breakpoints' =
       Append(breakpoints, [address |-> a, original_byte |-> get_text_data(a)])

(* The first half of remove_breakpoint: the address breakpoint goes, if there*)
(* is one.                                                                   *)
DropBreakpoint(a) ==
  IF a \in Addresses
    THEN \E i \in FirstOf(IndicesOf(a)) : breakpoints' = CloseGap(breakpoints, i)
    ELSE UNCHANGED breakpoints

(* Mutant of DropSourceBreakpoint: the source table is forgotten.            *)
DropSourceBreakpoint_Forgotten(a) == UNCHANGED src_breakpoints

(* The second half: the source breakpoint on the address goes too.  In the   *)
(* code this is mutual recursion with remove_source_breakpoint; the module   *)
(* RemovalRecursion transcribes it and compares its effect with this one.    *)
DropSourceBreakpoint(a) ==
  IF SourceIndicesOf(a) # {}
    THEN \E i \in FirstOf(SourceIndicesOf(a)) :
           src_breakpoints' = CloseGap(src_breakpoints, i)
    ELSE UNCHANGED src_breakpoints

remove_breakpoint(a) ==
  /\ DropBreakpoint(a)
  /\ DropSourceBreakpoint(a)

remove_source_breakpoint(cu, line) ==
  \E i \in FirstOf(SourceIndicesAt(cu, line)) :
    /\ src_breakpoints' = CloseGap(src_breakpoints, i)
    /\ DropBreakpoint(src_breakpoints[i].address)

(* Mutant of set_source_breakpoint: the line is recorded zero-indexed.       *)
set_source_breakpoint_ZeroIndexed(cu, line) ==
  \E p \in FirstStatementOf(cu, line) :
    LET a == EntryAt(cu, p).address
    IN  /\ add_breakpoint(a)
        /\ src_breakpoints' =
             Append(src_breakpoints,
                    [address |-> a, comp_unit_index |-> cu, line_num |-> line - 1])

(* The line's first statement gets a breakpoint, unless its address has one. *)
set_source_breakpoint(cu, line) ==
  \E p \in FirstStatementOf(cu, line) :
    LET a == EntryAt(cu, p).address
    IN  /\ add_breakpoint(a)
        /\ src_breakpoints' =
             Append(src_breakpoints,
                    [address |-> a, comp_unit_index |-> cu, line_num |-> line])

(* A toggle that changes nothing (no statement on the line, or its address   *)
(* is taken) is a stuttering step, and one whose assertion fails is none.    *)
toggle_breakpoint(a) ==
  \/ a \in Addresses /\ remove_breakpoint(a)
  \/ a \notin Addresses /\ add_breakpoint(a) /\ UNCHANGED src_breakpoints

toggle_source_breakpoint(cu, line) ==
  \/ remove_source_breakpoint(cu, line)
  \/ SourceIndicesAt(cu, line) = {} /\ set_source_breakpoint(cu, line)

BreakpointsNext ==
  \/ \E a \in Text : toggle_breakpoint(a)
  \/ \E cu \in CompUnits, line \in Lines : toggle_source_breakpoint(cu, line)

BreakpointsSpec == BreakpointsInit /\ [][BreakpointsNext]_tables

-----------------------------------------------------------------------------
(* Properties.                                                               *)

(* The tables hold well-formed records of existing addresses, units, lines.  *)
BreakpointsTypeOK ==
  /\ breakpoints \in Seq(Breakpoint)
  /\ src_breakpoints \in Seq(SourceBreakpoint)

(* No two breakpoints share an address: "the user cannot set a source        *)
(* breakpoint and a normal breakpoint which correspond to the same address,  *)
(* at the same time" (src/debug.c, set_source_breakpoint).                   *)
UniqueAddresses ==
  \A i, j \in DOMAIN breakpoints :
    breakpoints[i].address = breakpoints[j].address => i = j

(* Every source breakpoint is backed by an address breakpoint, whichever of  *)
(* the two views the user removed breakpoints from: a line marked in the     *)
(* source view is one the debuggee can stop at.                              *)
SourceBacked ==
  \A i \in DOMAIN src_breakpoints : src_breakpoints[i].address \in Addresses

(* A source line has at most one source breakpoint and so has an address, so *)
(* that removal by address and removal by line name the same entry.          *)
UniqueSources ==
  \A i, j \in DOMAIN src_breakpoints :
    \/ src_breakpoints[i].address = src_breakpoints[j].address
    \/ /\ src_breakpoints[i].comp_unit_index = src_breakpoints[j].comp_unit_index
       /\ src_breakpoints[i].line_num = src_breakpoints[j].line_num
    => i = j

(* One toggle sets or clears one address: removing through either table never*)
(* takes a breakpoint at another address with it, nor loses two at once.     *)
OneAddressPerToggle ==
  [][\E a \in Text : Addresses' = Addresses \cup {a} \/ Addresses' = Addresses \ {a}]_tables
=============================================================================
