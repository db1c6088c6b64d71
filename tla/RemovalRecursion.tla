-------------------------- MODULE RemovalRecursion --------------------------
(***************************************************************************)
(* remove_breakpoint and remove_source_breakpoint (src/debug.c) call each  *)
(* other: each deletes its own entry and then calls the other, and         *)
(* remove_breakpoint goes on scanning a source table that the call may     *)
(* have shortened under it.  This module transcribes the recursion as a    *)
(* function of the two tables and compares it with the effect the actions  *)
(* of Breakpoints give it.                                                 *)
(***************************************************************************)
EXTENDS Breakpoints

(* A state of the two tables.                                                *)
Pair(bps, srcs) == [bps |-> bps, srcs |-> srcs]

(* The pairs in which UniqueAddresses and UniqueSources hold; with others a  *)
(* removal by line need not delete the entry it is called for.               *)
Tables ==
  {t \in [bps : Seq(Breakpoint), srcs : Seq(SourceBreakpoint)] :
     /\ \A i, j \in DOMAIN t.bps : t.bps[i].address = t.bps[j].address => i = j
     /\ \A i, j \in DOMAIN t.srcs :
          \/ t.srcs[i].address = t.srcs[j].address
          \/ /\ t.srcs[i].comp_unit_index = t.srcs[j].comp_unit_index
             /\ t.srcs[i].line_num = t.srcs[j].line_num
          => i = j}

(* The entries with an address, in either table, and those of a line.        *)
AtAddress(table, a) == {i \in DOMAIN table : table[i].address = a}

OfLine(srcs, cu, line) ==
  {i \in DOMAIN srcs : srcs[i].comp_unit_index = cu /\ srcs[i].line_num = line}

(* Where a scan for the entries at these indices stops, and the deletion of  *)
(* what it finds there.                                                      *)
FirstIndex(indices) == CHOOSE i \in FirstOf(indices) : TRUE

DeleteFirst(table, indices) ==
  IF indices = {} THEN table ELSE CloseGap(table, FirstIndex(indices))

-----------------------------------------------------------------------------
(* The recursion, as a function of the loop over src_breakpoints: the tables *)
(* it finds, the address it looks for, and where it is.                      *)

Scan(t, a, i) == [tables |-> t, address |-> a, i |-> i]

Scans == [tables : Tables, address : Text, i : Nat \ {0}]

(* remove_breakpoint up to its loop.                                         *)
BreakpointGone(t, a) ==
  Scan(Pair(DeleteFirst(t.bps, AtAddress(t.bps, a)), t.srcs), a, 1)

(* remove_source_breakpoint, of a line that has an entry, up to that loop.   *)
SourceGone(t, cu, line) ==
  LET found == OfLine(t.srcs, cu, line)
  IN  BreakpointGone(Pair(t.bps, DeleteFirst(t.srcs, found)),
                     t.srcs[FirstIndex(found)].address)

(* The loop and what it calls.  Its bound is re-read on every iteration, and *)
(* the entry a call is made for was read before it.                          *)
removal[c \in Scans] ==
  LET s == c.tables.srcs[c.i]
      called == IF s.address = c.address
                  THEN removal[SourceGone(c.tables, s.comp_unit_index, s.line_num)]
                  ELSE c.tables
  IN  IF c.i > Len(c.tables.srcs)
        THEN c.tables
        ELSE removal[Scan(called, c.address, c.i + 1)]

RemoveBreakpoint(t, a) == removal[BreakpointGone(t, a)]

RemoveSource(t, cu, line) ==
  IF OfLine(t.srcs, cu, line) = {} THEN t ELSE removal[SourceGone(t, cu, line)]

-----------------------------------------------------------------------------
(* The removal actions of Breakpoints take exactly the steps of the mutual   *)
(* recursion, entered by address or by any line at that address: it ends,    *)
(* never reads past the tables it shortens, and leaves the same tables.      *)
RemovalsRefineRecursion ==
  [][Len(breakpoints') < Len(breakpoints) =>
       LET t == Pair(breakpoints, src_breakpoints)
           left == Pair(breakpoints', src_breakpoints')
       IN  \E a \in Addresses \ Addresses' :
             /\ left = RemoveBreakpoint(t, a)
             /\ \A i \in SourceIndicesOf(a) :
                  left = RemoveSource(t, src_breakpoints[i].comp_unit_index,
                                      src_breakpoints[i].line_num)]_tables
=============================================================================
