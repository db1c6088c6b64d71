-------------------------- MODULE BreakpointsProofs --------------------------
(***************************************************************************)
(* Proofs that the invariants of Breakpoints hold for every program text,  *)
(* every line table and any number of breakpoints.  They are inductive only*)
(* together: removal by address looks up the source table by address and   *)
(* removal by line looks it up by line, and the two remove the same entries*)
(* because both keys are unique and every source breakpoint is backed.     *)
(* Then, that what the code does by mutual recursion ends, with the effect *)
(* the actions have.                                                       *)
(***************************************************************************)
EXTENDS RemovalRecursion, NumberLemmas, SequenceTheorems, TLAPS

-----------------------------------------------------------------------------
(* Tables.                                                                   *)

(* The entry of the old table that CloseGap leaves at position j.            *)
Shift(i, j) == IF j < i THEN j ELSE j + 1

KeepsOthers(t, i, u) ==
  /\ DOMAIN u = 1..(Len(t) - 1)
  /\ \A j \in 1..(Len(t) - 1) : u[j] = t[Shift(i, j)] /\ Shift(i, j) \in DOMAIN t \ {i}
  /\ \A j, k \in 1..(Len(t) - 1) : Shift(i, j) = Shift(i, k) => j = k
  /\ \A k \in DOMAIN t \ {i} : \E j \in 1..(Len(t) - 1) : Shift(i, j) = k

(* The shift loop of the removals keeps every entry but the i-th, once, in   *)
(* a table one shorter.                                                      *)
LEMMA CloseGapFacts ==
  ASSUME NEW S, NEW t \in Seq(S), NEW i \in DOMAIN t
  PROVE  CloseGap(t, i) \in Seq(S) /\ KeepsOthers(t, i, CloseGap(t, i))
<1>1. DOMAIN t = 1..Len(t) /\ Len(t) \in Nat /\ i \in 1..Len(t)
  OBVIOUS
<1>2. \A j \in 1..(Len(t) - 1) : Shift(i, j) \in 1..Len(t) /\ Shift(i, j) # i
  BY <1>1 DEF Shift
<1>3. \A j \in 1..(Len(t) - 1) : CloseGap(t, i)[j] = t[Shift(i, j)]
  BY <1>1 DEF CloseGap, Shift
<1>4. Len(t) - 1 \in Nat
  BY <1>1
<1>5. CloseGap(t, i) \in [1..(Len(t) - 1) -> S]
  BY <1>1, <1>2, <1>3 DEF CloseGap, Shift
<1>6. CloseGap(t, i) \in Seq(S)
  BY <1>4, <1>5, SeqDef
<1>7. \A j, k \in 1..(Len(t) - 1) : Shift(i, j) = Shift(i, k) => j = k
  BY <1>1 DEF Shift
<1>8. ASSUME NEW k \in DOMAIN t \ {i}
      PROVE  \E j \in 1..(Len(t) - 1) : Shift(i, j) = k
  <2>1. CASE k < i
    BY <1>1, <2>1 DEF Shift
  <2>2. CASE k > i
    <3>1. k - 1 \in 1..(Len(t) - 1) /\ Shift(i, k - 1) = k
      BY <1>1, <2>2 DEF Shift
    <3> QED
      BY <3>1
  <2> QED
    BY <1>1, <2>1, <2>2
<1> QED
  BY <1>1, <1>2, <1>3, <1>5, <1>6, <1>7, <1>8 DEF KeepsOthers

(* The additions append one entry and keep the others in place.              *)
LEMMA AppendFacts ==
  ASSUME NEW S, NEW t \in Seq(S), NEW e \in S
  PROVE  /\ Append(t, e) \in Seq(S)
         /\ DOMAIN Append(t, e) = 1..(Len(t) + 1)
         /\ \A j \in 1..Len(t) : Append(t, e)[j] = t[j]
         /\ Append(t, e)[Len(t) + 1] = e
  OBVIOUS

-----------------------------------------------------------------------------
(* What the operations do to the address table.                              *)

(* add_breakpoint adds its address and keeps addresses unique.               *)
LEMMA AddBreakpointEffect ==
  ASSUME breakpoints \in Seq(Breakpoint), UniqueAddresses,
         NEW a \in Text, add_breakpoint(a)
  PROVE  /\ breakpoints' \in Seq(Breakpoint)
         /\ UniqueAddresses'
         /\ Addresses' = Addresses \cup {a}
<1> DEFINE e == [address |-> a, original_byte |-> get_text_data(a)]
           n == Len(breakpoints)
<1>1. e \in Breakpoint
  BY BreakpointsAssumption DEF Breakpoint, get_text_data
<1>2. e.address = a
  OBVIOUS
<1>3. breakpoints' = Append(breakpoints, e) /\ a \notin Addresses
  BY DEF add_breakpoint
<1>4. DOMAIN breakpoints = 1..n /\ n \in Nat
  OBVIOUS
<1> HIDE DEF e
<1>5. /\ breakpoints' \in Seq(Breakpoint)
      /\ DOMAIN breakpoints' = 1..(n + 1)
      /\ \A j \in 1..n : breakpoints'[j] = breakpoints[j]
      /\ breakpoints'[n + 1] = e
  BY <1>1, <1>3, AppendFacts
<1> HIDE DEF n
<1>6. \A i \in 1..n : breakpoints[i].address # a
  BY <1>3, <1>4 DEF Addresses
<1>7. \A j \in 1..(n + 1) : j \in 1..n \/ j = n + 1
  BY <1>4
<1>8. UniqueAddresses'
  BY <1>2, <1>4, <1>5, <1>6, <1>7 DEF UniqueAddresses
<1>9. Addresses' = Addresses \cup {a}
  <2>1. ASSUME NEW b \in Addresses' PROVE b \in Addresses \cup {a}
    BY <1>2, <1>4, <1>5, <1>7, <2>1 DEF Addresses
  <2>2. ASSUME NEW b \in Addresses \cup {a} PROVE b \in Addresses'
    <3>1. \A i \in 1..n : i \in 1..(n + 1)
      BY <1>4
    <3>2. n + 1 \in 1..(n + 1)
      BY <1>4
    <3> QED
      BY <1>2, <1>4, <1>5, <2>2, <3>1, <3>2 DEF Addresses
  <2> QED
    BY <2>1, <2>2
<1> QED
  BY <1>5, <1>8, <1>9

(* The first half of remove_breakpoint removes its address, if it is there,  *)
(* and no other.                                                             *)
LEMMA DropBreakpointEffect ==
  ASSUME breakpoints \in Seq(Breakpoint), UniqueAddresses,
         NEW a, DropBreakpoint(a)
  PROVE  /\ breakpoints' \in Seq(Breakpoint)
         /\ UniqueAddresses'
         /\ Addresses' = Addresses \ {a}
<1>1. CASE a \notin Addresses
  <2>1. breakpoints' = breakpoints
    BY <1>1 DEF DropBreakpoint
  <2> QED
    BY <1>1, <2>1 DEF UniqueAddresses, Addresses
<1>2. CASE a \in Addresses
  <2>1. PICK i \in FirstOf(IndicesOf(a)) : breakpoints' = CloseGap(breakpoints, i)
    BY <1>2 DEF DropBreakpoint
  <2>2. i \in DOMAIN breakpoints /\ breakpoints[i].address = a
    BY <2>1 DEF FirstOf, IndicesOf
  <2> DEFINE n == Len(breakpoints) - 1
             rest == CloseGap(breakpoints, i)
  <2>3a. rest \in Seq(Breakpoint) /\ KeepsOthers(breakpoints, i, rest)
    BY <2>2, CloseGapFacts
  <2>3b. breakpoints' = rest
    BY <2>1
  <2> HIDE DEF rest
  <2>3. /\ breakpoints' \in Seq(Breakpoint)
        /\ DOMAIN breakpoints' = 1..n
        /\ \A j \in 1..n : /\ breakpoints'[j] = breakpoints[Shift(i, j)]
                           /\ Shift(i, j) \in DOMAIN breakpoints \ {i}
        /\ \A j, k \in 1..n : Shift(i, j) = Shift(i, k) => j = k
        /\ \A k \in DOMAIN breakpoints \ {i} : \E j \in 1..n : Shift(i, j) = k
    BY <2>3a, <2>3b DEF KeepsOthers
  <2> HIDE DEF n
  <2>4. \A k \in DOMAIN breakpoints \ {i} : breakpoints[k].address # a
    BY <2>2 DEF UniqueAddresses
  <2>5. UniqueAddresses'
    BY <2>3 DEF UniqueAddresses
  <2>6. ASSUME NEW b \in Addresses' PROVE b \in Addresses \ {a}
    BY <2>3, <2>4, <2>6 DEF Addresses
  <2>7. ASSUME NEW b \in Addresses \ {a} PROVE b \in Addresses'
    <3>1. PICK k \in DOMAIN breakpoints : b = breakpoints[k].address
      BY <2>7 DEF Addresses
    <3>2. k # i
      BY <2>2, <2>7, <3>1
    <3>3. PICK j \in 1..n : Shift(i, j) = k
      BY <2>3, <3>2
    <3> QED
      BY <2>3, <3>1, <3>3 DEF Addresses
  <2> QED
    BY <2>3, <2>5, <2>6, <2>7
<1> QED
  BY <1>1, <1>2

-----------------------------------------------------------------------------
(* What the operations do to the source table.                               *)

(* Deleting an entry keeps lines and addresses unique, and no entry with its *)
(* address or its line is left.                                              *)
LEMMA DropSourceEffect ==
  ASSUME src_breakpoints \in Seq(SourceBreakpoint), UniqueSources,
         NEW i \in DOMAIN src_breakpoints,
         src_breakpoints' = CloseGap(src_breakpoints, i)
  PROVE  /\ src_breakpoints' \in Seq(SourceBreakpoint)
         /\ UniqueSources'
         /\ \A j \in DOMAIN src_breakpoints' :
              \E k \in DOMAIN src_breakpoints :
                /\ src_breakpoints'[j] = src_breakpoints[k]
                /\ src_breakpoints[k].address # src_breakpoints[i].address
<1> DEFINE n == Len(src_breakpoints) - 1
           rest == CloseGap(src_breakpoints, i)
<1>1a. rest \in Seq(SourceBreakpoint) /\ KeepsOthers(src_breakpoints, i, rest)
  BY CloseGapFacts
<1>1b. src_breakpoints' = rest
  OBVIOUS
<1> HIDE DEF rest
<1>1. /\ src_breakpoints' \in Seq(SourceBreakpoint)
      /\ DOMAIN src_breakpoints' = 1..n
      /\ \A j \in 1..n : /\ src_breakpoints'[j] = src_breakpoints[Shift(i, j)]
                         /\ Shift(i, j) \in DOMAIN src_breakpoints \ {i}
      /\ \A j, k \in 1..n : Shift(i, j) = Shift(i, k) => j = k
  BY <1>1a, <1>1b DEF KeepsOthers
<1> HIDE DEF n
<1>2. UniqueSources'
  BY <1>1 DEF UniqueSources
<1>3. \A k \in DOMAIN src_breakpoints \ {i} :
        src_breakpoints[k].address # src_breakpoints[i].address
  BY DEF UniqueSources
<1> QED
  BY <1>1, <1>2, <1>3

(* set_source_breakpoint's new entry is the only one with its address and its*)
(* line, if no earlier entry has either.                                     *)
LEMMA AddSourceEffect ==
  ASSUME src_breakpoints \in Seq(SourceBreakpoint), UniqueSources,
         NEW a \in Text, NEW cu \in CompUnits, NEW line \in Lines,
         SourceIndicesOf(a) = {}, SourceIndicesAt(cu, line) = {},
         src_breakpoints' =
           Append(src_breakpoints,
                  [address |-> a, comp_unit_index |-> cu, line_num |-> line])
  PROVE  /\ src_breakpoints' \in Seq(SourceBreakpoint)
         /\ UniqueSources'
         /\ \A j \in DOMAIN src_breakpoints' :
              \/ src_breakpoints'[j].address = a
              \/ \E k \in DOMAIN src_breakpoints :
                   src_breakpoints'[j] = src_breakpoints[k]
<1> DEFINE e == [address |-> a, comp_unit_index |-> cu, line_num |-> line]
           n == Len(src_breakpoints)
<1>1. e \in SourceBreakpoint
  BY DEF SourceBreakpoint
<1>2. e.address = a /\ e.comp_unit_index = cu /\ e.line_num = line
  OBVIOUS
<1>3. DOMAIN src_breakpoints = 1..n /\ n \in Nat
  OBVIOUS
<1>4. src_breakpoints' = Append(src_breakpoints, e)
  OBVIOUS
<1> HIDE DEF e
<1>5. /\ src_breakpoints' \in Seq(SourceBreakpoint)
      /\ DOMAIN src_breakpoints' = 1..(n + 1)
      /\ \A j \in 1..n : src_breakpoints'[j] = src_breakpoints[j]
      /\ src_breakpoints'[n + 1] = e
  BY <1>1, <1>4, AppendFacts
<1> HIDE DEF n
<1>6. \A j \in 1..n :
        /\ src_breakpoints[j].address # a
        /\ ~(src_breakpoints[j].comp_unit_index = cu /\ src_breakpoints[j].line_num = line)
  BY <1>3 DEF SourceIndicesOf, SourceIndicesAt
<1>7. \A j \in 1..(n + 1) : j \in 1..n \/ j = n + 1
  BY <1>3
<1>8. UniqueSources'
  BY <1>2, <1>3, <1>5, <1>6, <1>7 DEF UniqueSources
<1> QED
  BY <1>2, <1>3, <1>5, <1>7, <1>8

(* Deleting an entry takes the mark of its line and no other.                *)
LEMMA DropSourceMarks ==
  ASSUME src_breakpoints \in Seq(SourceBreakpoint), UniqueSources,
         NEW i \in DOMAIN src_breakpoints,
         src_breakpoints' = CloseGap(src_breakpoints, i),
         NEW cu, NEW line
  PROVE  SourceIndicesAt(cu, line)' # {} <=>
           i \notin SourceIndicesAt(cu, line) /\ SourceIndicesAt(cu, line) # {}
<1> DEFINE n == Len(src_breakpoints) - 1
           rest == CloseGap(src_breakpoints, i)
           IsAt(e) == e.comp_unit_index = cu /\ e.line_num = line
<1>1. rest \in Seq(SourceBreakpoint) /\ KeepsOthers(src_breakpoints, i, rest)
  BY CloseGapFacts
<1>2. src_breakpoints' = rest
  OBVIOUS
<1> HIDE DEF rest
<1>3. /\ DOMAIN src_breakpoints' = 1..n
      /\ \A j \in 1..n : /\ src_breakpoints'[j] = src_breakpoints[Shift(i, j)]
                         /\ Shift(i, j) \in DOMAIN src_breakpoints \ {i}
      /\ \A k \in DOMAIN src_breakpoints \ {i} : \E j \in 1..n : Shift(i, j) = k
  BY <1>1, <1>2 DEF KeepsOthers
<1> HIDE DEF n
<1>4. \A k \in DOMAIN src_breakpoints : IsAt(src_breakpoints[i]) /\ IsAt(src_breakpoints[k]) => k = i
  BY DEF UniqueSources
<1>5. SourceIndicesAt(cu, line) = {k \in DOMAIN src_breakpoints : IsAt(src_breakpoints[k])}
  BY DEF SourceIndicesAt
<1>6. SourceIndicesAt(cu, line)' = {j \in 1..n : IsAt(src_breakpoints'[j])}
  BY <1>3 DEF SourceIndicesAt
<1>7. ASSUME NEW j \in SourceIndicesAt(cu, line)'
      PROVE  i \notin SourceIndicesAt(cu, line) /\ SourceIndicesAt(cu, line) # {}
  <2>1. Shift(i, j) \in DOMAIN src_breakpoints \ {i} /\ IsAt(src_breakpoints[Shift(i, j)])
    BY <1>3, <1>6
  <2> HIDE DEF IsAt
  <2> QED
    BY <1>4, <1>5, <2>1
<1>8. ASSUME i \notin SourceIndicesAt(cu, line), NEW k \in SourceIndicesAt(cu, line)
      PROVE  SourceIndicesAt(cu, line)' # {}
  <2>1. k \in DOMAIN src_breakpoints \ {i} /\ IsAt(src_breakpoints[k])
    BY <1>5, <1>8
  <2>2. PICK j \in 1..n : Shift(i, j) = k
    BY <1>3, <2>1
  <2> HIDE DEF IsAt
  <2> QED
    BY <1>3, <1>6, <2>1, <2>2
<1> QED
  BY <1>7, <1>8

(* A new entry marks its line and no other.                                  *)
LEMMA AddSourceMarks ==
  ASSUME src_breakpoints \in Seq(SourceBreakpoint),
         NEW e \in SourceBreakpoint,
         src_breakpoints' = Append(src_breakpoints, e),
         NEW cu, NEW line
  PROVE  SourceIndicesAt(cu, line)' # {} <=>
           \/ SourceIndicesAt(cu, line) # {}
           \/ e.comp_unit_index = cu /\ e.line_num = line
<1> DEFINE n == Len(src_breakpoints)
<1>1. DOMAIN src_breakpoints = 1..n /\ n \in Nat
  OBVIOUS
<1>2. /\ DOMAIN src_breakpoints' = 1..(n + 1)
      /\ \A j \in 1..n : src_breakpoints'[j] = src_breakpoints[j]
      /\ src_breakpoints'[n + 1] = e
  BY AppendFacts
<1> HIDE DEF n
<1>3. \A j \in 1..(n + 1) : j \in 1..n \/ j = n + 1
  BY <1>1
<1>4. \A j \in 1..n : j \in 1..(n + 1)
  BY <1>1
<1>5. n + 1 \in 1..(n + 1)
  BY <1>1
<1> QED
  BY <1>1, <1>2, <1>3, <1>4, <1>5 DEF SourceIndicesAt

-----------------------------------------------------------------------------
(* The invariants, together.                                                 *)

TablesInv ==
  /\ BreakpointsTypeOK
  /\ UniqueAddresses
  /\ SourceBacked
  /\ UniqueSources

(* remove_breakpoint, whatever its address.                                  *)
LEMMA RemoveBreakpointPreserves ==
  ASSUME TablesInv, NEW a, remove_breakpoint(a)
  PROVE  TablesInv' /\ Addresses' = Addresses \ {a}
<1>1. /\ breakpoints' \in Seq(Breakpoint)
      /\ UniqueAddresses'
      /\ Addresses' = Addresses \ {a}
  BY DropBreakpointEffect DEF TablesInv, BreakpointsTypeOK, remove_breakpoint
<1>2. CASE SourceIndicesOf(a) = {}
  <2>1. src_breakpoints' = src_breakpoints
    BY <1>2 DEF remove_breakpoint, DropSourceBreakpoint
  <2>2. \A j \in DOMAIN src_breakpoints : src_breakpoints[j].address # a
    BY <1>2 DEF SourceIndicesOf
  <2>3. SourceBacked'
    BY <1>1, <2>1, <2>2 DEF TablesInv, SourceBacked
  <2> QED
    BY <1>1, <2>1, <2>3 DEF TablesInv, BreakpointsTypeOK, UniqueSources
<1>3. CASE SourceIndicesOf(a) # {}
  <2>1. PICK i \in FirstOf(SourceIndicesOf(a)) :
          src_breakpoints' = CloseGap(src_breakpoints, i)
    BY <1>3 DEF remove_breakpoint, DropSourceBreakpoint
  <2>2. i \in DOMAIN src_breakpoints /\ src_breakpoints[i].address = a
    BY <2>1 DEF FirstOf, SourceIndicesOf
  <2>3. /\ src_breakpoints' \in Seq(SourceBreakpoint)
        /\ UniqueSources'
        /\ \A j \in DOMAIN src_breakpoints' :
             \E k \in DOMAIN src_breakpoints :
               /\ src_breakpoints'[j] = src_breakpoints[k]
               /\ src_breakpoints[k].address # src_breakpoints[i].address
    BY <2>1, <2>2, DropSourceEffect DEF TablesInv, BreakpointsTypeOK
  <2>4. SourceBacked'
    BY <1>1, <2>2, <2>3 DEF TablesInv, SourceBacked
  <2> QED
    BY <1>1, <2>3, <2>4 DEF TablesInv, BreakpointsTypeOK
<1> QED
  BY <1>1, <1>2, <1>3

(* remove_source_breakpoint takes the address of its entry with it.          *)
LEMMA RemoveSourcePreserves ==
  ASSUME TablesInv, NEW cu \in CompUnits, NEW line \in Lines,
         remove_source_breakpoint(cu, line)
  PROVE  TablesInv' /\ \E a \in Text : Addresses' = Addresses \ {a}
<1>1. PICK i \in FirstOf(SourceIndicesAt(cu, line)) :
        /\ src_breakpoints' = CloseGap(src_breakpoints, i)
        /\ DropBreakpoint(src_breakpoints[i].address)
  BY DEF remove_source_breakpoint
<1>2. i \in DOMAIN src_breakpoints
  BY <1>1 DEF FirstOf, SourceIndicesAt
<1> DEFINE a == src_breakpoints[i].address
<1>3. a \in Text
  <2>1. src_breakpoints[i] \in SourceBreakpoint
    BY <1>2 DEF TablesInv, BreakpointsTypeOK
  <2> QED
    BY <2>1 DEF SourceBreakpoint
<1>4. DropBreakpoint(a)
  BY <1>1
<1>5. /\ src_breakpoints' \in Seq(SourceBreakpoint)
      /\ UniqueSources'
      /\ \A j \in DOMAIN src_breakpoints' :
           \E k \in DOMAIN src_breakpoints :
             /\ src_breakpoints'[j] = src_breakpoints[k]
             /\ src_breakpoints[k].address # a
  BY <1>1, <1>2, DropSourceEffect DEF TablesInv, BreakpointsTypeOK
<1> HIDE DEF a
<1>6. /\ breakpoints' \in Seq(Breakpoint)
      /\ UniqueAddresses'
      /\ Addresses' = Addresses \ {a}
  BY <1>4, DropBreakpointEffect DEF TablesInv, BreakpointsTypeOK
<1>7. SourceBacked'
  BY <1>5, <1>6 DEF TablesInv, SourceBacked
<1> QED
  BY <1>3, <1>5, <1>6, <1>7 DEF TablesInv, BreakpointsTypeOK

(* set_source_breakpoint on a line that has none.                            *)
LEMMA SetSourcePreserves ==
  ASSUME TablesInv, NEW cu \in CompUnits, NEW line \in Lines,
         SourceIndicesAt(cu, line) = {}, set_source_breakpoint(cu, line)
  PROVE  TablesInv' /\ \E a \in Text : Addresses' = Addresses \cup {a}
<1>1. PICK p \in FirstStatementOf(cu, line) :
        /\ add_breakpoint(EntryAt(cu, p).address)
        /\ src_breakpoints' =
             Append(src_breakpoints,
                    [address |-> EntryAt(cu, p).address, comp_unit_index |-> cu,
                     line_num |-> line])
  BY DEF set_source_breakpoint
<1> DEFINE a == EntryAt(cu, p).address
<1>2. a \in Text
  BY <1>1 DEF add_breakpoint
<1>3. add_breakpoint(a)
  BY <1>1
<1>4. src_breakpoints' =
        Append(src_breakpoints,
               [address |-> a, comp_unit_index |-> cu, line_num |-> line])
  BY <1>1
<1> HIDE DEF a
<1>5. /\ breakpoints' \in Seq(Breakpoint)
      /\ UniqueAddresses'
      /\ Addresses' = Addresses \cup {a}
  BY <1>2, <1>3, AddBreakpointEffect DEF TablesInv, BreakpointsTypeOK
<1>6. SourceIndicesOf(a) = {}
  BY <1>3 DEF TablesInv, SourceBacked, SourceIndicesOf, add_breakpoint
<1>7. /\ src_breakpoints' \in Seq(SourceBreakpoint)
      /\ UniqueSources'
      /\ \A j \in DOMAIN src_breakpoints' :
           \/ src_breakpoints'[j].address = a
           \/ \E k \in DOMAIN src_breakpoints :
                src_breakpoints'[j] = src_breakpoints[k]
  BY <1>2, <1>4, <1>6, AddSourceEffect DEF TablesInv, BreakpointsTypeOK
<1>8. SourceBacked'
  BY <1>5, <1>7 DEF TablesInv, SourceBacked
<1> QED
  BY <1>2, <1>5, <1>7, <1>8 DEF TablesInv, BreakpointsTypeOK

(* Each toggle preserves the invariants and changes one address.             *)
LEMMA TogglesPreserve ==
  ASSUME TablesInv, BreakpointsNext
  PROVE  /\ TablesInv'
         /\ \E a \in Text :
              Addresses' = Addresses \cup {a} \/ Addresses' = Addresses \ {a}
<1>1. ASSUME NEW a \in Text, toggle_breakpoint(a)
      PROVE  TablesInv' /\ (Addresses' = Addresses \cup {a} \/ Addresses' = Addresses \ {a})
  <2>1. CASE a \in Addresses /\ remove_breakpoint(a)
    BY <2>1, RemoveBreakpointPreserves
  <2>2. CASE a \notin Addresses /\ add_breakpoint(a) /\ UNCHANGED src_breakpoints
    <3>1. /\ breakpoints' \in Seq(Breakpoint)
          /\ UniqueAddresses'
          /\ Addresses' = Addresses \cup {a}
      BY <2>2, AddBreakpointEffect DEF TablesInv, BreakpointsTypeOK
    <3>2. SourceBacked' /\ UniqueSources' /\ src_breakpoints' \in Seq(SourceBreakpoint)
      BY <2>2, <3>1 DEF TablesInv, BreakpointsTypeOK, SourceBacked, UniqueSources
    <3> QED
      BY <3>1, <3>2 DEF TablesInv, BreakpointsTypeOK
  <2> QED
    BY <1>1, <2>1, <2>2 DEF toggle_breakpoint
<1>2. ASSUME NEW cu \in CompUnits, NEW line \in Lines, toggle_source_breakpoint(cu, line)
      PROVE  TablesInv' /\ \E a \in Text :
               Addresses' = Addresses \cup {a} \/ Addresses' = Addresses \ {a}
  <2>1. CASE remove_source_breakpoint(cu, line)
    BY <2>1, RemoveSourcePreserves
  <2>2. CASE SourceIndicesAt(cu, line) = {} /\ set_source_breakpoint(cu, line)
    BY <2>2, SetSourcePreserves
  <2> QED
    BY <1>2, <2>1, <2>2 DEF toggle_source_breakpoint
<1> QED
  BY <1>1, <1>2 DEF BreakpointsNext

-----------------------------------------------------------------------------
(* Theorems.                                                                 *)

(* The tables are well formed, no two breakpoints share an address, every    *)
(* source breakpoint is backed by an address breakpoint and is the only one  *)
(* on its line and at its address, after any sequence of toggles.            *)
THEOREM TablesInvariant == BreakpointsSpec => []TablesInv
<1>1. BreakpointsInit => TablesInv
  BY DEF BreakpointsInit, TablesInv, BreakpointsTypeOK, UniqueAddresses,
         SourceBacked, UniqueSources
<1>2. TablesInv /\ [BreakpointsNext]_tables => TablesInv'
  <2> SUFFICES ASSUME TablesInv, [BreakpointsNext]_tables PROVE TablesInv'
    OBVIOUS
  <2>1. CASE BreakpointsNext
    BY <2>1, TogglesPreserve
  <2>2. CASE UNCHANGED tables
    BY <2>2 DEF tables, TablesInv, BreakpointsTypeOK, UniqueAddresses,
                SourceBacked, UniqueSources, Addresses
  <2> QED
    BY <2>1, <2>2
<1> QED
  BY <1>1, <1>2, PTL DEF BreakpointsSpec

(* The breakpoint tables stay well formed.                                   *)
THEOREM TablesTypeCorrect == BreakpointsSpec => []BreakpointsTypeOK
<1>1. TablesInv => BreakpointsTypeOK
  BY DEF TablesInv
<1> QED
  BY <1>1, TablesInvariant, PTL

(* The comment of set_source_breakpoint: one breakpoint per address.         *)
THEOREM OneBreakpointPerAddress == BreakpointsSpec => []UniqueAddresses
<1>1. TablesInv => UniqueAddresses
  BY DEF TablesInv
<1> QED
  BY <1>1, TablesInvariant, PTL

(* A line marked in the source view always has a breakpoint behind it.       *)
THEOREM MarkedLinesAreBacked == BreakpointsSpec => []SourceBacked
<1>1. TablesInv => SourceBacked
  BY DEF TablesInv
<1> QED
  BY <1>1, TablesInvariant, PTL

(* Lookup by line and lookup by address name the same source breakpoint.     *)
THEOREM OneSourcePerLine == BreakpointsSpec => []UniqueSources
<1>1. TablesInv => UniqueSources
  BY DEF TablesInv
<1> QED
  BY <1>1, TablesInvariant, PTL

(* A toggle, from either view, sets or clears exactly one address.           *)
THEOREM TogglesOneAddress == BreakpointsSpec => OneAddressPerToggle
<1>1. TablesInv /\ [BreakpointsNext]_tables =>
        [\E a \in Text : Addresses' = Addresses \cup {a} \/ Addresses' = Addresses \ {a}]_tables
  BY TogglesPreserve
<1> QED
  BY <1>1, TablesInvariant, PTL DEF BreakpointsSpec, OneAddressPerToggle

-----------------------------------------------------------------------------
(* The mutual recursion of the removals.                                     *)

(* No two entries of the address table, or of the source table, that a       *)
(* removal could confuse.                                                    *)
DistinctAddresses(bps) ==
  \A i, j \in DOMAIN bps : bps[i].address = bps[j].address => i = j

DistinctSources(srcs) ==
  \A i, j \in DOMAIN srcs :
    \/ srcs[i].address = srcs[j].address
    \/ /\ srcs[i].comp_unit_index = srcs[j].comp_unit_index
       /\ srcs[i].line_num = srcs[j].line_num
    => i = j

(* Such tables make a pair.                                                  *)
LEMMA PairsOfTables ==
  /\ \A bps \in Seq(Breakpoint), srcs \in Seq(SourceBreakpoint) :
       DistinctAddresses(bps) /\ DistinctSources(srcs) => Pair(bps, srcs) \in Tables
  /\ \A t \in Tables : /\ t.bps \in Seq(Breakpoint) /\ DistinctAddresses(t.bps)
                       /\ t.srcs \in Seq(SourceBreakpoint) /\ DistinctSources(t.srcs)
                       /\ t = Pair(t.bps, t.srcs)
BY DEF Tables, Pair, DistinctAddresses, DistinctSources

(* A scan stops at the one entry there is to find.                           *)
LEMMA OneIsFirst ==
  ASSUME NEW i \in Int
  PROVE  FirstOf({i}) = {i} /\ FirstIndex({i}) = i
<1>1. FirstOf({i}) = {i}
  BY DEF FirstOf
<1> QED
  BY <1>1 DEF FirstIndex

(* What deleting the i-th entry keeps.                                       *)
LEMMA WhatIsKept ==
  ASSUME NEW S, NEW t \in Seq(S), NEW i \in DOMAIN t
  PROVE  /\ CloseGap(t, i) \in Seq(S)
         /\ Len(CloseGap(t, i)) = Len(t) - 1
         /\ \A j \in DOMAIN CloseGap(t, i) :
              /\ Shift(i, j) \in DOMAIN t \ {i}
              /\ CloseGap(t, i)[j] = t[Shift(i, j)]
         /\ \A j, k \in DOMAIN CloseGap(t, i) : Shift(i, j) = Shift(i, k) => j = k
<1> DEFINE u == CloseGap(t, i)
<1>1. u \in Seq(S) /\ KeepsOthers(t, i, u)
  BY CloseGapFacts
<1>2. Len(t) - 1 \in Nat
  OBVIOUS
<1> HIDE DEF u
<1>3. DOMAIN u = 1..(Len(t) - 1)
  BY <1>1 DEF KeepsOthers
<1>4. Len(u) = Len(t) - 1
  BY <1>1, <1>2, <1>3, LenProperties
<1>5. /\ \A j \in DOMAIN u : Shift(i, j) \in DOMAIN t \ {i} /\ u[j] = t[Shift(i, j)]
      /\ \A j, k \in DOMAIN u : Shift(i, j) = Shift(i, k) => j = k
  BY <1>1, <1>3 DEF KeepsOthers
<1> QED
  BY <1>1, <1>4, <1>5 DEF u

(* The address table without an address.                                     *)
LEMMA AddressDeleted ==
  ASSUME NEW t \in Seq(Breakpoint), DistinctAddresses(t), NEW a
  PROVE  /\ DeleteFirst(t, AtAddress(t, a)) \in Seq(Breakpoint)
         /\ DistinctAddresses(DeleteFirst(t, AtAddress(t, a)))
         /\ AtAddress(DeleteFirst(t, AtAddress(t, a)), a) = {}
<1>1. CASE AtAddress(t, a) = {}
  BY <1>1 DEF DeleteFirst
<1>2. CASE AtAddress(t, a) # {}
  <2>1. PICK i \in DOMAIN t : t[i].address = a
    BY <1>2 DEF AtAddress
  <2>2. AtAddress(t, a) = {i}
    BY <2>1 DEF AtAddress, DistinctAddresses
  <2>3. i \in Int
    BY <2>1
  <2> DEFINE u == CloseGap(t, i)
  <2>4. DeleteFirst(t, AtAddress(t, a)) = u
    BY <2>2, <2>3, OneIsFirst DEF DeleteFirst
  <2>5. /\ u \in Seq(Breakpoint)
        /\ \A j \in DOMAIN u : Shift(i, j) \in DOMAIN t \ {i} /\ u[j] = t[Shift(i, j)]
        /\ \A j, k \in DOMAIN u : Shift(i, j) = Shift(i, k) => j = k
    BY <2>1, WhatIsKept
  <2> HIDE DEF u
  <2>6. DistinctAddresses(u)
    BY <2>5 DEF DistinctAddresses
  <2>7. AtAddress(u, a) = {}
    BY <2>1, <2>5 DEF AtAddress, DistinctAddresses
  <2> QED
    BY <2>4, <2>5, <2>6, <2>7
<1> QED
  BY <1>1, <1>2

(* The source table without an entry: by its line and by its address it is   *)
(* the one that is found.                                                    *)
LEMMA SourceDeleted ==
  ASSUME NEW t \in Seq(SourceBreakpoint), DistinctSources(t), NEW i \in DOMAIN t
  PROVE  /\ AtAddress(t, t[i].address) = {i}
         /\ OfLine(t, t[i].comp_unit_index, t[i].line_num) = {i}
         /\ FirstIndex({i}) = i
         /\ DeleteFirst(t, {i}) \in Seq(SourceBreakpoint)
         /\ DistinctSources(DeleteFirst(t, {i}))
         /\ AtAddress(DeleteFirst(t, {i}), t[i].address) = {}
         /\ Len(DeleteFirst(t, {i})) = Len(t) - 1
<1>1. /\ AtAddress(t, t[i].address) = {i}
      /\ OfLine(t, t[i].comp_unit_index, t[i].line_num) = {i}
  BY DEF AtAddress, OfLine, DistinctSources
<1>2. i \in Int
  OBVIOUS
<1> DEFINE u == CloseGap(t, i)
<1>3. FirstIndex({i}) = i /\ DeleteFirst(t, {i}) = u
  BY <1>2, OneIsFirst DEF DeleteFirst
<1>4. /\ u \in Seq(SourceBreakpoint) /\ Len(u) = Len(t) - 1
      /\ \A j \in DOMAIN u : Shift(i, j) \in DOMAIN t \ {i} /\ u[j] = t[Shift(i, j)]
      /\ \A j, k \in DOMAIN u : Shift(i, j) = Shift(i, k) => j = k
  BY WhatIsKept
<1> HIDE DEF u
<1>5. DistinctSources(u)
  BY <1>4 DEF DistinctSources
<1>6. AtAddress(u, t[i].address) = {}
  BY <1>4 DEF AtAddress, DistinctSources
<1> QED
  BY <1>1, <1>3, <1>4, <1>5, <1>6

(* The tables without an address, and with that what a scan comes to.        *)
Without(t, a) ==
  Pair(DeleteFirst(t.bps, AtAddress(t.bps, a)), DeleteFirst(t.srcs, AtAddress(t.srcs, a)))

Effect(c) ==
  IF \E j \in AtAddress(c.tables.srcs, c.address) : j >= c.i
    THEN Without(c.tables, c.address)
    ELSE c.tables

(* What a scan is.                                                           *)
LEMMA ScanFacts ==
  /\ \A t \in Tables, a \in Text, i \in Nat \ {0} : Scan(t, a, i) \in Scans
  /\ \A t, a, i : /\ Scan(t, a, i).tables = t
                  /\ Scan(t, a, i).address = a
                  /\ Scan(t, a, i).i = i
  /\ \A c \in Scans : c.tables \in Tables /\ c.address \in Text /\ c.i \in Nat \ {0}
BY DEF Scan, Scans

(* At an entry with the address, remove_source_breakpoint is called: its own *)
(* scan finds nothing more, nor does what is left of this one.               *)
LEMMA CalledAtEntry ==
  ASSUME NEW t \in Tables, NEW i \in DOMAIN t.srcs
  PROVE  LET s == t.srcs[i]
             inner == SourceGone(t, s.comp_unit_index, s.line_num)
         IN  /\ inner \in Scans
             /\ inner.tables = Without(t, s.address)
             /\ inner.address = s.address
             /\ AtAddress(inner.tables.srcs, s.address) = {}
             /\ Len(inner.tables.srcs) = Len(t.srcs) - 1
<1> DEFINE bps == t.bps
           srcs == t.srcs
           a == srcs[i].address
           kept == DeleteFirst(srcs, {i})
           rest == DeleteFirst(bps, AtAddress(bps, a))
           inner == SourceGone(t, srcs[i].comp_unit_index, srcs[i].line_num)
<1>1. /\ bps \in Seq(Breakpoint) /\ DistinctAddresses(bps)
      /\ srcs \in Seq(SourceBreakpoint) /\ DistinctSources(srcs)
  BY PairsOfTables
<1>2. i \in DOMAIN srcs
  OBVIOUS
<1> HIDE DEF bps, srcs
<1>3. a \in Text
  <2>1. srcs[i] \in SourceBreakpoint
    BY <1>1, <1>2
  <2> QED
    BY <2>1 DEF SourceBreakpoint
<1>4. /\ AtAddress(srcs, a) = {i}
      /\ OfLine(srcs, srcs[i].comp_unit_index, srcs[i].line_num) = {i}
      /\ FirstIndex({i}) = i
      /\ kept \in Seq(SourceBreakpoint) /\ DistinctSources(kept)
      /\ AtAddress(kept, a) = {}
      /\ Len(kept) = Len(srcs) - 1
  BY <1>1, <1>2, SourceDeleted
<1>5. rest \in Seq(Breakpoint) /\ DistinctAddresses(rest)
  BY <1>1, AddressDeleted
<1>6. inner = BreakpointGone(Pair(bps, kept), a)
  BY <1>4 DEF SourceGone, bps, srcs
<1>7. inner = Scan(Pair(rest, kept), a, 1)
  BY <1>6 DEF BreakpointGone, Pair
<1>8. Without(t, a) = Pair(rest, kept)
  BY <1>4 DEF Without, bps, srcs
<1> HIDE DEF rest, kept, a, inner
<1>9. Pair(rest, kept) \in Tables
  BY <1>4, <1>5, PairsOfTables
<1>10. inner \in Scans /\ inner.tables = Pair(rest, kept) /\ inner.address = a
  BY <1>3, <1>7, <1>9, ScanFacts
<1>11. Pair(rest, kept).srcs = kept
  BY DEF Pair
<1> QED
  BY <1>4, <1>8, <1>10, <1>11 DEF inner, a, bps, srcs

(* What a scan still does: at an entry with the address, it is done after    *)
(* the call; elsewhere it goes on.                                           *)
LEMMA ScanGoesOn ==
  ASSUME NEW c \in Scans
  PROVE  LET t == c.tables
             s == t.srcs[c.i]
             inner == SourceGone(t, s.comp_unit_index, s.line_num)
             after == Scan(inner.tables, c.address, c.i + 1)
             next == Scan(t, c.address, c.i + 1)
         IN  /\ c.i > Len(t.srcs) => Effect(c) = t
             /\ c.i <= Len(t.srcs) /\ s.address = c.address =>
                  /\ inner \in Scans /\ Effect(inner) = inner.tables
                  /\ Len(inner.tables.srcs) = Len(t.srcs) - 1
                  /\ after \in Scans /\ Effect(after) = Effect(c)
             /\ c.i <= Len(t.srcs) /\ s.address # c.address =>
                  next \in Scans /\ Effect(next) = Effect(c)
<1> DEFINE t == c.tables
           i == c.i
           a == c.address
           s == t.srcs[i]
           inner == SourceGone(t, s.comp_unit_index, s.line_num)
           after == Scan(inner.tables, a, i + 1)
           next == Scan(t, a, i + 1)
<1>1. t \in Tables /\ a \in Text /\ i \in Nat \ {0}
  BY ScanFacts
<1>2. t.srcs \in Seq(SourceBreakpoint)
  BY <1>1, PairsOfTables
<1>3. Effect(c) = IF \E j \in AtAddress(t.srcs, a) : j >= i THEN Without(t, a) ELSE t
  BY DEF Effect
<1> HIDE DEF t, i, a
<1>4. \A j \in AtAddress(t.srcs, a) : j \in 1..Len(t.srcs) /\ t.srcs[j].address = a
  BY <1>2 DEF AtAddress
<1>5. i + 1 \in Nat \ {0}
  BY <1>1
<1>6. ASSUME i > Len(t.srcs)
      PROVE  Effect(c) = t
  <2>1. ~\E j \in AtAddress(t.srcs, a) : j >= i
    BY <1>1, <1>2, <1>4, <1>6
  <2> QED
    BY <1>3, <2>1
<1>7. ASSUME i <= Len(t.srcs), s.address = a
      PROVE  /\ inner \in Scans /\ Effect(inner) = inner.tables
             /\ Len(inner.tables.srcs) = Len(t.srcs) - 1
             /\ after \in Scans /\ Effect(after) = Effect(c)
  <2>1. i \in DOMAIN t.srcs
    BY <1>1, <1>2, <1>7
  <2>2. /\ inner \in Scans
        /\ inner.tables = Without(t, a)
        /\ inner.address = a
        /\ AtAddress(inner.tables.srcs, a) = {}
        /\ Len(inner.tables.srcs) = Len(t.srcs) - 1
    BY <1>1, <1>7, <2>1, CalledAtEntry
  <2> HIDE DEF inner
  <2>3. Effect(inner) = inner.tables
    BY <2>2 DEF Effect
  <2>4. inner.tables \in Tables
    BY <2>2, ScanFacts
  <2>5. after \in Scans /\ after.tables = inner.tables /\ after.address = a
    BY <1>1, <1>5, <2>4, ScanFacts
  <2> HIDE DEF after
  <2>6. Effect(after) = inner.tables
    BY <2>2, <2>5 DEF Effect
  <2>7. i \in AtAddress(t.srcs, a) /\ i >= i
    BY <1>1, <1>7, <2>1 DEF AtAddress
  <2>8. Effect(c) = Without(t, a)
    BY <1>3, <2>7
  <2> QED
    BY <2>2, <2>3, <2>5, <2>6, <2>8
<1>8. ASSUME i <= Len(t.srcs), s.address # a
      PROVE  next \in Scans /\ Effect(next) = Effect(c)
  <2>1. next \in Scans /\ next.tables = t /\ next.address = a /\ next.i = i + 1
    BY <1>1, <1>5, ScanFacts
  <2> HIDE DEF next
  <2>2. \A j \in AtAddress(t.srcs, a) : j >= i <=> j >= i + 1
    <3> SUFFICES ASSUME NEW j \in AtAddress(t.srcs, a) PROVE j >= i <=> j >= i + 1
      OBVIOUS
    <3>1. j # i /\ j \in Int
      BY <1>4, <1>8
    <3> QED
      BY <1>1, <3>1
  <2>3. Effect(next) = IF \E j \in AtAddress(t.srcs, a) : j >= i + 1 THEN Without(t, a) ELSE t
    BY <2>1 DEF Effect
  <2> QED
    BY <1>3, <2>1, <2>2, <2>3
<1> QED
  BY <1>6, <1>7, <1>8 DEF t, i, a

(* One round of the loop, with h for what is called.                         *)
Round(h, c) ==
  LET s == c.tables.srcs[c.i]
      called == IF s.address = c.address
                  THEN h[SourceGone(c.tables, s.comp_unit_index, s.line_num)]
                  ELSE c.tables
  IN  IF c.i > Len(c.tables.srcs)
        THEN c.tables
        ELSE h[Scan(called, c.address, c.i + 1)]

IsRemoval(h) == h = [c \in Scans |-> Round(h, c)]

(* The effect solves the recursion.                                          *)
LEMMA EffectIsRemoval == IsRemoval([c \in Scans |-> Effect(c)])
<1> DEFINE h == [c \in Scans |-> Effect(c)]
<1>1. \A c \in Scans : h[c] = Effect(c)
  OBVIOUS
<1> HIDE DEF h
<1>2. ASSUME NEW c \in Scans
      PROVE  Effect(c) = Round(h, c)
  <2> DEFINE t == c.tables
             s == t.srcs[c.i]
             inner == SourceGone(t, s.comp_unit_index, s.line_num)
  <2>1. c.i \in Nat /\ Len(t.srcs) \in Nat
    <3>1. t.srcs \in Seq(SourceBreakpoint)
      BY ScanFacts, PairsOfTables
    <3> QED
      BY <3>1, ScanFacts
  <2>2. CASE c.i > Len(t.srcs)
    BY <2>2, ScanGoesOn DEF Round
  <2>3. CASE c.i <= Len(t.srcs) /\ s.address = c.address
    <3> DEFINE after == Scan(inner.tables, c.address, c.i + 1)
    <3>1. /\ inner \in Scans /\ Effect(inner) = inner.tables
          /\ after \in Scans /\ Effect(after) = Effect(c)
      BY <2>3, ScanGoesOn
    <3>2. ~(c.i > Len(t.srcs))
      BY <2>1, <2>3
    <3>3. Round(h, c) = h[Scan(h[inner], c.address, c.i + 1)]
      BY <2>3, <3>2 DEF Round
    <3> HIDE DEF inner
    <3>4. h[inner] = inner.tables
      BY <1>1, <3>1
    <3> QED
      BY <1>1, <3>1, <3>3, <3>4
  <2>4. CASE c.i <= Len(t.srcs) /\ s.address # c.address
    <3> DEFINE next == Scan(t, c.address, c.i + 1)
    <3>1. next \in Scans /\ Effect(next) = Effect(c)
      BY <2>4, ScanGoesOn
    <3>2. ~(c.i > Len(t.srcs))
      BY <2>1, <2>4
    <3>3. Round(h, c) = h[next]
      BY <2>4, <3>2 DEF Round
    <3> QED
      BY <1>1, <3>1, <3>3
  <2> QED
    BY <2>1, <2>2, <2>3, <2>4
<1> QED
  BY <1>2 DEF IsRemoval, h

(* Nothing else does: a call is made with a shorter table, and the loop goes *)
(* on with one that is not longer, further on.                               *)
LEMMA RemovalIsEffect ==
  ASSUME NEW h, IsRemoval(h)
  PROVE  \A c \in Scans : h[c] = Effect(c)
<1>1. \A c \in Scans : h[c] = Round(h, c)
  BY DEF IsRemoval
<1> DEFINE Bad == {c \in Scans : h[c] # Effect(c)}
           Length(c) == Len(c.tables.srcs)
           Lengths == {Length(c) : c \in Bad}
<1>2. \A c \in Scans : Length(c) \in Nat /\ c.i \in Nat \ {0}
  <2> SUFFICES ASSUME NEW c \in Scans PROVE Length(c) \in Nat /\ c.i \in Nat \ {0}
    OBVIOUS
  <2>1. c.tables.srcs \in Seq(SourceBreakpoint)
    BY ScanFacts, PairsOfTables
  <2> QED
    BY <2>1, ScanFacts
<1>3. ASSUME Bad # {}
      PROVE  FALSE
  <2>1. PICK least \in Lengths : \A n \in Lengths : least <= n
    <3>1. Lengths \in SUBSET Nat /\ Lengths # {}
      BY <1>2, <1>3
    <3> HIDE DEF Lengths
    <3> QED
      BY <3>1, LeastNatural
  <2>2. \A c \in Scans : Length(c) < least => h[c] = Effect(c)
    <3> SUFFICES ASSUME NEW c \in Scans, Length(c) < least, h[c] # Effect(c) PROVE FALSE
      OBVIOUS
    <3>1. Length(c) \in Lengths
      OBVIOUS
    <3>2. least <= Length(c) /\ least \in Nat
      BY <1>2, <2>1, <3>1
    <3>3. Length(c) \in Nat
      BY <1>2
    <3> HIDE DEF Length, Bad
    <3> QED
      BY <3>2, <3>3
  <2>3. least \in Nat
    BY <1>2, <2>1
  <2> DEFINE Left(c) == IF c.i > Length(c) THEN 0 ELSE Length(c) + 1 - c.i
             Shortest == {c \in Bad : Length(c) = least}
             Lefts == {Left(c) : c \in Shortest}
  <2>4. \A c \in Scans : Left(c) \in Nat
    BY <1>2
  <2>5. Lefts \in SUBSET Nat /\ Lefts # {}
    BY <2>1, <2>4
  <2>6. PICK m \in Lefts : \A n \in Lefts : m <= n
    <3> HIDE DEF Lefts
    <3> QED
      BY <2>5, LeastNatural
  <2>7. PICK c \in Shortest : m = Left(c)
    BY <2>6
  <2>8. c \in Scans /\ h[c] # Effect(c) /\ Length(c) = least
    BY <2>7
  <2>9. \A d \in Scans : Length(d) = least /\ Left(d) < Left(c) => h[d] = Effect(d)
    <3> SUFFICES ASSUME NEW d \in Scans, Length(d) = least, Left(d) < Left(c), h[d] # Effect(d)
                 PROVE  FALSE
      OBVIOUS
    <3>1. Left(d) \in Lefts
      OBVIOUS
    <3>2. Left(c) <= Left(d) /\ Left(c) \in Nat /\ Left(d) \in Nat
      BY <2>4, <2>6, <2>7, <3>1
    <3> HIDE DEF Left, Length
    <3> QED
      BY <3>2
  <2>10. h[c] = Round(h, c)
    BY <1>1, <2>8
  <2> DEFINE t == c.tables
             s == t.srcs[c.i]
             inner == SourceGone(t, s.comp_unit_index, s.line_num)
  <2>11. Length(c) \in Nat /\ c.i \in Nat \ {0} /\ Length(c) = Len(t.srcs)
    BY <1>2, <2>8
  <2>12. CASE c.i > Len(t.srcs)
    BY <2>8, <2>10, <2>12, ScanGoesOn DEF Round
  <2>13. CASE c.i <= Len(t.srcs) /\ s.address = c.address
    <3> DEFINE after == Scan(inner.tables, c.address, c.i + 1)
    <3>1. /\ inner \in Scans /\ Effect(inner) = inner.tables
          /\ Len(inner.tables.srcs) = Len(t.srcs) - 1
          /\ after \in Scans /\ Effect(after) = Effect(c)
      BY <2>8, <2>13, ScanGoesOn
    <3>2. ~(c.i > Len(t.srcs))
      BY <2>11, <2>13
    <3>3. Round(h, c) = h[Scan(h[inner], c.address, c.i + 1)]
      BY <2>13, <3>2 DEF Round
    <3>4. after.tables = inner.tables
      BY ScanFacts
    <3>5. Length(inner) < least /\ Length(after) < least
      <4>1. Length(inner) = least - 1 /\ Length(after) = least - 1
        BY <2>8, <3>1, <3>4
      <4> HIDE DEF Length
      <4> QED
        BY <2>3, <4>1
    <3> HIDE DEF inner
    <3>6. h[inner] = inner.tables /\ h[after] = Effect(after)
      BY <2>2, <3>1, <3>5
    <3> QED
      BY <2>8, <2>10, <3>1, <3>3, <3>6
  <2>14. CASE c.i <= Len(t.srcs) /\ s.address # c.address
    <3> DEFINE next == Scan(t, c.address, c.i + 1)
    <3>1. next \in Scans /\ Effect(next) = Effect(c)
      BY <2>8, <2>14, ScanGoesOn
    <3>2. ~(c.i > Len(t.srcs))
      BY <2>11, <2>14
    <3>3. Round(h, c) = h[next]
      BY <2>14, <3>2 DEF Round
    <3>4. next.tables = t /\ next.i = c.i + 1
      BY ScanFacts
    <3> HIDE DEF next
    <3>5. Length(next) = least /\ Left(next) < Left(c)
      <4>1. Length(next) = Length(c)
        BY <3>4
      <4> HIDE DEF Length, t
      <4>2. c.i <= Length(c)
        BY <2>11, <2>14
      <4> QED
        BY <2>8, <2>11, <3>4, <4>1, <4>2
    <3> QED
      BY <2>8, <2>9, <2>10, <3>1, <3>3, <3>5
  <2> QED
    BY <2>11, <2>12, <2>13, <2>14
<1> QED
  BY <1>3

(* So the recursion ends, and comes to this.                                 *)
LEMMA RemovalsEnd == \A c \in Scans : removal[c] = Effect(c)
<1>1. removal = CHOOSE h : IsRemoval(h)
  BY DEF removal, IsRemoval, Round
<1>2. IsRemoval(CHOOSE h : IsRemoval(h))
  BY EffectIsRemoval
<1> QED
  BY <1>1, <1>2, RemovalIsEffect

(* By an address, and by the line of an entry with that address, the         *)
(* recursion removes the same.                                               *)
LEMMA RemovalsAgree ==
  ASSUME NEW t \in Tables, NEW a \in Text
  PROVE  /\ RemoveBreakpoint(t, a) = Without(t, a)
         /\ \A i \in AtAddress(t.srcs, a) :
              RemoveSource(t, t.srcs[i].comp_unit_index, t.srcs[i].line_num) = Without(t, a)
<1>1. /\ t.bps \in Seq(Breakpoint) /\ DistinctAddresses(t.bps)
      /\ t.srcs \in Seq(SourceBreakpoint) /\ DistinctSources(t.srcs)
  BY PairsOfTables
<1>2. RemoveBreakpoint(t, a) = Without(t, a)
  <2> DEFINE rest == DeleteFirst(t.bps, AtAddress(t.bps, a))
             srcs == t.srcs
             u == Pair(rest, srcs)
             c == BreakpointGone(t, a)
  <2>1. /\ rest \in Seq(Breakpoint) /\ DistinctAddresses(rest)
        /\ AtAddress(rest, a) = {}
    BY <1>1, AddressDeleted
  <2>2. c = Scan(u, a, 1)
    BY DEF BreakpointGone
  <2>3. Without(t, a) = Pair(rest, DeleteFirst(srcs, AtAddress(srcs, a)))
    BY DEF Without
  <2>4. RemoveBreakpoint(t, a) = removal[c]
    BY DEF RemoveBreakpoint
  <2> HIDE DEF rest, c, srcs
  <2>5. u \in Tables
    BY <1>1, <2>1, PairsOfTables DEF srcs
  <2>6. u.bps = rest /\ u.srcs = srcs
    BY DEF Pair
  <2> HIDE DEF u
  <2>7. c \in Scans /\ c.tables = u /\ c.address = a /\ c.i = 1
    BY <2>2, <2>5, ScanFacts
  <2>8. removal[c] = Effect(c)
    BY <2>7, RemovalsEnd
  <2>9. Without(u, a) = Pair(rest, DeleteFirst(srcs, AtAddress(srcs, a)))
    BY <2>1, <2>6 DEF Without, DeleteFirst
  <2>10. CASE AtAddress(srcs, a) = {}
    <3>1. Effect(c) = u
      BY <2>6, <2>7, <2>10 DEF Effect
    <3>2. Without(t, a) = u
      BY <2>3, <2>10 DEF DeleteFirst, u
    <3> QED
      BY <2>4, <2>8, <3>1, <3>2
  <2>11. CASE AtAddress(srcs, a) # {}
    <3>1. PICK j : j \in AtAddress(srcs, a)
      BY <2>11
    <3>2. j >= 1
      BY <1>1, <3>1 DEF AtAddress, srcs
    <3>3. Effect(c) = Without(u, a)
      BY <2>6, <2>7, <3>1, <3>2 DEF Effect
    <3> QED
      BY <2>3, <2>4, <2>8, <2>9, <3>3
  <2> QED
    BY <2>10, <2>11
<1>3. ASSUME NEW i \in AtAddress(t.srcs, a)
      PROVE  RemoveSource(t, t.srcs[i].comp_unit_index, t.srcs[i].line_num) = Without(t, a)
  <2> DEFINE s == t.srcs[i]
             inner == SourceGone(t, s.comp_unit_index, s.line_num)
  <2>1. i \in DOMAIN t.srcs /\ s.address = a
    BY DEF AtAddress
  <2>2. /\ inner \in Scans
        /\ inner.tables = Without(t, a)
        /\ inner.address = a
        /\ AtAddress(inner.tables.srcs, a) = {}
    BY <2>1, CalledAtEntry
  <2>3. OfLine(t.srcs, s.comp_unit_index, s.line_num) = {i}
    BY <1>1, <2>1, SourceDeleted
  <2>4. RemoveSource(t, s.comp_unit_index, s.line_num) = removal[inner]
    BY <2>3 DEF RemoveSource
  <2> HIDE DEF inner
  <2>5. removal[inner] = Effect(inner)
    BY <2>2, RemovalsEnd
  <2>6. Effect(inner) = Without(t, a)
    BY <2>2 DEF Effect
  <2> QED
    BY <2>4, <2>5, <2>6
<1> QED
  BY <1>2, <1>3

(* The actions, put the same way.                                            *)
LEMMA DropIsDeletion ==
  ASSUME breakpoints \in Seq(Breakpoint), UniqueAddresses, NEW a, DropBreakpoint(a)
  PROVE  breakpoints' = DeleteFirst(breakpoints, AtAddress(breakpoints, a))
<1>1. AtAddress(breakpoints, a) = IndicesOf(a)
  BY DEF AtAddress, IndicesOf
<1>2. CASE a \notin Addresses
  <2>1. IndicesOf(a) = {}
    BY <1>2 DEF Addresses, IndicesOf
  <2> QED
    BY <1>1, <1>2, <2>1 DEF DropBreakpoint, DeleteFirst
<1>3. CASE a \in Addresses
  <2>1. PICK i \in FirstOf(IndicesOf(a)) : breakpoints' = CloseGap(breakpoints, i)
    BY <1>3 DEF DropBreakpoint
  <2>2. i \in DOMAIN breakpoints /\ breakpoints[i].address = a
    BY <2>1 DEF FirstOf, IndicesOf
  <2>3. IndicesOf(a) = {i} /\ i \in Int
    BY <2>2 DEF IndicesOf, UniqueAddresses
  <2> QED
    BY <1>1, <2>1, <2>3, OneIsFirst DEF DeleteFirst
<1> QED
  BY <1>2, <1>3

(* A removal, by address or by line, takes the address from both tables.     *)
LEMMA RemovalStep ==
  ASSUME TablesInv, BreakpointsNext, Len(breakpoints') < Len(breakpoints)
  PROVE  \E a \in Text :
           /\ a \in Addresses /\ a \notin Addresses'
           /\ Pair(breakpoints', src_breakpoints') =
                Without(Pair(breakpoints, src_breakpoints), a)
<1>1. /\ breakpoints \in Seq(Breakpoint) /\ UniqueAddresses
      /\ src_breakpoints \in Seq(SourceBreakpoint) /\ DistinctSources(src_breakpoints)
      /\ SourceBacked
  BY DEF TablesInv, BreakpointsTypeOK, UniqueSources, DistinctSources
<1>2. \A a : Without(Pair(breakpoints, src_breakpoints), a) =
               Pair(DeleteFirst(breakpoints, AtAddress(breakpoints, a)),
                    DeleteFirst(src_breakpoints, AtAddress(src_breakpoints, a)))
  BY DEF Without, Pair
<1>3. ASSUME NEW a \in Text, add_breakpoint(a)
      PROVE  FALSE
  <2> DEFINE e == [address |-> a, original_byte |-> get_text_data(a)]
  <2>1. breakpoints' = Append(breakpoints, e)
    BY <1>3 DEF add_breakpoint
  <2>2. e \in Breakpoint
    BY BreakpointsAssumption DEF Breakpoint, get_text_data
  <2> HIDE DEF e
  <2>3. Len(breakpoints') = Len(breakpoints) + 1 /\ Len(breakpoints) \in Nat
    BY <1>1, <2>1, <2>2
  <2> QED
    BY <2>3
<1>4. ASSUME NEW a \in Text, a \in Addresses, remove_breakpoint(a)
      PROVE  /\ a \notin Addresses'
             /\ Pair(breakpoints', src_breakpoints') =
                  Without(Pair(breakpoints, src_breakpoints), a)
  <2>1. Addresses' = Addresses \ {a}
    BY <1>4, RemoveBreakpointPreserves
  <2>2. breakpoints' = DeleteFirst(breakpoints, AtAddress(breakpoints, a))
    BY <1>1, <1>4, DropIsDeletion DEF remove_breakpoint
  <2>3. AtAddress(src_breakpoints, a) = SourceIndicesOf(a)
    BY DEF AtAddress, SourceIndicesOf
  <2>4. src_breakpoints' = DeleteFirst(src_breakpoints, AtAddress(src_breakpoints, a))
    <3>1. CASE SourceIndicesOf(a) = {}
      BY <1>4, <2>3, <3>1 DEF remove_breakpoint, DropSourceBreakpoint, DeleteFirst
    <3>2. CASE SourceIndicesOf(a) # {}
      <4>1. PICK i \in FirstOf(SourceIndicesOf(a)) :
              src_breakpoints' = CloseGap(src_breakpoints, i)
        BY <1>4, <3>2 DEF remove_breakpoint, DropSourceBreakpoint
      <4>2. i \in DOMAIN src_breakpoints /\ src_breakpoints[i].address = a
        BY <4>1 DEF FirstOf, SourceIndicesOf
      <4>3. AtAddress(src_breakpoints, a) = {i} /\ FirstIndex({i}) = i
        BY <1>1, <4>2, SourceDeleted
      <4> QED
        BY <4>1, <4>3 DEF DeleteFirst
    <3> QED
      BY <3>1, <3>2
  <2> QED
    BY <1>2, <2>1, <2>2, <2>4
<1>5. ASSUME NEW cu \in CompUnits, NEW line \in Lines, remove_source_breakpoint(cu, line)
      PROVE  \E a \in Text :
               /\ a \in Addresses /\ a \notin Addresses'
               /\ Pair(breakpoints', src_breakpoints') =
                    Without(Pair(breakpoints, src_breakpoints), a)
  <2>1. PICK i \in FirstOf(SourceIndicesAt(cu, line)) :
          /\ src_breakpoints' = CloseGap(src_breakpoints, i)
          /\ DropBreakpoint(src_breakpoints[i].address)
    BY <1>5 DEF remove_source_breakpoint
  <2>2. i \in DOMAIN src_breakpoints
    BY <2>1 DEF FirstOf, SourceIndicesAt
  <2> DEFINE a == src_breakpoints[i].address
  <2>3. a \in Addresses
    BY <1>1, <2>2 DEF SourceBacked
  <2>4. a \in Text
    <3>1. src_breakpoints[i] \in SourceBreakpoint
      BY <1>1, <2>2
    <3> QED
      BY <3>1 DEF SourceBreakpoint
  <2>5. AtAddress(src_breakpoints, a) = {i} /\ FirstIndex({i}) = i
    BY <1>1, <2>2, SourceDeleted
  <2>6. DropBreakpoint(a)
    BY <2>1
  <2>7. src_breakpoints' = DeleteFirst(src_breakpoints, AtAddress(src_breakpoints, a))
    BY <2>1, <2>5 DEF DeleteFirst
  <2> HIDE DEF a
  <2>8. breakpoints' = DeleteFirst(breakpoints, AtAddress(breakpoints, a))
    BY <1>1, <2>6, DropIsDeletion
  <2>9. Addresses' = Addresses \ {a}
    BY <1>1, <2>6, DropBreakpointEffect
  <2> QED
    BY <1>2, <2>3, <2>4, <2>7, <2>8, <2>9
<1>6. ASSUME NEW cu \in CompUnits, NEW line \in Lines, set_source_breakpoint(cu, line)
      PROVE  FALSE
  <2>1. PICK p \in FirstStatementOf(cu, line) : add_breakpoint(EntryAt(cu, p).address)
    BY <1>6 DEF set_source_breakpoint
  <2>2. EntryAt(cu, p).address \in Text
    BY <2>1 DEF add_breakpoint
  <2> QED
    BY <1>3, <2>1, <2>2
<1>7. ASSUME NEW a \in Text, toggle_breakpoint(a)
      PROVE  \E b \in Text :
               /\ b \in Addresses /\ b \notin Addresses'
               /\ Pair(breakpoints', src_breakpoints') =
                    Without(Pair(breakpoints, src_breakpoints), b)
  BY <1>3, <1>4, <1>7 DEF toggle_breakpoint
<1>8. ASSUME NEW cu \in CompUnits, NEW line \in Lines, toggle_source_breakpoint(cu, line)
      PROVE  \E b \in Text :
               /\ b \in Addresses /\ b \notin Addresses'
               /\ Pair(breakpoints', src_breakpoints') =
                    Without(Pair(breakpoints, src_breakpoints), b)
  BY <1>5, <1>6, <1>8 DEF toggle_source_breakpoint
<1> QED
  BY <1>7, <1>8 DEF BreakpointsNext

(* The removals are the mutual recursion of remove_breakpoint and            *)
(* remove_source_breakpoint, by whichever of the two it is entered: it ends, *)
(* and with the same tables.                                                 *)
THEOREM RemovalsAreTheRecursion == BreakpointsSpec => RemovalsRefineRecursion
<1> DEFINE t == Pair(breakpoints, src_breakpoints)
           left == Pair(breakpoints', src_breakpoints')
           Removed ==
             Len(breakpoints') < Len(breakpoints) =>
               \E a \in Addresses \ Addresses' :
                 /\ left = RemoveBreakpoint(t, a)
                 /\ \A i \in SourceIndicesOf(a) :
                      left = RemoveSource(t, src_breakpoints[i].comp_unit_index,
                                          src_breakpoints[i].line_num)
<1>1. ASSUME TablesInv, BreakpointsNext
      PROVE  Removed
  <2> SUFFICES ASSUME Len(breakpoints') < Len(breakpoints)
               PROVE  \E a \in Addresses \ Addresses' :
                        /\ left = RemoveBreakpoint(t, a)
                        /\ \A i \in SourceIndicesOf(a) :
                             left = RemoveSource(t, src_breakpoints[i].comp_unit_index,
                                                 src_breakpoints[i].line_num)
    OBVIOUS
  <2>1. PICK a \in Text : a \in Addresses /\ a \notin Addresses' /\ left = Without(t, a)
    BY <1>1, RemovalStep
  <2>2. t \in Tables
    BY <1>1, PairsOfTables DEF TablesInv, BreakpointsTypeOK, UniqueAddresses,
                               UniqueSources, DistinctAddresses, DistinctSources
  <2>3. t.srcs = src_breakpoints /\ AtAddress(t.srcs, a) = SourceIndicesOf(a)
    BY DEF Pair, AtAddress, SourceIndicesOf
  <2> HIDE DEF t, left
  <2>4. /\ RemoveBreakpoint(t, a) = Without(t, a)
        /\ \A i \in SourceIndicesOf(a) :
             RemoveSource(t, src_breakpoints[i].comp_unit_index,
                          src_breakpoints[i].line_num) = Without(t, a)
    BY <2>2, <2>3, RemovalsAgree
  <2> QED
    BY <2>1, <2>4
<1>2. TablesInv /\ [BreakpointsNext]_tables => [Removed]_tables
  BY <1>1
<1> QED
  BY <1>2, TablesInvariant, PTL DEF BreakpointsSpec, RemovalsRefineRecursion
=============================================================================
