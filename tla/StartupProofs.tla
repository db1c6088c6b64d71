---------------------------- MODULE StartupProofs ----------------------------
(***************************************************************************)
(* Theorems about Startup, for every executable: where its addresses are     *)
(* in the process, the places of the sources the picker offers, the types    *)
(* of all that is read, whatever the bytes; and that the binary reader       *)
(* reads back each kind of number and string as a producer writes it.        *)
(***************************************************************************)
EXTENDS Startup, NumberLemmas, SequenceTheorems, TLAPS

-----------------------------------------------------------------------------
(* What is kept of the executable and of its units.                          *)

(* Some sequence, of whatever it may be.                                     *)
IsSequence(s) == \E S : s \in Seq(S)

(* What was parsed is not touched again, and the picker is filled last, from *)
(* the units as they were decoded.                                           *)
StartupInv ==
  /\ file \in Files
  /\ IsSequence(comp_units)
  /\ pc # "elf" => program_data = ProgramData(file)
  /\ pc = "done" =>
       picker = [i \in DOMAIN comp_units |-> get_file_path(comp_units[i].header, 0)]

(* A step that leaves the file and what was kept of it, of a startup that is *)
(* under way and is not over with it.                                        *)
GoesOn ==
  /\ UNCHANGED <<file, program_data>>
  /\ IsSequence(comp_units) => IsSequence(comp_units')
  /\ pc # "elf"
  /\ pc' # "done"

(* Units are appended, and the last one's table is filled in.                *)
LEMMA UnitsAreASequence ==
  ASSUME NEW s, IsSequence(s), NEW e
  PROVE  IsSequence(Append(s, e)) /\ IsSequence([s EXCEPT ![Len(s)] = e])
<1>1. PICK S : s \in Seq(S)
  BY DEF IsSequence
<1>2. s \in Seq(S \cup {e})
  BY <1>1
<1> DEFINE T == S \cup {e}
<1>3. e \in T
  OBVIOUS
<1> HIDE DEF T
<1>4. Append(s, e) \in Seq(T)
  BY <1>2, <1>3 DEF T
<1>5. [s EXCEPT ![Len(s)] = e] \in Seq(T)
  <2> DEFINE t == [s EXCEPT ![Len(s)] = e]
  <2>1. DOMAIN s = 1..Len(s) /\ Len(s) \in Nat /\ \A i \in DOMAIN s : s[i] \in S
    BY <1>1
  <2>2. DOMAIN t = 1..Len(s) /\ \A i \in 1..Len(s) : t[i] \in T
    BY <1>3, <2>1 DEF T
  <2>3. t = [i \in 1..Len(s) |-> t[i]]
    BY <2>2
  <2> HIDE DEF t
  <2>4. t \in [1..Len(s) -> T]
    BY <2>2, <2>3
  <2>5. t \in Seq(T)
    BY <2>1, <2>4, SeqDef
  <2> QED
    BY <2>5 DEF t
<1> QED
  BY <1>4, <1>5 DEF IsSequence

(* Opcodes go on with the unit.                                              *)
LEMMA OpcodesGoOn ==
  ASSUME NEW r, NEW rows, NEW rest, At("program"), Executes(r, rows, rest)
  PROVE  GoesOn
BY DEF GoesOn, At, Executes

(* So do those that append a row, and those that do not.                     *)
LEMMA RegistersGoOn ==
  ASSUME At("program"), NEW r, NEW row, NEW rest,
         Sets(r, rest) \/ AppendsRow(row, r, rest)
  PROVE  GoesOn
BY OpcodesGoOn DEF Sets, AppendsRow

(* Reading a header goes on.                                                 *)
LEMMA HeadersGoOn ==
  ASSUME \/ ReadUnitLength \/ ReadHeaderField \/ ReadOpcodeLengths
         \/ ReadFormatCount \/ ReadFormat \/ ReadEntryCount
         \/ BeginEntry \/ ReadEntryField \/ EndDirectories
  PROVE  GoesOn
<1>1. ASSUME NEW label, InHeader(label)
      PROVE  pc = label /\ UNCHANGED <<file, program_data, comp_units>>
  BY <1>1 DEF InHeader, At
<1>2. CASE ReadUnitLength
  BY <1>1, <1>2 DEF ReadUnitLength, GoesOn
<1>3. CASE ReadHeaderField
  BY <1>1, <1>3 DEF ReadHeaderField, GoesOn
<1>4. CASE ReadOpcodeLengths
  BY <1>1, <1>4 DEF ReadOpcodeLengths, GoesOn
<1>5. CASE ReadFormatCount
  BY <1>1, <1>5 DEF ReadFormatCount, GoesOn
<1>6. CASE ReadFormat
  BY <1>1, <1>6 DEF ReadFormat, GoesOn
<1>7. CASE ReadEntryCount
  BY <1>1, <1>7 DEF ReadEntryCount, GoesOn
<1>8. CASE BeginEntry
  BY <1>1, <1>8 DEF BeginEntry, GoesOn
<1>9. CASE ReadEntryField
  BY <1>1, <1>9 DEF ReadEntryField, GoesOn
<1>10. CASE EndDirectories
  BY <1>1, <1>10 DEF EndDirectories, GoesOn
<1> QED
  BY <1>2, <1>3, <1>4, <1>5, <1>6, <1>7, <1>8, <1>9, <1>10

(* So does decoding a program, from its beginning to its end.                *)
LEMMA ProgramsGoOn ==
  ASSUME \/ BeginProgram
         \/ DW_LNE_end_sequence \/ DW_LNE_set_address \/ DW_LNE_set_discriminator
         \/ OtherExtended
         \/ DW_LNS_copy \/ DW_LNS_advance_pc \/ DW_LNS_advance_line
         \/ DW_LNS_set_file_or_column
         \/ DW_LNS_negate_stmt \/ DW_LNS_set_mark \/ DW_LNS_const_add_pc
         \/ DW_LNS_fixed_advance_pc
         \/ DW_LNS_set_isa \/ OtherStandard \/ Special \/ DivideByZero \/ EndProgram
  PROVE  GoesOn
<1>0. /\ Decoding => At("program")
      /\ \A opcode : Standard(opcode) => At("program")
      /\ Extended => At("program")
      /\ SpecialRead => At("program")
  BY DEF Decoding, Standard, Extended, SpecialRead
<1>1. CASE BeginProgram
  <2>1. \/ UNCHANGED comp_units
        \/ comp_units' = Append(comp_units, [header |-> header, table |-> << >>])
    BY <1>1 DEF BeginProgram
  <2>2. IsSequence(comp_units) => IsSequence(comp_units')
    BY <2>1, UnitsAreASequence
  <2> QED
    BY <1>1, <2>2 DEF BeginProgram, GoesOn, At
<1>2. CASE DivideByZero
  BY <1>0, <1>2 DEF DivideByZero, GoesOn, At
<1>18. CASE EndProgram
  <2>1. comp_units' = [comp_units EXCEPT ![Len(comp_units)] =
                         [comp_units[Len(comp_units)] EXCEPT !.table = line_info_table]]
    BY <1>18 DEF EndProgram
  <2>2. IsSequence(comp_units) => IsSequence(comp_units')
    BY <2>1, UnitsAreASequence
  <2> QED
    BY <1>18, <2>2 DEF EndProgram, GoesOn, At
<1>3. CASE DW_LNE_end_sequence
  BY <1>0, <1>3, RegistersGoOn DEF DW_LNE_end_sequence
<1>4. CASE DW_LNE_set_address
  BY <1>0, <1>4, RegistersGoOn DEF DW_LNE_set_address
<1>5. CASE DW_LNE_set_discriminator
  BY <1>0, <1>5, RegistersGoOn DEF DW_LNE_set_discriminator
<1>6. CASE OtherExtended
  BY <1>0, <1>6, RegistersGoOn DEF OtherExtended
<1>7. CASE DW_LNS_copy
  BY <1>0, <1>7, RegistersGoOn DEF DW_LNS_copy
<1>8. CASE DW_LNS_advance_pc
  BY <1>0, <1>8, RegistersGoOn DEF DW_LNS_advance_pc
<1>9. CASE DW_LNS_advance_line
  BY <1>0, <1>9, RegistersGoOn DEF DW_LNS_advance_line
<1>10. CASE DW_LNS_set_file_or_column
  BY <1>0, <1>10, RegistersGoOn DEF DW_LNS_set_file_or_column
<1>11. CASE DW_LNS_negate_stmt
  BY <1>0, <1>11, RegistersGoOn DEF DW_LNS_negate_stmt
<1>12. CASE DW_LNS_set_mark
  BY <1>0, <1>12, RegistersGoOn DEF DW_LNS_set_mark
<1>13. CASE DW_LNS_const_add_pc
  BY <1>0, <1>13, RegistersGoOn DEF DW_LNS_const_add_pc
<1>14. CASE DW_LNS_fixed_advance_pc
  BY <1>0, <1>14, RegistersGoOn DEF DW_LNS_fixed_advance_pc
<1>15. CASE DW_LNS_set_isa
  BY <1>0, <1>15, RegistersGoOn DEF DW_LNS_set_isa
<1>16. CASE OtherStandard
  BY <1>0, <1>16, RegistersGoOn DEF OtherStandard
<1>17. CASE Special
  BY <1>0, <1>17, RegistersGoOn DEF Special
<1> QED
  BY <1>1, <1>2, <1>3, <1>4, <1>5, <1>6, <1>7, <1>8, <1>9, <1>10, <1>11, <1>12, <1>13,
     <1>14, <1>15, <1>16, <1>17, <1>18

(* The invariant holds in every state of a startup.                          *)
THEOREM StartupInvariant == Spec => []StartupInv
<1>1. Init => StartupInv
  <2>1. << >> \in Seq({})
    OBVIOUS
  <2>2. IsSequence(<< >>)
    BY <2>1 DEF IsSequence
  <2> QED
    BY <2>2 DEF Init, StartupInv
<1>2. ASSUME StartupInv, [Next]_vars
      PROVE  StartupInv'
  <2>1. GoesOn => StartupInv'
    BY <1>2 DEF GoesOn, StartupInv
  <2>2. CASE ParseElf
    BY <1>2, <2>2 DEF ParseElf, At, StartupInv
  <2>3. CASE FillPicker
    BY <1>2, <2>3 DEF FillPicker, At, StartupInv
  <2>4. CASE Started \/ UNCHANGED vars
    BY <1>2, <2>4 DEF Started, vars, StartupInv
  <2> QED
    BY <1>2, <2>1, <2>2, <2>3, <2>4, HeadersGoOn, ProgramsGoOn DEF Next
<1> QED
  BY <1>1, <1>2, PTL DEF Spec

-----------------------------------------------------------------------------
(* Addresses.                                                                *)

(* A segment, as far as it is looked at.                                     *)
ProgramHeader == [type : Nat, vaddr : Nat]

(* "Loadable segment entries in the program header table appear in ascending *)
(* order, sorted on the p_vaddr member" (ELF).                               *)
Linked ==
  \A f \in Files :
    /\ f.segments \in Seq(ProgramHeader)
    /\ \A i, j \in DOMAIN f.segments :
         i < j /\ f.segments[i].type = PT_LOAD /\ f.segments[j].type = PT_LOAD =>
           f.segments[i].vaddr <= f.segments[j].vaddr

(* The load address parse_elf_file keeps is the lowest of the file.          *)
LEMMA LoadAddressIsLowest ==
  ASSUME Linked, file \in Files, Loads # {}
  PROVE  /\ LoadAddress(file) \in Nat
         /\ LoadAddress(file) = Min({file.segments[i].vaddr : i \in Loads})
<1> DEFINE segments == file.segments
           vaddrs == {segments[i].vaddr : i \in Loads}
<1>1. /\ segments \in Seq(ProgramHeader)
      /\ DOMAIN segments = 1..Len(segments) /\ Len(segments) \in Nat
      /\ Loads \in SUBSET Nat /\ Loads \subseteq DOMAIN segments
  BY DEF Linked, Loads
<1>2. \A i, j \in Loads : i < j => segments[i].vaddr <= segments[j].vaddr
  BY DEF Linked, Loads
<1>3. /\ Loads = {i \in DOMAIN segments : segments[i].type = PT_LOAD}
      /\ FirstLoad(file) = {i \in DOMAIN segments :
                               /\ segments[i].type = PT_LOAD
                               /\ \A j \in 1..(i - 1) : segments[j].type # PT_LOAD}
  BY DEF Loads, FirstLoad
<1>4. PICK first \in Loads : \A i \in Loads : first <= i
  BY <1>1, LeastNatural
<1> HIDE DEF segments
<1>5. \A i \in Loads : segments[i].vaddr \in Nat
  <2>1. \A i \in DOMAIN segments : segments[i] \in ProgramHeader
    BY <1>1
  <2> QED
    BY <1>1, <2>1 DEF ProgramHeader
<1>6. \A i \in Loads : segments[first].vaddr <= segments[i].vaddr
  <2> TAKE i \in Loads
  <2>1. first < i \/ first = i
    BY <1>1, <1>4
  <2> QED
    BY <1>2, <1>5, <2>1
<1>7. FirstLoad(file) = {first}
  <2>1. first \in FirstLoad(file)
    BY <1>1, <1>3, <1>4
  <2>2. ASSUME NEW i \in FirstLoad(file)
        PROVE  i = first
    <3>1. i \in Loads /\ \A j \in 1..(i - 1) : segments[j].type # PT_LOAD
      BY <1>3, <2>2
    <3>2. first \notin 1..(i - 1)
      BY <1>3, <3>1
    <3> QED
      BY <1>1, <1>4, <3>1, <3>2
  <2> QED
    BY <2>1, <2>2
<1>8. LoadAddress(file) = segments[first].vaddr
  BY <1>7 DEF LoadAddress, segments
<1>9. Min(vaddrs) = segments[first].vaddr
  <2>1. \A v \in vaddrs : segments[first].vaddr <= v
    BY <1>6
  <2>2. segments[first].vaddr \in vaddrs /\ \A v \in vaddrs : v \in Nat
    BY <1>5
  <2> HIDE DEF vaddrs
  <2>3. \A v \in vaddrs : (\A w \in vaddrs : v <= w) => v = segments[first].vaddr
    BY <2>1, <2>2
  <2> QED
    BY <2>1, <2>2, <2>3 DEF Min
<1> QED
  BY <1>5, <1>8, <1>9 DEF segments

(* As AddressesAreMapped, for an image at any page.                          *)
AddressesAreMappedAnywhere ==
  pc # "elf" /\ Loads # {} =>
    LET lowest == Min({file.segments[i].vaddr : i \in Loads})
    IN  lowest % PAGE = 0 =>
          \A bias \in Nat, i \in Loads :
            get_address_from_vma(file.segments[i].vaddr, program_data.load_address,
                                 bias * PAGE + lowest)
              = bias * PAGE + file.segments[i].vaddr

(* What get_address_from_vma makes of an address of the file is where the    *)
(* kernel mapped it, for every file whose segments are in the order ELF asks *)
(* for.                                                                      *)
THEOREM MappedAnywhere ==
  ASSUME Linked
  PROVE  Spec => []AddressesAreMappedAnywhere
<1>1. ASSUME StartupInv, pc # "elf", Loads # {}, NEW bias \in Nat, NEW i \in Loads
      PROVE  LET lowest == Min({file.segments[j].vaddr : j \in Loads})
             IN  get_address_from_vma(file.segments[i].vaddr, program_data.load_address,
                                      bias * PAGE + lowest)
                   = bias * PAGE + file.segments[i].vaddr
  <2> DEFINE lowest == Min({file.segments[j].vaddr : j \in Loads})
             vaddr == file.segments[i].vaddr
  <2>1. program_data.load_address = lowest
    BY <1>1, LoadAddressIsLowest DEF StartupInv, ProgramData
  <2>2. vaddr \in Int /\ lowest \in Int
    <3> DEFINE segments == file.segments
    <3>1. segments \in Seq(ProgramHeader) /\ i \in DOMAIN segments
      BY <1>1 DEF Linked, StartupInv, Loads
    <3>2. vaddr \in Nat
      <4> HIDE DEF segments
      <4>1. segments[i] \in ProgramHeader
        BY <3>1
      <4> QED
        BY <4>1 DEF segments, ProgramHeader
    <3>3. LoadAddress(file) \in Nat /\ LoadAddress(file) = lowest
      BY <1>1, LoadAddressIsLowest DEF StartupInv
    <3> QED
      BY <3>2, <3>3
  <2> HIDE DEF lowest, vaddr
  <2>3. ((bias * PAGE + lowest) - lowest) + vaddr = bias * PAGE + vaddr
    BY <2>2 DEF PAGE
  <2> QED
    BY <2>1, <2>3 DEF get_address_from_vma, lowest, vaddr
<1>2. StartupInv => AddressesAreMappedAnywhere
  BY <1>1 DEF AddressesAreMappedAnywhere
<1> QED
  BY <1>2, StartupInvariant, PTL

(* In particular it is for the images that the runs look at.                 *)
THEOREM MappedAddresses ==
  ASSUME Linked
  PROVE  Spec => []AddressesAreMapped
<1>1. {0, 1, 3} \subseteq Nat
  OBVIOUS
<1>2. AddressesAreMappedAnywhere => AddressesAreMapped
  BY <1>1 DEF AddressesAreMappedAnywhere, AddressesAreMapped
<1> QED
  BY <1>2, MappedAnywhere, PTL

-----------------------------------------------------------------------------
(* Paths.                                                                    *)

(* A directory or a file as it is written; names are of characters.          *)
WrittenEntry == [path : Seq(1..255), directory_index : Nat]

(* The units' files are in directories that they name.                       *)
Named ==
  \A f \in Files : \A i \in 1..Len(f.units) :
    LET unit == f.units[i]
    IN  /\ unit.directories \in Seq(WrittenEntry) /\ unit.file_names \in Seq(WrittenEntry)
        /\ HasFile(unit) =>
             unit.file_names[1].directory_index < Len(unit.directories)

(* A name that was read is neither of those that were not.                   *)
LEMMA NamesAreNames ==
  ASSUME NEW entries \in Seq(WrittenEntry), NEW n \in Nat, n < Len(entries)
  PROVE  /\ EntryOf(entries, n) = entries[n + 1]
         /\ entries[n + 1].path \notin {Null, Undefined}
         /\ entries[n + 1].directory_index \in Nat
<1>1. n + 1 \in DOMAIN entries
  OBVIOUS
<1>2. entries[n + 1] \in WrittenEntry
  BY <1>1
<1>3. entries[n + 1].path \in Seq(1..255) /\ entries[n + 1].directory_index \in Nat
  BY <1>2 DEF WrittenEntry
<1>4. \A k \in Int : <<k>> \in Seq(1..255) => k \in 1..255
  <2> TAKE k \in Int
  <2> SUFFICES ASSUME <<k>> \in Seq(1..255) PROVE k \in 1..255
    OBVIOUS
  <2>1. <<k>>[1] \in 1..255
    OBVIOUS
  <2> QED
    BY <2>1
<1>5. Null \notin Seq(1..255) /\ Undefined \notin Seq(1..255)
  BY <1>4 DEF Null, Undefined
<1> QED
  BY <1>3, <1>5 DEF EntryOf

(* The path made of a header is the place of the unit's first file, whichever*)
(* of the names are absolute.                                                *)
LEMMA PathIsPlace ==
  ASSUME NEW header_read, NEW unit, HasFile(unit),
         unit.directories \in Seq(WrittenEntry), unit.file_names \in Seq(WrittenEntry),
         unit.file_names[1].directory_index < Len(unit.directories),
         header_read.directories = unit.directories,
         header_read.file_names = unit.file_names
  PROVE  get_file_path(header_read, 0) = Located(unit, unit.file_names[1])
<1> DEFINE files == unit.file_names
           directories == unit.directories
           written == files[1]
           index == written.directory_index
           named == directories[index + 1].path
           first == directories[1].path
<1>1. 0 < Len(files) /\ 0 < Len(directories)
  <2>1. files # << >> /\ directories # << >>
    BY DEF HasFile
  <2> QED
    BY <2>1
<1>2. EntryOf(files, 0) = written /\ written.path \notin {Null, Undefined} /\ index \in Nat
  BY <1>1, NamesAreNames
<1>3. EntryOf(directories, index).path = named /\ named \notin {Null, Undefined}
  BY <1>2, NamesAreNames
<1>4. EntryOf(directories, 0).path = first /\ first \notin {Null, Undefined}
  BY <1>1, NamesAreNames
<1> HIDE DEF named, first, index, written, files, directories
<1>5. /\ header_read.file_names = files /\ header_read.directories = directories
      /\ files[1] = written /\ written.directory_index = index
      /\ directories[index + 1].path = named /\ directories[1].path = first
  BY DEF written, index, named, first, files, directories
<1>6. get_file_path(header_read, 0) =
        IF IsAbsolute(written.path) THEN written.path
        ELSE IF IsAbsolute(named) THEN named \o <<Slash>> \o written.path
        ELSE first \o <<Slash>> \o named \o <<Slash>> \o written.path
  BY <1>2, <1>3, <1>4, <1>5 DEF get_file_path
<1>7. Located(unit, written) =
        IF IsAbsolute(written.path)
          THEN written.path
          ELSE (IF IsAbsolute(named) THEN named ELSE first \o <<Slash>> \o named)
                 \o <<Slash>> \o written.path
  BY <1>5 DEF Located, directories
<1>8. get_file_path(header_read, 0) = Located(unit, written)
  <2>1. CASE IsAbsolute(written.path)
    BY <1>6, <1>7, <2>1
  <2>2. CASE ~IsAbsolute(written.path) /\ IsAbsolute(named)
    BY <1>6, <1>7, <2>2
  <2>3. CASE ~IsAbsolute(written.path) /\ ~IsAbsolute(named)
    BY <1>6, <1>7, <2>3
  <2> QED
    BY <2>1, <2>2, <2>3
<1> QED
  BY <1>8 DEF written, files

(* As long as headers are decoded as they were written, the picker's lines   *)
(* are the places of the units' files.                                       *)
THEOREM DecodedPathsResolve ==
  ASSUME Named
  PROVE  Spec /\ []DecodesWhatWasWritten => []PathsResolve
<1>1. ASSUME StartupInv, DecodesWhatWasWritten, pc = "done", file.whole,
             NEW i \in DOMAIN picker, HasFile(file.units[i])
      PROVE  picker[i] = Located(file.units[i], file.units[i].file_names[1])
  <2> DEFINE unit == file.units[i]
             decoded == comp_units[i].header
  <2>1. DOMAIN picker = DOMAIN comp_units /\ picker[i] = get_file_path(decoded, 0)
    BY <1>1 DEF StartupInv
  <2>2. /\ i <= Len(file.units)
        /\ decoded.directories = unit.directories /\ decoded.file_names = unit.file_names
    BY <1>1, <2>1 DEF DecodesWhatWasWritten
  <2>3. i \in 1..Len(file.units)
    <3>1. PICK S : comp_units \in Seq(S)
      BY <1>1 DEF StartupInv, IsSequence
    <3>2. DOMAIN comp_units = 1..Len(comp_units)
      BY <3>1
    <3>3. Len(file.units) = Len(comp_units)
      BY <1>1 DEF DecodesWhatWasWritten
    <3> QED
      BY <2>1, <3>2, <3>3
  <2>4. file \in Files
    BY <1>1 DEF StartupInv
  <2>5. /\ unit.directories \in Seq(WrittenEntry)
        /\ unit.file_names \in Seq(WrittenEntry)
        /\ HasFile(unit) =>
             unit.file_names[1].directory_index < Len(unit.directories)
    BY <2>3, <2>4, Zenon DEF Named
  <2>6. HasFile(unit)
    BY <1>1
  <2> HIDE DEF unit, decoded
  <2>7. get_file_path(decoded, 0) = Located(unit, unit.file_names[1])
    BY <2>2, <2>5, <2>6, PathIsPlace
  <2> QED
    BY <2>1, <2>7 DEF unit
<1>2. StartupInv /\ DecodesWhatWasWritten => PathsResolve
  BY <1>1 DEF PathsResolve
<1> QED
  BY <1>2, StartupInvariant, PTL
-----------------------------------------------------------------------------
(* Powers of two, and numbers modulo one.                                    *)

(* Powers of two, as far as they are used, are positive.                     *)
LEMMA PowersArePositive == \A k \in 0..(WIDTH + 6) : 2^k \in Nat \ {0}
<1> DEFINE P(k) == 2^k
           T == {k \in 0..(WIDTH + 6) : P(k) \notin Nat \ {0}}
<1>1. P(0) = 1
  OBVIOUS
<1>2. \A k \in 0..(WIDTH + 5) : P(k + 1) = 2 * P(k)
  BY ReaderAssumption
<1> HIDE DEF P
<1>3. WIDTH \in Nat
  BY ReaderAssumption
<1>4. T = {}
  <2> SUFFICES ASSUME T # {} PROVE FALSE
    OBVIOUS
  <2>1. T \in SUBSET Nat
    BY <1>3
  <2>2. PICK m \in T : \A n \in T : m <= n
    <3> HIDE DEF T
    <3> QED
      BY <2>1, LeastNatural
  <2>3. CASE m = 0
    BY <1>1, <2>3
  <2>4. CASE m # 0
    <3>1. m - 1 \in 0..(WIDTH + 5) /\ m - 1 \notin T
      BY <1>3, <2>2, <2>4
    <3>2. P(m - 1) \in Nat \ {0}
      BY <1>3, <3>1
    <3>3. P((m - 1) + 1) = 2 * P(m - 1)
      BY <1>2, <3>1
    <3>4. (m - 1) + 1 = m
      BY <2>1
    <3> QED
      BY <3>2, <3>3, <3>4
  <2> QED
    BY <2>3, <2>4
<1> QED
  BY <1>4 DEF P

(* A longer power of two is a greater one, and these are known.              *)
LEMMA PowersAscend ==
  /\ \A j, k \in 0..(WIDTH + 6) : j < k => 2 * 2^j <= 2^k
  /\ 2^7 = 128 /\ 2^8 = 256
<1> DEFINE P(k) == 2^k
<1>1. P(0) = 1
  OBVIOUS
<1>2. \A k \in 0..(WIDTH + 5) : P(k + 1) = 2 * P(k)
  BY ReaderAssumption
<1>3. \A k \in 0..(WIDTH + 6) : P(k) \in Nat \ {0}
  BY PowersArePositive
<1> HIDE DEF P
<1>4. WIDTH \in Nat /\ WIDTH > 7
  BY ReaderAssumption
<1>5. ASSUME NEW j \in 0..(WIDTH + 6)
      PROVE  \A k \in 0..(WIDTH + 6) : j < k => 2 * P(j) <= P(k)
  <2> DEFINE T == {k \in (j + 1)..(WIDTH + 6) : ~(2 * P(j) <= P(k))}
  <2> SUFFICES ASSUME T # {} PROVE FALSE
    BY <1>4
  <2>1. T \in SUBSET Nat
    BY <1>4
  <2>2. PICK m \in T : \A n \in T : m <= n
    <3> HIDE DEF T
    <3> QED
      BY <2>1, LeastNatural
  <2>3. m - 1 \in 0..(WIDTH + 5) /\ (m - 1) + 1 = m /\ m - 1 >= j
    BY <1>4
  <2>4. P(m) = 2 * P(m - 1) /\ P(m - 1) \in Nat \ {0} /\ P(j) \in Nat
    BY <1>2, <1>3, <1>4, <2>3
  <2>5. CASE m - 1 = j
    BY <2>4, <2>5
  <2>6. CASE m - 1 # j
    <3>1. m - 1 \notin T
      BY <2>1, <2>2
    <3>2. m - 1 \in (j + 1)..(WIDTH + 6)
      BY <1>4, <2>3, <2>6
    <3>3. 2 * P(j) <= P(m - 1)
      BY <3>1, <3>2
    <3> QED
      BY <2>4, <3>3
  <2> QED
    BY <2>5, <2>6
<1>6. P(7) = 128 /\ P(8) = 256
  <2>1. P(1) = 2
    BY <1>1, <1>2, <1>4
  <2>2. P(2) = 4
    BY <1>2, <1>4, <2>1
  <2>3. P(3) = 8
    BY <1>2, <1>4, <2>2
  <2>4. P(4) = 16
    BY <1>2, <1>4, <2>3
  <2>5. P(5) = 32
    BY <1>2, <1>4, <2>4
  <2>6. P(6) = 64
    BY <1>2, <1>4, <2>5
  <2>7. P(7) = 128
    BY <1>2, <1>4, <2>6
  <2> QED
    BY <1>2, <1>4, <2>7
<1> QED
  BY <1>5, <1>6 DEF P

(* What fits an integer of WIDTH bits.                                       *)
Number == 0..(2^WIDTH - 1)

(* Wrapping makes a number that fits, and bytes fit.                         *)
LEMMA WrapFacts ==
  /\ 2^WIDTH \in Nat /\ 2^WIDTH >= 256
  /\ \A n \in Int : Wrap(n) \in Number
  /\ \A n \in Number : Wrap(n) = n
  /\ Byte \subseteq Number /\ 0 \in Number
<1>1. WIDTH \in Nat /\ WIDTH >= 8 /\ WIDTH \in 0..(WIDTH + 6) /\ 8 \in 0..(WIDTH + 6)
  BY ReaderAssumption
<1>2. 2^WIDTH \in Nat /\ 2^8 = 256 /\ (8 < WIDTH => 2 * 2^8 <= 2^WIDTH)
  <2> DEFINE P(k) == 2^k
  <2>1. \A k \in 0..(WIDTH + 6) : P(k) \in Nat \ {0}
    BY PowersArePositive
  <2>2. P(8) = 256 /\ \A j, k \in 0..(WIDTH + 6) : j < k => 2 * P(j) <= P(k)
    BY PowersAscend
  <2> HIDE DEF P
  <2>3. P(WIDTH) \in Nat /\ P(8) = 256 /\ (8 < WIDTH => 2 * P(8) <= P(WIDTH))
    BY <1>1, <2>1, <2>2
  <2> QED
    BY <2>3 DEF P
<1>3. 2^WIDTH >= 256
  <2>1. CASE WIDTH = 8
    BY <1>2, <2>1
  <2>2. CASE WIDTH > 8
    <3>1. 2 * 2^8 <= 2^WIDTH
      BY <1>2, <2>2
    <3> DEFINE p == 2^8
               q == 2^WIDTH
    <3>2. p = 256 /\ 2 * p <= q /\ q \in Nat
      BY <1>2, <3>1
    <3> HIDE DEF p, q
    <3>3. q >= 256
      BY <3>2
    <3> QED
      BY <3>3 DEF q
  <2> QED
    BY <1>1, <2>1, <2>2
<1> DEFINE M == 2^WIDTH
<1>4. M \in Nat /\ M >= 256
  BY <1>2, <1>3
<1> HIDE DEF M
<1>5. /\ \A n \in Int : n % M \in 0..(M - 1)
      /\ \A n \in 0..(M - 1) : n % M = n
      /\ 0..255 \subseteq 0..(M - 1) /\ 0 \in 0..(M - 1)
  BY <1>4
<1> QED
  BY <1>4, <1>5 DEF M, Wrap, Number, Byte

(* What the digits make, from the last to all of them.                       *)
MadeOf(base, digits, last) ==
  /\ last \in [0..Len(digits) -> Number]
  /\ last[0] = 0
  /\ \A n \in 1..Len(digits) :
       last[n] = Wrap(digits[Len(digits) + 1 - n] + base * last[n - 1])

(* FromDigits, defined digit after digit, exists and has its width.          *)
LEMMA DigitsMakeANumber ==
  ASSUME NEW base \in Nat, NEW digits, Len(digits) \in Nat,
         \A i \in 1..Len(digits) : digits[i] \in Nat
  PROVE  /\ FromDigits(base, digits) \in Number
         /\ \E last : MadeOf(base, digits, last) /\ FromDigits(base, digits) = last[Len(digits)]
<1> DEFINE count == Len(digits)
           digit(n) == digits[count + 1 - n]
           Step(f, n) == IF n = 0 THEN 0 ELSE Wrap(digit(n) + base * f[n - 1])
           IsValue(f, m) == f = [n \in 0..m |-> Step(f, n)]
           last == CHOOSE last : last = [n \in 0..count |->
                     IF n = 0 THEN 0 ELSE Wrap(digits[count + 1 - n] + base * last[n - 1])]
<1>1. FromDigits(base, digits) = last[count]
  BY DEF FromDigits
<1>2. count \in Nat /\ \A n \in 1..count : digit(n) \in Nat
  OBVIOUS
<1> HIDE DEF count, digit
<1>3. \E f : IsValue(f, count)
  <2> DEFINE T == {n \in 0..count : ~ \E f : IsValue(f, n)}
  <2> HIDE DEF IsValue
  <2> SUFFICES ASSUME T # {} PROVE FALSE
    BY <1>2
  <2> USE DEF IsValue
  <2>1. T \in SUBSET Nat
    BY <1>2
  <2> HIDE DEF T
  <2>2. PICK m \in T : \A n \in T : m <= n
    BY <2>1, LeastNatural
  <2>3. m \in 0..count /\ ~ \E f : IsValue(f, m)
    BY DEF T
  <2>4. CASE m = 0
    <3> DEFINE f == [n \in 0..0 |-> 0]
    <3>1. f = [n \in 0..0 |-> Step(f, n)]
      OBVIOUS
    <3> QED
      BY <2>3, <2>4, <3>1
  <2>5. CASE m # 0
    <3>1. m - 1 \in 0..count /\ m - 1 \notin T
      BY <1>2, <2>1, <2>2, <2>3, <2>5
    <3>2. PICK f : IsValue(f, m - 1)
      BY <3>1 DEF T
    <3> DEFINE g == [n \in 0..m |-> IF n < m THEN f[n] ELSE Step(f, m)]
    <3>3. \A n \in 0..m : g[n] = Step(g, n)
      <4> TAKE n \in 0..m
      <4>1. CASE n < m
        <5>1. n \in 0..(m - 1) /\ g[n] = f[n]
          BY <2>3, <4>1
        <5>2. f[n] = Step(f, n)
          BY <3>2, <5>1
        <5>3. n # 0 => g[n - 1] = f[n - 1]
          BY <2>3, <4>1
        <5> QED
          BY <5>1, <5>2, <5>3
      <4>2. CASE n = m
        <5>1. g[m] = Step(f, m) /\ g[m - 1] = f[m - 1]
          BY <2>3, <2>5
        <5> QED
          BY <2>5, <4>2, <5>1
      <4> QED
        BY <2>3, <4>1, <4>2
    <3>4. IsValue(g, m)
      BY <3>3
    <3> QED
      BY <2>3, <3>4
  <2> QED
    BY <2>4, <2>5
<1>4. IsValue(last, count)
  BY <1>3 DEF count, digit
<1> HIDE DEF last
<1>5. last[0] = 0 /\ \A n \in 1..count : last[n] = Wrap(digit(n) + base * last[n - 1])
  <2>1. \A n \in 0..count : last[n] = Step(last, n)
    BY <1>4
  <2>2. 0 \in 0..count /\ \A n \in 1..count : n \in 0..count /\ n # 0
    BY <1>2
  <2> QED
    BY <2>1, <2>2
<1>6. \A n \in 0..count : last[n] \in Number
  <2> DEFINE T == {n \in 0..count : last[n] \notin Number}
  <2> SUFFICES ASSUME T # {} PROVE FALSE
    OBVIOUS
  <2>1. T \in SUBSET Nat
    BY <1>2
  <2>2. PICK m \in T : \A n \in T : m <= n
    <3> HIDE DEF T
    <3> QED
      BY <2>1, LeastNatural
  <2>3. m # 0
    BY <1>5, WrapFacts
  <2>4. m - 1 \in 0..count /\ m - 1 \notin T /\ m \in 1..count
    BY <1>2, <2>1, <2>2, <2>3
  <2>5. last[m - 1] \in Int
    BY <2>4, WrapFacts DEF Number
  <2> HIDE DEF T
  <2>6. digit(m) + base * last[m - 1] \in Int
    BY <1>2, <2>4, <2>5
  <2>7. last[m] \in Number
    BY <1>5, <2>4, <2>6, WrapFacts
  <2> QED
    BY <2>2, <2>7 DEF T
<1>7. last \in [0..count -> Number]
  <2>1. DOMAIN last = 0..count /\ last = [n \in 0..count |-> last[n]]
    BY <1>4
  <2> QED
    BY <1>6, <2>1
<1>8. MadeOf(base, digits, last)
  BY <1>5, <1>7 DEF count, digit, MadeOf
<1>9. last[count] \in Number
  BY <1>2, <1>7
<1> QED
  BY <1>1, <1>8, <1>9 DEF count
-----------------------------------------------------------------------------
(* Readers.                                                                  *)

(* What is left of a sequence of bytes when some have been read.             *)
EndOf(r, s) ==
  /\ r \in Seq(Byte) /\ s \in Seq(Byte)
  /\ Len(r) <= Len(s)
  /\ r = advance_reader(s, Len(s) - Len(r))

(* The bytes that are left.                                                  *)
LEMMA Remaining ==
  ASSUME NEW S, NEW r \in Seq(S), NEW n \in 0..Len(r)
  PROVE  /\ advance_reader(r, n) \in Seq(S)
         /\ Len(advance_reader(r, n)) = Len(r) - n
         /\ \A i \in 1..(Len(r) - n) : advance_reader(r, n)[i] = r[n + i]
<1> DEFINE m == n + 1
           l == Len(r)
           s == SubSeq(r, m, l)
<1>1. l \in Nat /\ m \in Int /\ n \in 0..l /\ m = n + 1
  OBVIOUS
<1>2. \A i \in m..l : r[i] \in S
  OBVIOUS
<1> HIDE DEF l, m
<1>3. /\ s \in Seq(S)
      /\ Len(s) = IF m <= l THEN l - m + 1 ELSE 0
      /\ \A i \in 1..(l - m + 1) : s[i] = r[m + i - 1]
  BY <1>1, <1>2, SubSeqProperties
<1> HIDE DEF s
<1>4. Len(s) = l - n
  BY <1>1, <1>3
<1>5. \A i \in 1..(l - n) : s[i] = r[n + i]
  <2> TAKE i \in 1..(l - n)
  <2>1. i \in 1..(l - m + 1) /\ m + i - 1 = n + i
    BY <1>1
  <2> QED
    BY <1>3, <2>1
<1> QED
  BY <1>3, <1>4, <1>5 DEF s, m, l, advance_reader

(* Stepping over bytes that are there leaves the end of the reader.          *)
LEMMA Advances ==
  ASSUME NEW r \in Seq(Byte), NEW n \in 0..Len(r)
  PROVE  EndOf(advance_reader(r, n), r) /\ Len(advance_reader(r, n)) = Len(r) - n
<1> DEFINE s == advance_reader(r, n)
<1>1. Len(r) \in Nat
  OBVIOUS
<1>2. s \in Seq(Byte) /\ Len(s) = Len(r) - n
  BY Remaining
<1>3. s = advance_reader(r, n)
  OBVIOUS
<1> HIDE DEF s
<1>4. Len(r) - Len(s) = n /\ Len(s) <= Len(r)
  BY <1>1, <1>2
<1>5. EndOf(s, r)
  BY <1>2, <1>3, <1>4 DEF EndOf
<1> QED
  BY <1>2, <1>5 DEF s

(* The end of an end is one.                                                 *)
LEMMA EndsCompose ==
  ASSUME NEW q, NEW r, NEW s, EndOf(q, r), EndOf(r, s)
  PROVE  EndOf(q, s)
<1>1. /\ Len(q) \in Nat /\ Len(r) \in Nat /\ Len(s) \in Nat
      /\ Len(q) <= Len(r) /\ Len(r) <= Len(s)
      /\ q \in Seq(Byte) /\ s \in Seq(Byte)
  BY DEF EndOf
<1> DEFINE m == Len(s) - Len(r)
           n == Len(r) - Len(q)
           k == Len(s) - Len(q)
           t == advance_reader(s, k)
<1>2. /\ r = advance_reader(s, m) /\ q = advance_reader(r, n)
      /\ r \in Seq(Byte)
  BY DEF EndOf
<1>3. /\ m \in 0..Len(s) /\ n \in 0..Len(r) /\ k \in 0..Len(s)
      /\ Len(s) - m = Len(r) /\ Len(r) - n = Len(q) /\ Len(s) - k = Len(q)
      /\ k = m + n
  BY <1>1
<1> HIDE DEF m, n, k
<1>4. \A i \in 1..Len(r) : r[i] = s[m + i]
  BY <1>1, <1>2, <1>3, Remaining
<1>5. \A i \in 1..Len(q) : q[i] = r[n + i]
  BY <1>2, <1>3, Remaining
<1>6. t \in Seq(Byte) /\ Len(t) = Len(q) /\ \A i \in 1..Len(q) : t[i] = s[k + i]
  BY <1>1, <1>3, Remaining
<1>7. \A i \in 1..Len(q) : n + i \in 1..Len(r) /\ m + (n + i) = k + i
  BY <1>1, <1>3
<1> HIDE DEF t
<1>8. \A i \in 1..Len(q) : t[i] = q[i]
  BY <1>4, <1>5, <1>6, <1>7
<1>9. t = q
  BY <1>1, <1>6, <1>8, SeqEqual
<1> QED
  BY <1>1, <1>9 DEF EndOf, t, k

(* A read of some bytes stays inside and makes a number of them, of one byte *)
(* that byte.                                                                *)
LEMMA ReadsBytes ==
  ASSUME NEW r \in Seq(Byte), NEW bytes \in Nat, NEW out
  PROVE  /\ EndOf(read_bytes(r, bytes, out).rest, r)
         /\ read_bytes(r, bytes, out).value \in Number \cup {out}
         /\ bytes = 1 => read_bytes(r, bytes, out).value \in Byte \cup {out}
<1>1. CASE bytes > Len(r)
  <2>1. read_bytes(r, bytes, out).rest = r /\ read_bytes(r, bytes, out).value = out
    BY <1>1 DEF read_bytes, ReadResult
  <2>2. advance_reader(r, 0) = r
    BY DEF advance_reader
  <2>3. EndOf(r, r)
    BY <2>2, Advances DEF EndOf
  <2> QED
    BY <2>1, <2>3
<1>2. CASE bytes <= Len(r)
  <2> DEFINE b == SubSeq(r, 1, bytes)
  <2>1. /\ read_bytes(r, bytes, out).rest = advance_reader(r, bytes)
        /\ read_bytes(r, bytes, out).value = FromDigits(256, b)
    BY <1>2 DEF read_bytes, ReadResult, LittleEndian
  <2>2. EndOf(advance_reader(r, bytes), r)
    BY <1>2, Advances
  <2>3. Len(b) = bytes /\ \A i \in 1..bytes : b[i] = r[i] /\ r[i] \in Byte
    BY <1>2
  <2> HIDE DEF b
  <2>4. Len(b) \in Nat /\ \A i \in 1..Len(b) : b[i] \in Nat
    <3>1. \A x \in Byte : x \in Nat
      BY DEF Byte
    <3> QED
      BY <2>3, <3>1
  <2>5. PICK last : MadeOf(256, b, last) /\ FromDigits(256, b) = last[Len(b)]
    BY <2>4, DigitsMakeANumber
  <2>6. FromDigits(256, b) \in Number
    BY <2>4, DigitsMakeANumber
  <2>7. ASSUME bytes = 1
        PROVE  FromDigits(256, b) \in Byte
    <3>1. last[1] = Wrap(b[1] + 256 * last[0])
      BY <2>3, <2>5, <2>7 DEF MadeOf
    <3>2. b[1] + 256 * last[0] = b[1] /\ b[1] \in Byte
      <4>1. 1 \in 1..bytes /\ last[0] = 0
        BY <2>5, <2>7 DEF MadeOf
      <4>2. b[1] \in Byte
        BY <2>3, <4>1
      <4>3. \A x \in Byte : x + 256 * 0 = x
        BY DEF Byte
      <4> QED
        BY <4>1, <4>2, <4>3
    <3>3. Wrap(b[1]) = b[1]
      BY <3>2, WrapFacts
    <3> QED
      BY <2>3, <2>5, <2>7, <3>1, <3>2, <3>3
  <2> QED
    BY <2>1, <2>2, <2>6, <2>7
<1> QED
  BY <1>1, <1>2

(* The loop of the LEB128 readers stays inside and makes a number.           *)
LEMMA LebFacts ==
  ASSUME NEW r \in Seq(Byte)
  PROVE  Leb(r).consumed \in 0..Len(r) /\ Leb(r).value \in Number
<1> DEFINE available == IF Len(r) < MAX_LEB THEN Len(r) ELSE MAX_LEB
           ends == {i \in 1..available : r[i] < 128}
           first == CHOOSE i \in ends : \A j \in ends : i <= j
           consumed == IF ends = {} THEN available ELSE first
           digits == [i \in 1..consumed |-> r[i] % 128]
<1>1. MAX_LEB \in Nat
  BY ReaderAssumption DEF MAX_LEB
<1>2. available \in 0..Len(r)
  BY <1>1
<1>3. ends \in SUBSET Nat /\ \A i \in ends : i \in 1..available
  BY <1>2
<1>4. Leb(r).consumed = consumed /\ Leb(r).value = FromDigits(128, digits)
  BY DEF Leb
<1> HIDE DEF available, ends
<1>5. consumed \in 0..Len(r)
  <2>1. CASE ends = {}
    BY <1>2, <2>1
  <2>2. CASE ends # {}
    <3>1. \E i \in ends : \A j \in ends : i <= j
      BY <1>3, <2>2, LeastNatural
    <3>2. first \in ends
      BY <3>1
    <3>3. consumed = first
      BY <2>2
    <3> HIDE DEF first, consumed
    <3>4. first \in 1..available
      BY <1>3, <3>2
    <3> QED
      BY <1>2, <3>3, <3>4
  <2> QED
    BY <2>1, <2>2
<1> HIDE DEF consumed, first
<1>6. Len(digits) = consumed /\ \A i \in 1..Len(digits) : digits[i] \in Nat
  <2>1. \A i \in 1..consumed : r[i] \in Byte
    BY <1>5
  <2>2. \A b \in Byte : b % 128 \in Nat
    BY DEF Byte
  <2>3. \A i \in 1..consumed : r[i] % 128 \in Nat
    BY <2>1, <2>2
  <2>4. DOMAIN digits = 1..consumed /\ \A i \in 1..consumed : digits[i] = r[i] % 128
    OBVIOUS
  <2>5. consumed \in Nat
    BY <1>5
  <2> HIDE DEF digits
  <2>6. digits \in [1..consumed -> Nat]
    <3>1. digits = [i \in 1..consumed |-> digits[i]]
      BY DEF digits
    <3> QED
      BY <2>3, <2>4, <3>1
  <2>7. Len(digits) = consumed
    BY <2>5, <2>6, LenProperties
  <2> QED
    BY <2>3, <2>4, <2>7
<1> HIDE DEF digits
<1>7. FromDigits(128, digits) \in Number
  <2>1. Len(digits) \in Nat
    BY <1>5, <1>6
  <2> QED
    BY <1>6, <2>1, DigitsMakeANumber
<1> QED
  BY <1>4, <1>5, <1>7

(* So do the readers themselves, the signed one an integer.                  *)
LEMMA ReadsLeb ==
  ASSUME NEW r \in Seq(Byte)
  PROVE  /\ EndOf(read_uleb128(r).rest, r) /\ read_uleb128(r).value \in Number
         /\ EndOf(read_sleb128(r).rest, r) /\ read_sleb128(r).value \in Int
<1>1. Leb(r).consumed \in 0..Len(r) /\ Leb(r).value \in Number
  BY LebFacts
<1>2. EndOf(advance_reader(r, Leb(r).consumed), r)
  BY <1>1, Advances
<1> DEFINE P(k) == 2^k
<1>3. P(WIDTH) \in Int /\ P(WIDTH - 1) \in Int
      /\ \A k \in Nat : 7 * k < WIDTH => P(7 * k) \in Int
  <2>1. \A k \in 0..(WIDTH + 6) : P(k) \in Nat \ {0}
    BY PowersArePositive
  <2>2. WIDTH \in Nat /\ WIDTH > 7
    BY ReaderAssumption
  <2> HIDE DEF P
  <2> QED
    BY <2>1, <2>2
<1>4. Signed(Leb(r).value) \in Int
  BY <1>1, <1>3 DEF Signed, Number
<1>5. Leb(r).consumed * 7 = 7 * Leb(r).consumed
  BY <1>1
<1>6. read_sleb128(r).value \in Int
  <2> DEFINE leb == Leb(r)
             negative == /\ leb.status = "READ_OK"
                         /\ leb.consumed * 7 < WIDTH
                         /\ r[leb.consumed] % 128 >= 64
  <2>1. read_sleb128(r).value = IF negative THEN leb.value - P(7 * leb.consumed)
                                            ELSE Signed(leb.value)
    BY DEF read_sleb128, ReadResult
  <2>2. negative => P(7 * leb.consumed) \in Int
    BY <1>1, <1>3, <1>5
  <2> HIDE DEF P
  <2> QED
    BY <1>1, <1>4, <2>1, <2>2 DEF Number
<1> QED
  BY <1>1, <1>2, <1>6 DEF read_uleb128, read_sleb128, ReadResult

(* A string that is read lies inside, too.                                   *)
LEMMA ReadsString ==
  ASSUME NEW r \in Seq(Byte), NEW out
  PROVE  /\ EndOf(read_cstring(r, out).rest, r)
         /\ read_cstring(r, out).value \in Seq(Byte) \cup {out}
<1> DEFINE zeros == {i \in DOMAIN r : r[i] = 0}
           end == CHOOSE i \in zeros : \A j \in zeros : i <= j
<1>1. CASE zeros = {}
  <2>1. read_cstring(r, out).rest = r /\ read_cstring(r, out).value = out
    BY <1>1 DEF read_cstring, ReadResult
  <2>2. advance_reader(r, 0) = r
    BY DEF advance_reader
  <2>3. EndOf(r, r)
    BY <2>2, Advances DEF EndOf
  <2> QED
    BY <2>1, <2>3
<1>2. CASE zeros # {}
  <2>1. zeros \in SUBSET Nat
    OBVIOUS
  <2>2. \A i \in zeros : i \in 1..Len(r)
    OBVIOUS
  <2>3. /\ read_cstring(r, out).rest = advance_reader(r, end)
        /\ read_cstring(r, out).value = SubSeq(r, 1, end - 1)
    BY <1>2 DEF read_cstring, ReadResult
  <2>4. end \in zeros
    <3> HIDE DEF zeros
    <3>1. \E i \in zeros : \A j \in zeros : i <= j
      BY <1>2, <2>1, LeastNatural
    <3> QED
      BY <3>1
  <2> HIDE DEF end, zeros
  <2>5. end \in 1..Len(r)
    BY <2>2, <2>4
  <2>6. SubSeq(r, 1, end - 1) \in Seq(Byte)
    BY <2>5
  <2>7. EndOf(advance_reader(r, end), r)
    BY <2>5, Advances
  <2> QED
    BY <2>3, <2>6, <2>7
<1> QED
  BY <1>1, <1>2
-----------------------------------------------------------------------------
(* Headers, tables and registers.                                            *)

(* A path is a string of the section, or none is there.                      *)
Paths == Seq(Byte) \cup {Null, Undefined}

(* An entry of either table.                                                 *)
ContentEntry == [path : Paths, directory_index : Number]

(* Such a table.                                                             *)
Entries == Seq(ContentEntry)

(* The header of a line-number program.                                      *)
Header ==
  [is_dwarf64 : BOOLEAN, unit_length : Number, version : Number, address_size : Number,
   segment_selector_size : Number, header_length : Number,
   minimum_instruction_length : Byte, maximum_operations_per_instruction : Byte,
   default_is_stmt : Byte, line_base : -128..127, line_range : Byte, opcode_base : Byte,
   directories : Entries, file_names : Entries]

(* A pair of a format.                                                       *)
Format == [content_type : Number, form_code : Number]

(* What the read of a header has come to: the table it is in, what is left   *)
(* to read there, and the field that is next.                                *)
EntryTable ==
  [name : {"directories", "file_names"}, formats : Seq(Format), left : Number, field : Nat]

(* An unsigned of 32 bits.                                                   *)
UInt32 == 0..(UINT32_MODULUS - 1)

(* The registers of the line-number state machine.                           *)
Registers ==
  [address : Number, op_index : Nat, line : UInt32, discriminator : UInt32,
   file : UInt32, column : UInt32,
   is_stmt : BOOLEAN, basic_block : BOOLEAN, end_sequence : BOOLEAN,
   prologue_end : BOOLEAN, epilogue_begin : BOOLEAN]

(* The sections are bytes, and the reader is at the end of what is read.     *)
SectionsInv ==
  /\ file \in Files
  /\ \A name \in SectionNames : program_data.sections[name].data \in Seq(Byte)
  /\ program_data.load_address \in Nat
  /\ EndOf(reader, Section)
  /\ program_end \in 0..Len(Section)

(* What is read of a header; the field to be read next is one of it.         *)
HeaderInv ==
  /\ header \in Header
  /\ table \in EntryTable
  /\ table.field \in 1..(Len(table.formats) + 1)
  /\ pc = "fields" => table.left \in 1..10

(* Programs run on registers, on behalf of the last unit.                    *)
RegistersInv ==
  /\ state_machine = << >> \/ state_machine \in Registers
  /\ pc = "program" => state_machine \in Registers
  /\ \A i \in DOMAIN comp_units : comp_units[i].header \in Header

(* The places of a startup, and the ways it may end.                         *)
ControlInv ==
  /\ pc \in {"elf", "units", "fields", "opcode_lengths", "format_count", "formats",
             "entries", "program", "done"}
  /\ outcome \in {"ok", "exit", "assert", "sigfpe", "segv"}
  /\ pc = "elf" => program_end = 0

(* All of this together is inductive.                                        *)
TypesInv == SectionsInv /\ HeaderInv /\ RegistersInv /\ ControlInv

(* What is kept of an executable: bytes, and an address.                     *)
LEMMA KeptIsBytes ==
  ASSUME NEW f \in Files
  PROVE  /\ \A name : SectionBuffer(f, name).data \in Seq(Byte)
         /\ LoadAddress(f) \in Nat
<1>1. ASSUME NEW name PROVE SectionBuffer(f, name).data \in Seq(Byte)
  <2>1. CASE Kept(f, name) = {}
    <3>1. SectionBuffer(f, name).data = << >>
      BY <2>1 DEF SectionBuffer
    <3> QED
      BY <3>1
  <2>2. CASE Kept(f, name) # {}
    <3> DEFINE i == CHOOSE i \in Kept(f, name) : TRUE
    <3>1. i \in Kept(f, name)
      BY <2>2
    <3>2. SectionBuffer(f, name).data = f.sections[i].data
      BY <2>2 DEF SectionBuffer
    <3> HIDE DEF i
    <3>3. i \in DOMAIN f.sections
      BY <3>1 DEF Kept
    <3> QED
      BY <3>2, <3>3, FilesAssumption
  <2> QED
    BY <2>1, <2>2
<1>2. LoadAddress(f) \in Nat
  <2>1. CASE FirstLoad(f) = {}
    BY <2>1 DEF LoadAddress
  <2>2. CASE FirstLoad(f) # {}
    <3> DEFINE i == CHOOSE i \in FirstLoad(f) : TRUE
    <3>1. i \in FirstLoad(f)
      BY <2>2
    <3>2. LoadAddress(f) = f.segments[i].vaddr
      BY <2>2 DEF LoadAddress
    <3> HIDE DEF i
    <3>3. i \in DOMAIN f.segments
      BY <3>1 DEF FirstLoad
    <3> QED
      BY <3>2, <3>3, FilesAssumption
  <2> QED
    BY <2>1, <2>2
<1> QED
  BY <1>1, <1>2

(* A value in any form is read inside the reader: a string, or a number.     *)
LEMMA ReadsForm ==
  ASSUME NEW r \in Seq(Byte), NEW form, NEW is_dwarf64
  PROVE  /\ EndOf(Read(r, form, is_dwarf64).rest, r)
         /\ form = DW_FORM_string =>
              Read(r, form, is_dwarf64).value \in Seq(Byte) \cup {Null}
         /\ form # DW_FORM_string => Read(r, form, is_dwarf64).value \in Number
<1> DEFINE result == Read(r, form, is_dwarf64)
<1> USE DEF DW_FORM_string, DW_FORM_udata, DW_FORM_block, DW_FORM_data1, DW_FORM_data2,
            DW_FORM_data4, DW_FORM_data8, DW_FORM_data16
<1>1. CASE form = DW_FORM_string
  <2>1. result = read_cstring(r, Null)
    BY <1>1 DEF Read
  <2> QED
    BY <1>1, <2>1, ReadsString
<1>2. CASE form = DW_FORM_udata
  <2>1. result = read_uleb128(r)
    BY <1>2 DEF Read
  <2> QED
    BY <1>2, <2>1, ReadsLeb
<1>3. CASE form = DW_FORM_block
  <2> DEFINE count == read_uleb128(r)
  <2>1. result = read_bytes(count.rest, count.value, 0)
    BY <1>3 DEF Read
  <2>2. EndOf(count.rest, r) /\ count.value \in Number
    BY ReadsLeb
  <2> HIDE DEF count
  <2>3. count.rest \in Seq(Byte) /\ count.value \in Nat
    BY <2>2, WrapFacts DEF EndOf, Number
  <2>4. EndOf(result.rest, count.rest) /\ result.value \in Number \cup {0}
    BY <2>1, <2>3, ReadsBytes
  <2>5. EndOf(result.rest, r)
    BY <2>2, <2>4, EndsCompose
  <2>6. result.value \in Number /\ form # DW_FORM_string
    BY <1>3, <2>4, WrapFacts
  <2> QED
    BY <2>5, <2>6
<1>4. ASSUME NEW n \in Nat, result = read_bytes(r, n, 0), form # DW_FORM_string
      PROVE  EndOf(result.rest, r) /\ result.value \in Number
  BY <1>4, ReadsBytes, WrapFacts
<1>5. CASE form \notin {DW_FORM_string, DW_FORM_udata, DW_FORM_block}
  <2>1. \E n \in Nat : result = read_bytes(r, n, 0)
    <3>1. \/ result = read_bytes(r, 1, 0) \/ result = read_bytes(r, 2, 0)
          \/ result = read_bytes(r, 4, 0) \/ result = read_bytes(r, 8, 0)
          \/ result = read_bytes(r, 16, 0)
      BY <1>5 DEF Read, OffsetSize
    <3> QED
      BY <3>1
  <2> QED
    BY <1>4, <1>5, <2>1
<1> QED
  BY <1>1, <1>2, <1>3, <1>5

(* A string at an offset is one of the section's, or none.                   *)
LEMMA ReadsStringAt ==
  ASSUME NEW data \in Seq(Byte), NEW offset \in Nat
  PROVE  StringAt(data, offset) \in Seq(Byte) \cup {Undefined}
<1> DEFINE rest == advance_reader(data, offset)
<1>1. rest \in Seq(Byte)
  <2> DEFINE l == Len(data)
             k == offset + 1
  <2>1. l \in Int /\ k \in Int /\ \A i \in k..l : data[i] \in Byte
    OBVIOUS
  <2> HIDE DEF l, k
  <2>2. SubSeq(data, k, l) \in Seq(Byte)
    BY <2>1, SubSeqProperties
  <2> QED
    BY <2>2 DEF l, k, advance_reader
<1> HIDE DEF rest
<1>2. read_cstring(rest, Undefined).value \in Seq(Byte) \cup {Undefined}
  BY <1>1, ReadsString
<1> QED
  BY <1>2 DEF StringAt, rest

(* A field of an entry is read inside the reader, and the entry stays one,   *)
(* whatever its format asks for.                                             *)
LEMMA ReadsField ==
  ASSUME NEW r \in Seq(Byte), NEW entry, NEW format, NEW data \in Seq(Byte), NEW is_dwarf64
  PROVE  LET field == read_lnct(r, entry, format, data, is_dwarf64)
         IN  /\ EndOf(field.rest, r)
             /\ field.outcome \in {"ok", "assert"}
             /\ entry \in ContentEntry => field.entry \in ContentEntry
<1> DEFINE field == read_lnct(r, entry, format, data, is_dwarf64)
           form == format.form_code
           content == format.content_type
           accepted == form \in Accepted(content)
           result == Read(r, form, is_dwarf64)
           rest == IF accepted THEN result.rest ELSE r
           path(old) == IF accepted THEN PathOf(old, form, result, data) ELSE Undefined
           index(old) == IF accepted /\ result.status = "READ_OK" THEN result.value ELSE old
<1> SUFFICES /\ EndOf(field.rest, r)
             /\ field.outcome \in {"ok", "assert"}
             /\ entry \in ContentEntry => field.entry \in ContentEntry
  OBVIOUS
<1>1. /\ EndOf(result.rest, r)
      /\ form = DW_FORM_string => result.value \in Seq(Byte) \cup {Null}
      /\ form # DW_FORM_string => result.value \in Number
  BY ReadsForm
<1>2. EndOf(r, r)
  <2>1. advance_reader(r, 0) = r
    BY DEF advance_reader
  <2> QED
    BY <2>1, Advances DEF EndOf
<1>3. field =
        CASE content \in UserContent -> LnctResult(r, entry, "assert")
          [] content = DW_LNCT_path ->
               LnctResult(rest, [entry EXCEPT !.path = path(@)],
                          IF form = DW_FORM_strp THEN "assert" ELSE "ok")
          [] content = DW_LNCT_directory_index ->
               LnctResult(rest, [entry EXCEPT !.directory_index = index(@)], "ok")
          [] OTHER -> LnctResult(rest, entry, "ok")
  BY DEF read_lnct
<1> HIDE DEF result, form, content, field
<1>4. ASSUME entry \in ContentEntry
      PROVE  path(entry.path) \in Paths
  <2>0. entry.path \in Paths
    BY <1>4 DEF ContentEntry
  <2>1. CASE accepted /\ form = DW_FORM_line_strp /\ result.status = "READ_OK"
    <3>1. form # DW_FORM_string
      BY <2>1 DEF DW_FORM_line_strp, DW_FORM_string
    <3>2. path(entry.path) = StringAt(data, result.value)
      BY <2>1, <3>1 DEF PathOf
    <3>3. result.value \in Nat
      BY <1>1, <3>1, WrapFacts DEF Number
    <3> QED
      BY <3>2, <3>3, ReadsStringAt DEF Paths
  <2>2. CASE ~(accepted /\ form = DW_FORM_line_strp /\ result.status = "READ_OK")
    <3>1. \/ path(entry.path) \in {Undefined, entry.path}
          \/ form = DW_FORM_string /\ path(entry.path) = result.value
      BY <2>2 DEF PathOf
    <3> QED
      BY <1>1, <2>0, <3>1 DEF Paths
  <2> QED
    BY <2>1, <2>2
<1>5. content = DW_LNCT_directory_index /\ accepted => form # DW_FORM_string
  BY DEF Accepted, DW_LNCT_directory_index, DW_LNCT_path, DW_FORM_string,
         DW_FORM_data1, DW_FORM_data2, DW_FORM_udata, UserContent,
         DW_LNCT_timestamp, DW_LNCT_size, DW_LNCT_MD5
<1>6. EndOf(rest, r)
  BY <1>1, <1>2
<1> HIDE DEF path, rest, accepted
<1>7. CASE content \in UserContent
  <2>1. content # DW_LNCT_path /\ content # DW_LNCT_directory_index
    <3>1. DW_LNCT_path \notin UserContent /\ DW_LNCT_directory_index \notin UserContent
      BY DEF DW_LNCT_directory_index, DW_LNCT_path, UserContent
    <3> QED
      BY <1>7, <3>1
  <2>2. field = LnctResult(r, entry, "assert")
    BY <1>3, <1>7, <2>1
  <2> QED
    BY <1>2, <2>2 DEF LnctResult
<1>8. CASE content = DW_LNCT_path
  <2>1. content \notin UserContent /\ content # DW_LNCT_directory_index
    BY <1>8 DEF DW_LNCT_directory_index, DW_LNCT_path, UserContent
  <2>2. /\ field.rest = rest /\ field.outcome \in {"ok", "assert"}
        /\ field.entry = [entry EXCEPT !.path = path(@)]
    BY <1>3, <1>8, <2>1 DEF LnctResult
  <2> QED
    BY <1>4, <1>6, <2>2 DEF ContentEntry
<1>9. CASE content = DW_LNCT_directory_index
  <2>1. content \notin UserContent /\ content # DW_LNCT_path
    BY <1>9 DEF DW_LNCT_directory_index, DW_LNCT_path, UserContent
  <2>2. /\ field.rest = rest /\ field.outcome = "ok"
        /\ field.entry = [entry EXCEPT !.directory_index = index(@)]
    BY <1>3, <1>9, <2>1 DEF LnctResult
  <2>3. \A old \in Number : index(old) \in Number
    BY <1>1, <1>5, <1>9
  <2> HIDE DEF index
  <2> QED
    BY <1>6, <2>2, <2>3 DEF ContentEntry
<1>10. CASE content \notin UserContent \cup {DW_LNCT_path, DW_LNCT_directory_index}
  BY <1>3, <1>6, <1>10 DEF LnctResult
<1> QED
  BY <1>7, <1>8, <1>9, <1>10

(* What a register of 32 bits holds: half the width, at least a 1.           *)
LEMMA HalfWidth ==
  /\ UINT32_MODULUS \in Nat /\ UINT32_MODULUS > 1
  /\ \A n \in Int : n % UINT32_MODULUS \in UInt32
<1>1. WIDTH \in Nat /\ WIDTH > 7
  BY ReaderAssumption
<1> DEFINE P(k) == 2^k
           half == WIDTH \div 2
<1>2. /\ P(0) = 1
      /\ \A k \in 0..(WIDTH + 6) : P(k) \in Nat \ {0}
      /\ \A j, k \in 0..(WIDTH + 6) : j < k => 2 * P(j) <= P(k)
  BY PowersArePositive, PowersAscend
<1>3. half \in 0..(WIDTH + 6) /\ 0 \in 0..(WIDTH + 6) /\ 0 < half
  BY <1>1
<1>4. UINT32_MODULUS = P(half)
  BY DEF UINT32_MODULUS
<1> HIDE DEF P, half
<1>5. P(half) \in Nat /\ P(half) > 1
  BY <1>2, <1>3
<1> DEFINE M == UINT32_MODULUS
<1>6. M \in Nat /\ M > 1
  BY <1>4, <1>5
<1> HIDE DEF M
<1>7. \A n \in Int : n % M \in 0..(M - 1)
  BY <1>6
<1> QED
  BY <1>6, <1>7 DEF M, UInt32

(* The parameters a header gives the machine.                                *)
LEMMA ParametersAreNumbers ==
  ASSUME NEW h \in Header
  PROVE  /\ h.minimum_instruction_length \in Nat
         /\ h.maximum_operations_per_instruction \in Nat
         /\ h.line_base \in Int /\ h.line_range \in Nat /\ h.opcode_base \in 0..255
         /\ h.is_dwarf64 \in BOOLEAN
         /\ h.directories \in Entries /\ h.file_names \in Entries
BY DEF Header, Byte

(* Sequences begin with registers.                                           *)
LEMMA ResetMakesRegisters ==
  ASSUME NEW h
  PROVE  reset_line_num_state_machine(h) \in Registers
<1> DEFINE reset == Machine(h)!reset_line_num_state_machine
           r == reset_line_num_state_machine(h)
           Names == {"address", "op_index", "line", "discriminator", "is_stmt", "basic_block",
                     "end_sequence", "prologue_end", "epilogue_begin"}
<1>1. reset = [address |-> 0, op_index |-> 0, line |-> 1, discriminator |-> 0,
               is_stmt |-> h.default_is_stmt # 0, basic_block |-> FALSE,
               end_sequence |-> FALSE, prologue_end |-> FALSE, epilogue_begin |-> FALSE]
  BY DEF Machine!reset_line_num_state_machine
<1>2. DOMAIN reset = Names
  BY <1>1
<1>3. r = [register \in DOMAIN reset \cup {"file", "column"} |->
             CASE register = "file" -> 1
               [] register = "column" -> 0
               [] OTHER -> reset[register]]
  BY DEF reset_line_num_state_machine
<1> HIDE DEF r, reset
<1>4. /\ DOMAIN r = Names \cup {"file", "column"}
      /\ r = [register \in Names \cup {"file", "column"} |-> r[register]]
  BY <1>2, <1>3
<1>6. \A register \in Names : r[register] = reset[register]
  BY <1>2, <1>3
<1>7. r["file"] = 1 /\ r["column"] = 0
  BY <1>3
<1>8. /\ r.address = 0 /\ r.op_index = 0 /\ r.line = 1 /\ r.discriminator = 0
      /\ r.is_stmt \in BOOLEAN /\ r.basic_block \in BOOLEAN /\ r.end_sequence \in BOOLEAN
      /\ r.prologue_end \in BOOLEAN /\ r.epilogue_begin \in BOOLEAN
  BY <1>1, <1>6
<1>5. 0 \in UInt32 /\ 1 \in UInt32 /\ 0 \in Number
  BY HalfWidth, WrapFacts DEF UInt32
<1> HIDE DEF UInt32, Number
<1>9. r \in Registers
  BY <1>4, <1>5, <1>7, <1>8 DEF Registers
<1> QED
  BY <1>9 DEF r

(* Advancing, by any count, keeps registers, if the header lets divide.      *)
LEMMA AdvancesRegisters ==
  ASSUME NEW h \in Header, h = header, NEW r \in Registers, NEW op_advance \in Nat, Divisible
  PROVE  state_machine_advance_pc(r, op_advance) \in Registers
<1> DEFINE ops == r.op_index + op_advance
           most == h.maximum_operations_per_instruction
           least == h.minimum_instruction_length
           address == r.address + least * (ops \div most)
           advanced == Machine(header)!state_machine_advance_pc(r, op_advance)
<1>1. r.op_index \in Nat /\ r.address \in Number
  BY DEF Registers
<1>2. most \in Nat /\ most # 0 /\ least \in Nat
  BY ParametersAreNumbers DEF Divisible
<1>3. ops \in Nat
  BY <1>1
<1> HIDE DEF ops, most, least
<1>4. ops % most \in Nat /\ ops \div most \in Int
  BY <1>2, <1>3
<1>5. address \in Int
  BY <1>1, <1>2, <1>4, WrapFacts DEF Number
<1>6. Wrap(address) \in Number
  BY <1>5, WrapFacts
<1>7. advanced = [r EXCEPT !.address = @ + least * (ops \div most), !.op_index = ops % most]
  BY DEF Machine!state_machine_advance_pc, ops, most, least
<1>8. advanced.address = address
  BY <1>7 DEF Registers
<1>9. state_machine_advance_pc(r, op_advance) = [advanced EXCEPT !.address = Wrap(@)]
  BY DEF state_machine_advance_pc
<1> HIDE DEF advanced
<1>10. state_machine_advance_pc(r, op_advance)
         = [r EXCEPT !.address = Wrap(address), !.op_index = ops % most]
  BY <1>7, <1>8, <1>9 DEF Registers
<1> HIDE DEF address
<1> QED
  BY <1>4, <1>6, <1>10 DEF Registers

(* So do the line's increments, and forgetting the marks of a row.           *)
LEMMA LinesKeepRegisters ==
  ASSUME NEW h, NEW r \in Registers, NEW increment \in Int
  PROVE  /\ Machine(h)!advance_line(r, increment) \in Registers
         /\ Machine(h)!ForgetMarks(r) \in Registers
<1>1. r.line \in Int
  BY HalfWidth DEF Registers, UInt32
<1>2. (r.line + increment) % UINT32_MODULUS \in UInt32
  BY <1>1, HalfWidth
<1>3. Machine(h)!advance_line(r, increment)
        = [r EXCEPT !.line = (@ + increment) % UINT32_MODULUS]
  BY DEF Machine!advance_line
<1>4. Machine(h)!advance_line(r, increment)
        = [r EXCEPT !.line = (r.line + increment) % UINT32_MODULUS]
  BY <1>3
<1>5. Machine(h)!ForgetMarks(r)
        = [r EXCEPT !.discriminator = 0, !.basic_block = FALSE,
                    !.prologue_end = FALSE, !.epilogue_begin = FALSE]
  BY DEF Machine!ForgetMarks
<1>6. 0 \in UInt32
  BY HalfWidth DEF UInt32
<1> HIDE DEF UInt32
<1>7. Machine(h)!advance_line(r, increment) \in Registers
  BY <1>2, <1>4 DEF Registers
<1>8. Machine(h)!ForgetMarks(r) \in Registers
  BY <1>5, <1>6 DEF Registers
<1> QED
  BY <1>7, <1>8

(* A special opcode makes a row of registers.                                *)
LEMMA SpecialMakesRegisters ==
  ASSUME header \in Header, NEW r \in Registers, NEW opcode \in Byte,
         opcode >= header.opcode_base, Divisible, header.line_range # 0
  PROVE  [Machine(header)!SpecialRow(r, opcode) EXCEPT !.address = Wrap(@)] \in Registers
<1> DEFINE adjusted == opcode - header.opcode_base
           range == header.line_range
           base == header.line_base
           lined == Machine(header)!advance_line(r, base + (adjusted % range))
           count == adjusted \div range
<1>1. /\ header.opcode_base \in 0..255 /\ range \in Nat /\ range # 0 /\ base \in Int
  BY ParametersAreNumbers
<1>2. adjusted \in Nat
  BY <1>1 DEF Byte
<1> HIDE DEF adjusted, range, base
<1>3. count \in Nat /\ base + (adjusted % range) \in Int
  <2>1. adjusted % range \in Int /\ count \in Int
    BY <1>1, <1>2
  <2>2. count >= 0
    BY <1>1, <1>2
  <2> QED
    BY <1>1, <2>1, <2>2
<1>4. lined \in Registers
  BY <1>3, LinesKeepRegisters
<1>5. Machine(header)!SpecialRow(r, opcode)
        = Machine(header)!state_machine_advance_pc(lined, count)
  BY DEF Machine!SpecialRow, adjusted, range, base
<1> HIDE DEF lined, count
<1>6. state_machine_advance_pc(lined, count) \in Registers
  BY <1>3, <1>4, AdvancesRegisters
<1> QED
  BY <1>5, <1>6 DEF state_machine_advance_pc
-----------------------------------------------------------------------------
(* Reading a header.                                                         *)

(* What every step of a header leaves alone, and what it must show.          *)
LEMMA HeaderStepKeepsTypes ==
  ASSUME TypesInv, UNCHANGED <<file, program_data, program_vars, comp_units>>,
         EndOf(reader', reader), HeaderInv', ControlInv', pc' # "program"
  PROVE  TypesInv'
<1>1. EndOf(reader', Section)
  BY EndsCompose DEF TypesInv, SectionsInv
<1>2. Section' = Section
  BY DEF Section
<1>3. SectionsInv'
  <2>1. program_end' = program_end /\ program_data' = program_data /\ file' = file
    BY DEF program_vars
  <2>2. /\ file \in Files /\ program_data.load_address \in Nat
        /\ \A name \in SectionNames : program_data.sections[name].data \in Seq(Byte)
        /\ program_end \in 0..Len(Section)
    BY DEF TypesInv, SectionsInv
  <2>3. program_end' \in 0..Len(Section)'
    BY <1>2, <2>1, <2>2
  <2>4. EndOf(reader, Section)'
    BY <1>1, <1>2
  <2>5. \A name \in SectionNames : program_data'.sections[name].data \in Seq(Byte)
    BY <2>1, <2>2
  <2> QED
    BY <2>1, <2>2, <2>3, <2>4, <2>5 DEF SectionsInv
<1>4. RegistersInv'
  BY DEF TypesInv, RegistersInv, program_vars
<1> QED
  BY <1>3, <1>4 DEF TypesInv

(* What is known where a header is read.                                     *)
LEMMA InHeaderFacts ==
  ASSUME TypesInv, NEW label, InHeader(label)
  PROVE  /\ outcome = "ok" /\ pc = label
         /\ UNCHANGED <<file, program_data, program_vars, comp_units>>
         /\ reader \in Seq(Byte) /\ EndOf(reader, reader)
         /\ header \in Header /\ table \in EntryTable
         /\ table.field \in 1..(Len(table.formats) + 1)
<1>1. reader \in Seq(Byte)
  BY DEF TypesInv, SectionsInv, EndOf
<1>2. EndOf(reader, reader)
  <2>1. advance_reader(reader, 0) = reader
    BY <1>1 DEF advance_reader
  <2> QED
    BY <1>1, <2>1, Advances DEF EndOf
<1> QED
  BY <1>1, <1>2 DEF TypesInv, HeaderInv, InHeader, At

(* Tables that are begun.                                                    *)
LEMMA EmptyTables ==
  ASSUME NEW name \in {"directories", "file_names"}, NEW left \in 0..10
  PROVE  /\ [EmptyTable(name) EXCEPT !.left = left] \in EntryTable
         /\ EmptyTable(name) \in EntryTable
         /\ EmptyTable(name).field \in 1..(Len(EmptyTable(name).formats) + 1)
         /\ [EmptyTable(name) EXCEPT !.left = left].field
              \in 1..(Len([EmptyTable(name) EXCEPT !.left = left].formats) + 1)
<1>1. left \in Number /\ 0 \in Number
  BY WrapFacts DEF Number
<1>2. << >> \in Seq(Format) /\ Len(<< >>) = 0
  OBVIOUS
<1>3. /\ EmptyTable(name) = [name |-> name, formats |-> << >>, left |-> 0, field |-> 1]
      /\ [EmptyTable(name) EXCEPT !.left = left]
           = [name |-> name, formats |-> << >>, left |-> left, field |-> 1]
  BY DEF EmptyTable
<1> HIDE DEF Number
<1>4. /\ [name |-> name, formats |-> << >>, left |-> 0, field |-> 1] \in EntryTable
      /\ [name |-> name, formats |-> << >>, left |-> left, field |-> 1] \in EntryTable
  BY <1>1, <1>2 DEF EntryTable
<1> QED
  BY <1>2, <1>3, <1>4

(* The length, in either format, or one that is reserved.                    *)
LEMMA ReadUnitLengthKeepsTypes ==
  ASSUME TypesInv, ReadUnitLength
  PROVE  TypesInv'
<1> DEFINE start == read_bytes(reader, 4, 0)
           length == IF IsDwarf64(reader) THEN read_bytes(start.rest, 8, 0) ELSE start
<1>1. /\ InHeader("units")
      /\ table' = [EmptyTable("directories") EXCEPT !.left = Len(Fields(FALSE))]
      /\ \/ UNCHANGED <<reader, header, pc>> /\ outcome' = "assert"
         \/ /\ reader' = length.rest
            /\ header' = [NoHeader EXCEPT !.is_dwarf64 = IsDwarf64(reader),
                                          !.unit_length = length.value]
            /\ pc' = "fields" /\ outcome' = "ok"
  BY DEF ReadUnitLength
<1>2. /\ outcome = "ok" /\ pc = "units"
      /\ UNCHANGED <<file, program_data, program_vars, comp_units>>
      /\ reader \in Seq(Byte) /\ EndOf(reader, reader)
      /\ header \in Header /\ table \in EntryTable
  BY <1>1, InHeaderFacts
<1>3. Len(Fields(FALSE)) = 10
  BY DEF Fields
<1>4. /\ table' \in EntryTable /\ table'.left = 10
      /\ table'.field \in 1..(Len(table'.formats) + 1)
  <2>1. table' = [EmptyTable("directories") EXCEPT !.left = 10]
    BY <1>1, <1>3
  <2>2. [EmptyTable("directories") EXCEPT !.left = 10].left = 10
    BY DEF EmptyTable
  <2> QED
    BY <2>1, <2>2, EmptyTables
<1>5. EndOf(start.rest, reader) /\ start.value \in Number
  BY <1>2, ReadsBytes, WrapFacts
<1>6. EndOf(length.rest, reader) /\ length.value \in Number
  <2> HIDE DEF start
  <2>1. CASE IsDwarf64(reader)
    <3>1. start.rest \in Seq(Byte) /\ length = read_bytes(start.rest, 8, 0)
      BY <1>5, <2>1 DEF EndOf
    <3> HIDE DEF length
    <3>2. EndOf(length.rest, start.rest) /\ length.value \in Number
      BY <3>1, ReadsBytes, WrapFacts
    <3> QED
      BY <1>5, <3>2, EndsCompose
  <2>2. CASE ~IsDwarf64(reader)
    BY <1>5, <2>2
  <2> QED
    BY <2>1, <2>2
<1> HIDE DEF length, start
<1>7. CASE UNCHANGED <<reader, header, pc>> /\ outcome' = "assert"
  <2>1. HeaderInv' /\ ControlInv'
    BY <1>2, <1>4, <1>7 DEF TypesInv, HeaderInv, ControlInv
  <2> QED
    BY <1>2, <1>7, <2>1, HeaderStepKeepsTypes
<1>8. CASE /\ reader' = length.rest
           /\ header' = [NoHeader EXCEPT !.is_dwarf64 = IsDwarf64(reader),
                                         !.unit_length = length.value]
           /\ pc' = "fields" /\ outcome' = "ok"
  <2>1. header' \in Header
    <3>1. IsDwarf64(reader) \in BOOLEAN
      BY <1>2 DEF IsDwarf64, Above
    <3>2. 0 \in Number /\ 0 \in Byte /\ 0 \in -128..127 /\ << >> \in Entries
      BY WrapFacts DEF Byte, Entries
    <3> HIDE DEF Number, Byte, Entries
    <3>3. header' = [is_dwarf64 |-> IsDwarf64(reader), unit_length |-> length.value,
                     version |-> 0, address_size |-> 0,
                     segment_selector_size |-> 0, header_length |-> 0,
                     minimum_instruction_length |-> 0,
                     maximum_operations_per_instruction |-> 0, default_is_stmt |-> 0,
                     line_base |-> 0, line_range |-> 0, opcode_base |-> 0,
                     directories |-> << >>, file_names |-> << >>]
      BY <1>8 DEF NoHeader
    <3> QED
      BY <1>6, <3>1, <3>2, <3>3 DEF Header
  <2>2. HeaderInv' /\ ControlInv'
    BY <1>4, <1>8, <2>1 DEF HeaderInv, ControlInv
  <2> QED
    BY <1>2, <1>6, <1>8, <2>2, HeaderStepKeepsTypes
<1> QED
  BY <1>1, <1>7, <1>8

(* The fields by the bytes of each, and what they hold.                      *)
LEMMA FieldsFitTheHeader ==
  ASSUME NEW is_dwarf64, NEW i \in 1..10
  PROVE  LET field == Fields(is_dwarf64)[i]
         IN  /\ field[2] \in Nat
             /\ \/ field[1] \in {"version", "address_size", "segment_selector_size",
                                 "header_length"}
                \/ /\ field[1] \in {"minimum_instruction_length",
                                    "maximum_operations_per_instruction",
                                    "default_is_stmt", "line_base", "line_range",
                                    "opcode_base"}
                   /\ field[2] = 1
<1>1. OffsetSize(is_dwarf64) \in Nat
  BY DEF OffsetSize
<1> HIDE DEF OffsetSize
<1>2. i = 1 \/ i = 2 \/ i = 3 \/ i = 4 \/ i = 5 \/ i = 6 \/ i = 7 \/ i = 8 \/ i = 9 \/ i = 10
  OBVIOUS
<1> QED
  BY <1>1, <1>2 DEF Fields

(* A field of the header is set to what fits it.                             *)
LEMMA HeaderTakesField ==
  ASSUME NEW h \in Header, NEW name, NEW value,
         \/ /\ name \in {"version", "address_size", "segment_selector_size", "header_length"}
            /\ value \in Number
         \/ /\ name \in {"minimum_instruction_length", "maximum_operations_per_instruction",
                         "default_is_stmt", "line_range", "opcode_base"}
            /\ value \in Byte
         \/ name = "line_base" /\ value \in -128..127
  PROVE  [h EXCEPT ![name] = value] \in Header
<1>1. CASE name = "version" /\ value \in Number
  BY <1>1 DEF Header
<1>2. CASE name = "address_size" /\ value \in Number
  BY <1>2 DEF Header
<1>3. CASE name = "segment_selector_size" /\ value \in Number
  BY <1>3 DEF Header
<1>4. CASE name = "header_length" /\ value \in Number
  BY <1>4 DEF Header
<1>5. CASE name = "minimum_instruction_length" /\ value \in Byte
  BY <1>5 DEF Header
<1>6. CASE name = "maximum_operations_per_instruction" /\ value \in Byte
  BY <1>6 DEF Header
<1>7. CASE name = "default_is_stmt" /\ value \in Byte
  BY <1>7 DEF Header
<1>8. CASE name = "line_range" /\ value \in Byte
  BY <1>8 DEF Header
<1>9. CASE name = "opcode_base" /\ value \in Byte
  BY <1>9 DEF Header
<1>10. CASE name = "line_base" /\ value \in -128..127
  BY <1>10 DEF Header
<1> QED
  BY <1>1, <1>2, <1>3, <1>4, <1>5, <1>6, <1>7, <1>8, <1>9, <1>10

(* A field is read into the header.                                          *)
LEMMA ReadHeaderFieldKeepsTypes ==
  ASSUME TypesInv, ReadHeaderField
  PROVE  TypesInv'
<1> DEFINE fields == Fields(header.is_dwarf64)
           i == Len(fields) + 1 - table.left
           name == fields[i][1]
           result == read_bytes(reader, fields[i][2], 0)
           value == IF name = "line_base" THEN SignedByte(result.value) ELSE result.value
<1>1. /\ InHeader("fields")
      /\ reader' = result.rest
      /\ header' = [header EXCEPT ![name] = value]
      /\ table' = [table EXCEPT !.left = @ - 1]
      /\ pc' = IF table.left = 1 THEN "opcode_lengths" ELSE "fields"
      /\ UNCHANGED outcome
  BY DEF ReadHeaderField
<1>2. /\ outcome = "ok" /\ pc = "fields"
      /\ UNCHANGED <<file, program_data, program_vars, comp_units>>
      /\ reader \in Seq(Byte)
      /\ header \in Header /\ table \in EntryTable
      /\ table.field \in 1..(Len(table.formats) + 1)
  BY <1>1, InHeaderFacts
<1>3. table.left \in 1..10
  BY <1>2 DEF TypesInv, HeaderInv
<1>4. Len(fields) = 10
  BY DEF Fields
<1>5. i \in 1..10
  BY <1>3, <1>4
<1> HIDE DEF i
<1>6. /\ fields[i][2] \in Nat
      /\ \/ name \in {"version", "address_size", "segment_selector_size", "header_length"}
         \/ /\ name \in {"minimum_instruction_length", "maximum_operations_per_instruction",
                         "default_is_stmt", "line_base", "line_range", "opcode_base"}
            /\ fields[i][2] = 1
  BY <1>5, FieldsFitTheHeader
<1> HIDE DEF fields
<1>7. /\ EndOf(result.rest, reader) /\ result.value \in Number
      /\ fields[i][2] = 1 => result.value \in Byte
  <2> DEFINE bytes == fields[i][2]
  <2>1. bytes \in Nat /\ result = read_bytes(reader, bytes, 0)
    BY <1>6
  <2> HIDE DEF bytes, result
  <2>2. EndOf(result.rest, reader)
    BY <1>2, <2>1, ReadsBytes
  <2>3. result.value \in Number \cup {0}
    BY <1>2, <2>1, ReadsBytes
  <2>4. bytes = 1 => result.value \in Byte \cup {0}
    BY <1>2, <2>1, ReadsBytes
  <2>5. 0 \in Number /\ 0 \in Byte
    BY WrapFacts DEF Byte
  <2> QED
    BY <2>2, <2>3, <2>4, <2>5 DEF bytes
<1> HIDE DEF result
<1>8. header' \in Header
  <2>1. SignedByte(result.value) \in -128..127 \/ result.value \notin Byte
    BY DEF SignedByte, Byte
  <2>2. \/ /\ name \in {"version", "address_size", "segment_selector_size", "header_length"}
           /\ value \in Number
        \/ /\ name \in {"minimum_instruction_length", "maximum_operations_per_instruction",
                        "default_is_stmt", "line_range", "opcode_base"}
           /\ value \in Byte
        \/ name = "line_base" /\ value \in -128..127
    BY <1>6, <1>7, <2>1
  <2> HIDE DEF name, value
  <2> QED
    BY <1>1, <1>2, <2>2, HeaderTakesField
<1>9. HeaderInv' /\ ControlInv'
  <2>1. table.left - 1 \in Number
    <3> DEFINE M == 2^WIDTH
    <3>1. table.left \in 0..(M - 1) /\ M \in Nat
      BY <1>2, WrapFacts DEF EntryTable, Number
    <3> HIDE DEF M
    <3>2. table.left - 1 \in 0..(M - 1)
      BY <1>3, <3>1
    <3> QED
      BY <3>2 DEF M, Number
  <2>2. table' \in EntryTable /\ table'.field = table.field /\ table'.formats = table.formats
        /\ table'.left = table.left - 1
    BY <1>1, <1>2, <2>1 DEF EntryTable
  <2>3. pc' = "fields" => table'.left \in 1..10
    BY <1>1, <1>3, <2>2
  <2> QED
    BY <1>1, <1>2, <1>8, <2>2, <2>3 DEF HeaderInv, ControlInv
<1>10. pc' # "program"
  BY <1>1
<1> QED
  BY <1>1, <1>2, <1>7, <1>9, <1>10, HeaderStepKeepsTypes

(* The lengths of opcodes are stepped over.                                  *)
LEMMA ReadOpcodeLengthsKeepsTypes ==
  ASSUME TypesInv, ReadOpcodeLengths
  PROVE  TypesInv'
<1> DEFINE bytes == Wrap(header.opcode_base - 1)
<1>1. /\ InHeader("opcode_lengths")
      /\ reader' = read_bytes(reader, bytes, 0).rest
      /\ table' = EmptyTable("directories") /\ pc' = "format_count"
      /\ UNCHANGED <<header, outcome>>
  BY DEF ReadOpcodeLengths
<1>2. /\ outcome = "ok"
      /\ UNCHANGED <<file, program_data, program_vars, comp_units>>
      /\ reader \in Seq(Byte) /\ header \in Header
  BY <1>1, InHeaderFacts
<1>3. bytes \in Nat
  <2>1. header.opcode_base - 1 \in Int
    <3>1. header.opcode_base \in 0..255
      BY <1>2, ParametersAreNumbers
    <3> QED
      BY <3>1
  <2>2. bytes \in Number
    BY <2>1, WrapFacts
  <2> HIDE DEF bytes
  <2> QED
    BY <2>2, WrapFacts DEF Number
<1> HIDE DEF bytes
<1>4. EndOf(reader', reader)
  BY <1>1, <1>2, <1>3, ReadsBytes
<1>5. table' \in EntryTable /\ table'.field \in 1..(Len(table'.formats) + 1)
  BY <1>1, EmptyTables
<1>6. HeaderInv' /\ ControlInv'
  BY <1>1, <1>2, <1>5 DEF HeaderInv, ControlInv
<1> QED
  BY <1>1, <1>2, <1>4, <1>6, HeaderStepKeepsTypes

(* How many formats.                                                         *)
LEMMA ReadFormatCountKeepsTypes ==
  ASSUME TypesInv, ReadFormatCount
  PROVE  TypesInv'
<1> DEFINE count == read_bytes(reader, 1, 0)
<1>1. /\ InHeader("format_count")
      /\ reader' = count.rest
      /\ table' = [table EXCEPT !.left = count.value] /\ pc' = "formats"
      /\ UNCHANGED <<header, outcome>>
  BY DEF ReadFormatCount
<1>2. /\ outcome = "ok"
      /\ UNCHANGED <<file, program_data, program_vars, comp_units>>
      /\ reader \in Seq(Byte) /\ header \in Header /\ table \in EntryTable
      /\ table.field \in 1..(Len(table.formats) + 1)
  BY <1>1, InHeaderFacts
<1>3. EndOf(count.rest, reader) /\ count.value \in Number
  BY <1>2, ReadsBytes, WrapFacts
<1> HIDE DEF count
<1>4. /\ table' \in EntryTable
      /\ table'.field = table.field /\ table'.formats = table.formats
  BY <1>1, <1>2, <1>3 DEF EntryTable
<1>5. HeaderInv' /\ ControlInv'
  BY <1>1, <1>2, <1>4 DEF HeaderInv, ControlInv
<1> QED
  BY <1>1, <1>2, <1>3, <1>5, HeaderStepKeepsTypes

(* A format is two numbers.                                                  *)
LEMMA ReadFormatKeepsTypes ==
  ASSUME TypesInv, ReadFormat
  PROVE  TypesInv'
<1> DEFINE content == read_uleb128(reader)
           form == read_uleb128(content.rest)
           format == [content_type |-> content.value, form_code |-> form.value]
<1>1. /\ InHeader("formats") /\ table.left > 0
      /\ reader' = form.rest
      /\ table' = [table EXCEPT !.left = @ - 1, !.formats = Append(@, format)]
      /\ UNCHANGED <<header, pc, outcome>>
  BY DEF ReadFormat
<1>2. /\ outcome = "ok" /\ pc = "formats"
      /\ UNCHANGED <<file, program_data, program_vars, comp_units>>
      /\ reader \in Seq(Byte) /\ header \in Header /\ table \in EntryTable
      /\ table.field \in 1..(Len(table.formats) + 1)
  BY <1>1, InHeaderFacts
<1>3. EndOf(content.rest, reader) /\ content.value \in Number
  BY <1>2, ReadsLeb
<1> HIDE DEF content
<1>4. content.rest \in Seq(Byte)
  BY <1>3 DEF EndOf
<1>5. EndOf(form.rest, content.rest) /\ form.value \in Number
  BY <1>4, ReadsLeb
<1> HIDE DEF form
<1>6. EndOf(reader', reader)
  BY <1>1, <1>3, <1>5, EndsCompose
<1>7. format \in Format
  BY <1>3, <1>5 DEF Format
<1> HIDE DEF format
<1>8. table.left - 1 \in Number
  <2> DEFINE M == 2^WIDTH
  <2>1. table.left \in 0..(M - 1) /\ M \in Nat
    BY <1>2, WrapFacts DEF EntryTable, Number
  <2> HIDE DEF M
  <2>2. table.left - 1 \in 0..(M - 1)
    BY <1>1, <2>1
  <2> QED
    BY <2>2 DEF M, Number
<1>9. /\ table.formats \in Seq(Format)
      /\ Append(table.formats, format) \in Seq(Format)
      /\ Len(Append(table.formats, format)) = Len(table.formats) + 1
  BY <1>2, <1>7 DEF EntryTable
<1>10. /\ table' \in EntryTable
       /\ table'.field = table.field /\ Len(table'.formats) = Len(table.formats) + 1
  BY <1>1, <1>2, <1>8, <1>9 DEF EntryTable
<1>11. table'.field \in 1..(Len(table'.formats) + 1)
  BY <1>2, <1>9, <1>10
<1>12. HeaderInv' /\ ControlInv'
  BY <1>1, <1>2, <1>10, <1>11 DEF HeaderInv, ControlInv
<1> QED
  BY <1>1, <1>2, <1>6, <1>12, HeaderStepKeepsTypes

(* How many entries; none is begun.                                          *)
LEMMA ReadEntryCountKeepsTypes ==
  ASSUME TypesInv, ReadEntryCount
  PROVE  TypesInv'
<1> DEFINE count == read_uleb128(reader)
<1>1. /\ InHeader("formats")
      /\ reader' = count.rest
      /\ table' = [table EXCEPT !.left = count.value, !.field = Len(table.formats) + 1]
      /\ pc' = "entries"
      /\ UNCHANGED <<header, outcome>>
  BY DEF ReadEntryCount
<1>2. /\ outcome = "ok"
      /\ UNCHANGED <<file, program_data, program_vars, comp_units>>
      /\ reader \in Seq(Byte) /\ header \in Header /\ table \in EntryTable
  BY <1>1, InHeaderFacts
<1>3. EndOf(count.rest, reader) /\ count.value \in Number
  BY <1>2, ReadsLeb
<1> HIDE DEF count
<1>4. Len(table.formats) + 1 \in Nat /\ Len(table.formats) + 1 \in 1..(Len(table.formats) + 1)
  BY <1>2 DEF EntryTable
<1>5. /\ table' \in EntryTable
      /\ table'.field = Len(table.formats) + 1 /\ table'.formats = table.formats
  BY <1>1, <1>2, <1>3, <1>4 DEF EntryTable
<1>6. HeaderInv' /\ ControlInv'
  BY <1>1, <1>2, <1>4, <1>5 DEF HeaderInv, ControlInv
<1> QED
  BY <1>1, <1>2, <1>3, <1>6, HeaderStepKeepsTypes

(* The entries a table names are entries, and others may take their place.   *)
LEMMA HeaderTakesEntries ==
  ASSUME NEW h \in Header, NEW name \in {"directories", "file_names"}
  PROVE  /\ h[name] \in Entries
         /\ \A entries \in Entries : [h EXCEPT ![name] = entries] \in Header
<1>1. CASE name = "directories"
  BY <1>1 DEF Header
<1>2. CASE name = "file_names"
  BY <1>2 DEF Header
<1> QED
  BY <1>1, <1>2

(* Another entry, with no fields yet.                                        *)
LEMMA BeginEntryKeepsTypes ==
  ASSUME TypesInv, BeginEntry
  PROVE  TypesInv'
<1>1. /\ InHeader("entries") /\ table.left > 0
      /\ header' = [header EXCEPT ![table.name] = Append(@, EmptyEntry)]
      /\ table' = [table EXCEPT !.left = @ - 1, !.field = 1]
      /\ UNCHANGED <<pc, reader, outcome>>
  BY DEF BeginEntry
<1>2. /\ outcome = "ok" /\ pc = "entries"
      /\ UNCHANGED <<file, program_data, program_vars, comp_units>>
      /\ reader \in Seq(Byte) /\ EndOf(reader, reader)
      /\ header \in Header /\ table \in EntryTable
  BY <1>1, InHeaderFacts
<1>3. table.name \in {"directories", "file_names"} /\ Len(table.formats) \in Nat
  BY <1>2 DEF EntryTable
<1>4. header' \in Header
  <2> DEFINE name == table.name
             entries == header[name]
  <2>1. entries \in Entries
    BY <1>2, <1>3, HeaderTakesEntries
  <2>2. EmptyEntry \in ContentEntry
    BY WrapFacts DEF EmptyEntry, ContentEntry, Paths
  <2> HIDE DEF entries
  <2>3. Append(entries, EmptyEntry) \in Entries
    BY <2>1, <2>2 DEF Entries
  <2>4. header' = [header EXCEPT ![name] = Append(entries, EmptyEntry)]
    BY <1>1 DEF entries
  <2> QED
    BY <1>2, <1>3, <2>3, <2>4, HeaderTakesEntries
<1>5. table.left - 1 \in Number
  <2> DEFINE M == 2^WIDTH
  <2>1. table.left \in 0..(M - 1) /\ M \in Nat
    BY <1>2, WrapFacts DEF EntryTable, Number
  <2> HIDE DEF M
  <2>2. table.left - 1 \in 0..(M - 1)
    BY <1>1, <2>1
  <2> QED
    BY <2>2 DEF M, Number
<1>6. table' \in EntryTable /\ table'.field = 1 /\ table'.formats = table.formats
  BY <1>1, <1>2, <1>5 DEF EntryTable
<1>7. table'.field \in 1..(Len(table'.formats) + 1)
  BY <1>3, <1>6
<1>8. HeaderInv' /\ ControlInv'
  BY <1>1, <1>2, <1>4, <1>6, <1>7 DEF HeaderInv, ControlInv
<1> QED
  BY <1>1, <1>2, <1>8, HeaderStepKeepsTypes

(* A field of the entry that was begun last.                                 *)
LEMMA ReadEntryFieldKeepsTypes ==
  ASSUME TypesInv, ReadEntryField
  PROVE  TypesInv'
<1> DEFINE name == table.name
           entries == header[name]
           last == Len(entries)
           data == program_data.sections[".debug_line_str"].data
           format == table.formats[table.field]
           field == read_lnct(reader, entries[last], format, data, header.is_dwarf64)
<1>1. /\ InHeader("entries") /\ ~EntryIsRead
      /\ reader' = field.rest
      /\ header' = [header EXCEPT ![name][last] = field.entry]
      /\ outcome' = field.outcome
      /\ table' = [table EXCEPT !.field = @ + 1]
      /\ UNCHANGED pc
  BY DEF ReadEntryField
<1>2. /\ outcome = "ok" /\ pc = "entries"
      /\ UNCHANGED <<file, program_data, program_vars, comp_units>>
      /\ reader \in Seq(Byte)
      /\ header \in Header /\ table \in EntryTable
      /\ table.field \in 1..(Len(table.formats) + 1)
  BY <1>1, InHeaderFacts
<1>3. data \in Seq(Byte)
  BY DEF TypesInv, SectionsInv, SectionNames
<1>4. /\ EndOf(field.rest, reader)
      /\ field.outcome \in {"ok", "assert"}
      /\ entries[last] \in ContentEntry => field.entry \in ContentEntry
  BY <1>2, <1>3, ReadsField
<1> HIDE DEF field
<1>5. name \in {"directories", "file_names"} /\ Len(table.formats) \in Nat
  BY <1>2 DEF EntryTable
<1>6. entries \in Entries
  BY <1>2, <1>5, HeaderTakesEntries
<1>7. header' = [header EXCEPT ![name] = [entries EXCEPT ![last] = field.entry]]
  BY <1>1
<1> HIDE DEF entries, name
<1>8. [entries EXCEPT ![last] = field.entry] \in Entries
  <2>1. CASE last = 0
    <3>1. entries = << >>
      BY <1>6, <2>1 DEF Entries
    <3>2. [entries EXCEPT ![last] = field.entry] = << >>
      BY <2>1, <3>1
    <3> QED
      BY <1>6, <3>1, <3>2
  <2>2. CASE last # 0
    <3>1. last \in 1..Len(entries)
      BY <1>6, <2>2 DEF Entries
    <3>2. entries[last] \in ContentEntry
      BY <1>6, <3>1 DEF Entries
    <3>3. field.entry \in ContentEntry
      BY <1>4, <3>2
    <3> HIDE DEF last
    <3> QED
      BY <1>6, <3>1, <3>3 DEF Entries
  <2> QED
    BY <2>1, <2>2
<1>9. header' \in Header
  BY <1>2, <1>5, <1>7, <1>8, HeaderTakesEntries
<1>10. table.field \in Nat /\ table.field <= Len(table.formats)
  BY <1>1, <1>2, <1>5 DEF EntryIsRead
<1>11. /\ table' \in EntryTable /\ table'.field = table.field + 1
       /\ table'.formats = table.formats
  BY <1>1, <1>2, <1>10 DEF EntryTable
<1>12. table'.field \in 1..(Len(table'.formats) + 1)
  BY <1>5, <1>10, <1>11
<1>13. HeaderInv' /\ ControlInv'
  BY <1>1, <1>2, <1>4, <1>9, <1>11, <1>12 DEF HeaderInv, ControlInv
<1> QED
  BY <1>1, <1>2, <1>4, <1>13, HeaderStepKeepsTypes

(* The files follow the directories.                                         *)
LEMMA EndDirectoriesKeepsTypes ==
  ASSUME TypesInv, EndDirectories
  PROVE  TypesInv'
<1>1. /\ InHeader("entries")
      /\ table' = EmptyTable("file_names") /\ pc' = "format_count"
      /\ UNCHANGED <<reader, header, outcome>>
  BY DEF EndDirectories
<1>2. /\ outcome = "ok"
      /\ UNCHANGED <<file, program_data, program_vars, comp_units>>
      /\ EndOf(reader, reader) /\ header \in Header
  BY <1>1, InHeaderFacts
<1>3. table' \in EntryTable /\ table'.field \in 1..(Len(table'.formats) + 1)
  BY <1>1, EmptyTables
<1>4. HeaderInv' /\ ControlInv'
  BY <1>1, <1>2, <1>3 DEF HeaderInv, ControlInv
<1> QED
  BY <1>1, <1>2, <1>4, HeaderStepKeepsTypes
-----------------------------------------------------------------------------
(* Before and between the units, and their programs.                         *)

(* What is kept of the executable is bytes, and the reader at their start.   *)
LEMMA ParseElfKeepsTypes ==
  ASSUME TypesInv, ParseElf
  PROVE  TypesInv'
<1>1. /\ UNCHANGED <<file, header, table, program_vars, comp_units>>
      /\ pc = "elf" /\ outcome = "ok"
      /\ \/ /\ program_data' = ProgramData(file)
            /\ reader' = SectionBuffer(file, ".debug_line").data
            /\ pc' = "units" /\ outcome' = "ok"
         \/ outcome' = "exit" /\ UNCHANGED <<program_data, reader, pc>>
  BY DEF ParseElf, At
<1>2. RegistersInv' /\ HeaderInv' /\ ControlInv'
  <2>1. pc' \in {"elf", "units"} /\ outcome' \in {"ok", "exit"} /\ program_end' = 0
        /\ UNCHANGED <<header, table, state_machine, comp_units>>
    BY <1>1 DEF TypesInv, ControlInv, program_vars
  <2>2. RegistersInv'
    BY <2>1 DEF TypesInv, RegistersInv
  <2>3. HeaderInv'
    BY <2>1 DEF TypesInv, HeaderInv
  <2>4. ControlInv'
    BY <2>1 DEF ControlInv
  <2> QED
    BY <2>2, <2>3, <2>4
<1>3. CASE outcome' = "exit" /\ UNCHANGED <<program_data, reader, pc>>
  <2>1. SectionsInv'
    BY <1>1, <1>3 DEF TypesInv, SectionsInv, Section, program_vars
  <2> QED
    BY <1>2, <2>1 DEF TypesInv
<1>4. CASE program_data' = ProgramData(file) /\ reader' = SectionBuffer(file, ".debug_line").data
  <2>1. file \in Files /\ file' = file /\ program_end' = 0
    BY <1>1 DEF TypesInv, SectionsInv, ControlInv, program_vars
  <2>2. /\ \A name \in SectionNames :
             program_data'.sections[name].data = SectionBuffer(file, name).data
        /\ program_data'.load_address = LoadAddress(file)
    BY <1>4 DEF ProgramData
  <2>3. /\ \A name \in SectionNames : program_data'.sections[name].data \in Seq(Byte)
        /\ program_data'.load_address \in Nat
    BY <2>1, <2>2, KeptIsBytes
  <2>4. Section' = reader' /\ reader' \in Seq(Byte)
    BY <1>4, <2>1, <2>2, KeptIsBytes DEF Section, SectionNames
  <2> DEFINE s == reader'
  <2>5. s \in Seq(Byte) /\ Section' = s
    BY <2>4
  <2> HIDE DEF s
  <2>6. advance_reader(s, 0) = s
    BY <2>5 DEF advance_reader
  <2>7. EndOf(s, s) /\ Len(s) \in Nat
    BY <2>5, <2>6, Advances DEF EndOf
  <2>8. EndOf(reader, Section)'
    BY <2>5, <2>7 DEF s
  <2>9. program_end' \in 0..Len(Section')
    BY <2>1, <2>5, <2>7
  <2> QED
    BY <1>2, <2>1, <2>3, <2>8, <2>9 DEF TypesInv, SectionsInv
<1> QED
  BY <1>1, <1>3, <1>4

(* The program of a unit whose header is complete begins, or does not fit.   *)
LEMMA BeginProgramKeepsTypes ==
  ASSUME TypesInv, IsSequence(comp_units), BeginProgram
  PROVE  TypesInv'
<1>1. /\ UNCHANGED <<file, program_data, reader, header, table>>
      /\ pc = "entries" /\ outcome = "ok"
      /\ \/ /\ program_end' = IF line_prog_length(header) > Len(reader)
                                THEN 0 ELSE Len(reader) - line_prog_length(header)
            /\ state_machine' = reset_line_num_state_machine(header)
            /\ comp_units' = Append(comp_units, [header |-> header, table |-> << >>])
            /\ pc' = "program" /\ outcome' = "ok"
         \/ outcome' = "assert" /\ UNCHANGED <<program_vars, comp_units, pc>>
  BY DEF BeginProgram, At
<1>2. HeaderInv'
  BY <1>1 DEF TypesInv, HeaderInv
<1>3. ControlInv'
  BY <1>1 DEF ControlInv
<1>4. Section' = Section
  BY <1>1 DEF Section
<1>5. /\ Len(reader) \in Nat /\ Len(Section) \in Nat /\ Len(reader) <= Len(Section)
      /\ header \in Header /\ program_end \in 0..Len(Section)
      /\ EndOf(reader, Section)
  BY DEF TypesInv, SectionsInv, HeaderInv, EndOf
<1>6. CASE outcome' = "assert" /\ UNCHANGED <<program_vars, comp_units, pc>>
  <2>1. UNCHANGED <<program_end, state_machine>>
    BY <1>6 DEF program_vars
  <2>2. RegistersInv'
    BY <1>1, <1>6, <2>1 DEF TypesInv, RegistersInv
  <2>3. program_end' \in 0..Len(Section') /\ EndOf(reader', Section')
    BY <1>1, <1>4, <1>5, <2>1
  <2>4. SectionsInv'
    BY <1>1, <2>3 DEF TypesInv, SectionsInv
  <2> QED
    BY <1>2, <1>3, <2>2, <2>4 DEF TypesInv
<1>7. CASE /\ program_end' = IF line_prog_length(header) > Len(reader)
                               THEN 0 ELSE Len(reader) - line_prog_length(header)
           /\ state_machine' = reset_line_num_state_machine(header)
           /\ comp_units' = Append(comp_units, [header |-> header, table |-> << >>])
  <2> DEFINE length == line_prog_length(header)
             cu == [header |-> header, table |-> << >>]
  <2>1. length \in Nat
    <3>1. /\ header.unit_length \in Number /\ header.header_length \in Number
          /\ OffsetSize(header.is_dwarf64) \in Int
      BY <1>5 DEF Header, OffsetSize
    <3> DEFINE size == OffsetSize(header.is_dwarf64)
               most == header.unit_length
               least == header.header_length
    <3>2. size \in Int /\ most \in Int /\ least \in Int
      BY <3>1, WrapFacts DEF Number
    <3>3. length = Wrap(most - 2 - 1 - 1 - size - least)
      BY DEF line_prog_length
    <3> HIDE DEF size, most, least, length
    <3>4. most - 2 - 1 - 1 - size - least \in Int
      BY <3>2
    <3> QED
      BY <3>3, <3>4, WrapFacts DEF Number
  <2> HIDE DEF length
  <2>2. program_end' \in 0..Len(Section')
    <3> DEFINE l == Len(reader)
               m == Len(Section)
    <3>1. l \in Nat /\ m \in Nat /\ l <= m
          /\ program_end' = IF length > l THEN 0 ELSE l - length
      BY <1>5, <1>7 DEF length
    <3> HIDE DEF l, m
    <3>2. program_end' \in 0..m
      BY <2>1, <3>1
    <3> QED
      BY <1>4, <3>2 DEF m
  <2>3. SectionsInv'
    BY <1>1, <1>4, <1>5, <2>2 DEF TypesInv, SectionsInv
  <2>4. state_machine' \in Registers
    BY <1>7, ResetMakesRegisters
  <2>5. \A i \in DOMAIN comp_units' : comp_units'[i].header \in Header
    <3>1. PICK S : comp_units \in Seq(S)
      BY DEF IsSequence
    <3> DEFINE T == S \cup {cu}
    <3>2. comp_units \in Seq(T) /\ cu \in T /\ comp_units' = Append(comp_units, cu)
      BY <1>7, <3>1
    <3>3. cu.header \in Header /\ \A i \in DOMAIN comp_units : comp_units[i].header \in Header
      BY <1>5 DEF TypesInv, RegistersInv
    <3> HIDE DEF cu, T
    <3>4. /\ DOMAIN comp_units' = 1..(Len(comp_units) + 1)
          /\ DOMAIN comp_units = 1..Len(comp_units) /\ Len(comp_units) \in Nat
          /\ \A i \in 1..Len(comp_units) : comp_units'[i] = comp_units[i]
          /\ comp_units'[Len(comp_units) + 1] = cu
      BY <3>2
    <3>5. ASSUME NEW i \in DOMAIN comp_units'
          PROVE  i \in DOMAIN comp_units \/ i = Len(comp_units) + 1
      BY <3>4
    <3> QED
      BY <3>3, <3>4, <3>5
  <2>6. RegistersInv'
    BY <2>4, <2>5 DEF RegistersInv
  <2> QED
    BY <1>2, <1>3, <2>3, <2>6 DEF TypesInv
<1> QED
  BY <1>1, <1>6, <1>7

(* A program's step keeps the types, if what it makes are registers and it   *)
(* reads on.                                                                 *)
LEMMA OpcodesKeepTypes ==
  ASSUME TypesInv, Decoding, NEW r \in Registers, NEW rows, NEW rest,
         EndOf(rest, reader), Executes(r, rows, rest)
  PROVE  TypesInv'
<1>1. /\ state_machine' = r /\ reader' = rest
      /\ file' = file /\ program_data' = program_data /\ pc' = pc /\ header' = header
      /\ table' = table /\ program_end' = program_end /\ comp_units' = comp_units
      /\ outcome' = outcome
  BY DEF Executes
<1>2. Section' = Section
  BY <1>1 DEF Section
<1>3. EndOf(reader', Section')
  BY <1>1, <1>2, EndsCompose DEF TypesInv, SectionsInv
<1>4. program_end' \in 0..Len(Section')
  BY <1>1, <1>2 DEF TypesInv, SectionsInv
<1>5. SectionsInv'
  BY <1>1, <1>3, <1>4 DEF TypesInv, SectionsInv
<1>6. HeaderInv'
  BY <1>1 DEF TypesInv, HeaderInv
<1>7. RegistersInv'
  BY <1>1 DEF TypesInv, RegistersInv
<1>8. ControlInv'
  BY <1>1 DEF TypesInv, ControlInv
<1> QED
  BY <1>5, <1>6, <1>7, <1>8 DEF TypesInv

(* With or without a row.                                                    *)
LEMMA RowsKeepTypes ==
  ASSUME TypesInv, Decoding, NEW r \in Registers, NEW row, NEW rest,
         EndOf(rest, reader), Sets(r, rest) \/ AppendsRow(row, r, rest)
  PROVE  TypesInv'
BY OpcodesKeepTypes DEF Sets, AppendsRow

(* What is known where an opcode is read.                                    *)
LEMMA DecodingFacts ==
  ASSUME TypesInv, Decoding
  PROVE  /\ state_machine \in Registers /\ header \in Header
         /\ EndOf(opcode_read.rest, reader) /\ opcode_read.rest \in Seq(Byte)
         /\ opcode_read.value \in Byte
         /\ \A rest : EndOf(rest, opcode_read.rest) => EndOf(rest, reader)
<1>1. /\ reader \in Seq(Byte) /\ header \in Header /\ state_machine \in Registers
  BY DEF TypesInv, SectionsInv, HeaderInv, RegistersInv, EndOf, Decoding, At
<1>2. EndOf(opcode_read.rest, reader)
  BY <1>1, ReadsBytes DEF opcode_read
<1>3. opcode_read.value \in Byte
  <2>1. 0 \in Byte
    BY DEF Byte
  <2> QED
    BY <1>1, <2>1, ReadsBytes DEF opcode_read
<1>4. opcode_read.rest \in Seq(Byte)
  BY <1>2 DEF EndOf
<1> HIDE DEF opcode_read
<1> QED
  BY <1>1, <1>2, <1>3, <1>4, EndsCompose

(* A register takes what fits it.                                            *)
LEMMA RegistersTake ==
  ASSUME NEW r \in Registers
  PROVE  /\ \A address \in Number :
              /\ [r EXCEPT !.address = address] \in Registers
              /\ [r EXCEPT !.address = address, !.op_index = 0] \in Registers
         /\ \A number \in UInt32 :
              /\ [r EXCEPT !.discriminator = number] \in Registers
              /\ [r EXCEPT !.file = number] \in Registers
              /\ [r EXCEPT !.column = number] \in Registers
         /\ [r EXCEPT !.end_sequence = TRUE] \in Registers
         /\ [r EXCEPT !.is_stmt = ~@] \in Registers
         /\ \A mark \in {"basic_block", "prologue_end", "epilogue_begin"} :
              [r EXCEPT ![mark] = TRUE] \in Registers
<1> HIDE DEF Number, UInt32
<1>1. \A address \in Number :
        /\ [r EXCEPT !.address = address] \in Registers
        /\ [r EXCEPT !.address = address, !.op_index = 0] \in Registers
  BY DEF Registers
<1>2. \A number \in UInt32 :
        /\ [r EXCEPT !.discriminator = number] \in Registers
        /\ [r EXCEPT !.file = number] \in Registers
        /\ [r EXCEPT !.column = number] \in Registers
  BY DEF Registers
<1>3. [r EXCEPT !.end_sequence = TRUE] \in Registers
  BY DEF Registers
<1>4. [r EXCEPT !.is_stmt = ~@] \in Registers
  BY DEF Registers
<1>5. /\ [r EXCEPT !.basic_block = TRUE] \in Registers
      /\ [r EXCEPT !.prologue_end = TRUE] \in Registers
      /\ [r EXCEPT !.epilogue_begin = TRUE] \in Registers
  BY DEF Registers
<1> QED
  BY <1>1, <1>2, <1>3, <1>4, <1>5

(* Extended opcodes: the end of a sequence, an address, a discriminator, and *)
(* those that are passed over.                                               *)
LEMMA ExtendedKeepsTypes ==
  ASSUME TypesInv,
         DW_LNE_end_sequence \/ DW_LNE_set_address \/ DW_LNE_set_discriminator
         \/ OtherExtended
  PROVE  TypesInv'
<1>1. Decoding
  BY DEF DW_LNE_end_sequence, DW_LNE_set_address, DW_LNE_set_discriminator, OtherExtended,
         Extended
<1>2. /\ state_machine \in Registers /\ header \in Header
      /\ opcode_read.rest \in Seq(Byte)
      /\ \A rest : EndOf(rest, opcode_read.rest) => EndOf(rest, reader)
  BY <1>1, DecodingFacts
<1>3. EndOf(instruction_size.rest, opcode_read.rest) /\ instruction_size.value \in Number
  BY <1>2, ReadsLeb DEF instruction_size
<1>4. instruction_size.rest \in Seq(Byte)
  BY <1>3 DEF EndOf
<1>5. EndOf(extended_opcode.rest, instruction_size.rest)
  BY <1>4, ReadsBytes DEF extended_opcode
<1>6. extended_opcode.rest \in Seq(Byte)
  BY <1>5 DEF EndOf
<1>7. EndOf(extended_opcode.rest, reader)
  <2>1. EndOf(extended_opcode.rest, opcode_read.rest)
    BY <1>3, <1>5, EndsCompose
  <2> QED
    BY <1>2, <2>1
<1>8. CASE DW_LNE_end_sequence
  <2>1. reset_line_num_state_machine(header) \in Registers
    BY ResetMakesRegisters
  <2> QED
    BY <1>1, <1>7, <1>8, <2>1, RowsKeepTypes DEF DW_LNE_end_sequence
<1>9. CASE DW_LNE_set_address
  <2> DEFINE bytes == Wrap(instruction_size.value - 1)
             address == read_bytes(extended_opcode.rest, bytes, 0)
             r == [state_machine EXCEPT !.address = address.value, !.op_index = 0]
  <2>1. Sets(r, address.rest)
    BY <1>9 DEF DW_LNE_set_address
  <2>2. bytes \in Nat
    <3>1. instruction_size.value \in Int
      BY <1>3, WrapFacts DEF Number
    <3>2. instruction_size.value - 1 \in Int
      BY <3>1
    <3>3. bytes \in Number
      BY <3>2, WrapFacts
    <3> HIDE DEF bytes
    <3> QED
      BY <3>3, WrapFacts DEF Number
  <2> HIDE DEF bytes
  <2>3. EndOf(address.rest, extended_opcode.rest) /\ address.value \in Number
    BY <1>6, <2>2, ReadsBytes, WrapFacts
  <2> HIDE DEF address
  <2>4. EndOf(address.rest, reader)
    BY <1>7, <2>3, EndsCompose
  <2>5. r \in Registers
    BY <1>2, <2>3, RegistersTake
  <2> HIDE DEF r
  <2> QED
    BY <1>1, <2>1, <2>4, <2>5, RowsKeepTypes
<1>10. CASE DW_LNE_set_discriminator
  <2> DEFINE discriminator == read_uleb128(extended_opcode.rest)
             number == discriminator.value % UINT32_MODULUS
             r == [state_machine EXCEPT !.discriminator = number]
  <2>1. Sets(r, discriminator.rest)
    BY <1>10 DEF DW_LNE_set_discriminator
  <2>2. EndOf(discriminator.rest, extended_opcode.rest) /\ discriminator.value \in Number
    BY <1>6, ReadsLeb
  <2> HIDE DEF discriminator
  <2>3. EndOf(discriminator.rest, reader)
    BY <1>7, <2>2, EndsCompose
  <2>4. discriminator.value \in Int
    BY <2>2, WrapFacts DEF Number
  <2>5. number \in UInt32
    BY <2>4, HalfWidth
  <2> HIDE DEF number
  <2>6. r \in Registers
    BY <1>2, <2>5, RegistersTake
  <2> HIDE DEF r
  <2> QED
    BY <1>1, <2>1, <2>3, <2>6, RowsKeepTypes
<1>11. CASE OtherExtended
  BY <1>1, <1>2, <1>7, <1>11, RowsKeepTypes DEF OtherExtended
<1> QED
  BY <1>8, <1>9, <1>10, <1>11

(* Standard opcodes that read no operand.                                    *)
LEMMA PlainKeepTypes ==
  ASSUME TypesInv,
         DW_LNS_copy \/ DW_LNS_negate_stmt \/ DW_LNS_set_mark \/ DW_LNS_const_add_pc
         \/ OtherStandard \/ Special
  PROVE  TypesInv'
<1>1. Decoding
  BY DEF DW_LNS_copy, DW_LNS_negate_stmt, DW_LNS_set_mark, DW_LNS_const_add_pc,
         OtherStandard, Special, SpecialRead, Standard
<1>2. /\ state_machine \in Registers /\ header \in Header
      /\ EndOf(opcode_read.rest, reader) /\ opcode_read.value \in Byte
  BY <1>1, DecodingFacts
<1>3. CASE DW_LNS_copy
  <2>1. Machine(header)!ForgetMarks(state_machine) \in Registers
    <3>1. 0 \in Int
      OBVIOUS
    <3> QED
      BY <1>2, <3>1, LinesKeepRegisters
  <2> QED
    BY <1>1, <1>2, <1>3, <2>1, RowsKeepTypes DEF DW_LNS_copy
<1>4. CASE DW_LNS_negate_stmt
  <2>1. [state_machine EXCEPT !.is_stmt = ~@] \in Registers
    BY <1>2, RegistersTake
  <2>2. Sets([state_machine EXCEPT !.is_stmt = ~@], opcode_read.rest)
    BY <1>4 DEF DW_LNS_negate_stmt
  <2> QED
    BY <1>1, <1>2, <2>1, <2>2, RowsKeepTypes
<1>5. CASE DW_LNS_set_mark
  <2>1. PICK set \in {<<7, "basic_block">>, <<10, "prologue_end">>, <<11, "epilogue_begin">>} :
          Sets([state_machine EXCEPT ![set[2]] = TRUE], opcode_read.rest)
    BY <1>5 DEF DW_LNS_set_mark
  <2>2. set[2] \in {"basic_block", "prologue_end", "epilogue_begin"}
    OBVIOUS
  <2>3. [state_machine EXCEPT ![set[2]] = TRUE] \in Registers
    BY <1>2, <2>2, RegistersTake
  <2> QED
    BY <1>1, <1>2, <2>1, <2>3, RowsKeepTypes
<1>6. CASE DW_LNS_const_add_pc
  <2> DEFINE base == header.opcode_base
             range == header.line_range
             count == (255 - base) \div range
             r == state_machine_advance_pc(state_machine, count)
  <2>1. Divisible /\ range # 0 /\ Sets(r, opcode_read.rest)
    BY <1>6 DEF DW_LNS_const_add_pc
  <2>2. base \in 0..255 /\ range \in Nat
    BY <1>2, ParametersAreNumbers
  <2> HIDE DEF base, range
  <2>3. count \in Nat
    <3> DEFINE left == 255 - base
    <3>1. left \in Nat
      BY <2>2
    <3> HIDE DEF left
    <3>2. left \div range \in Int /\ left \div range >= 0
      BY <2>1, <2>2, <3>1
    <3> QED
      BY <3>2 DEF left
  <2> HIDE DEF count
  <2>4. r \in Registers
    BY <1>2, <2>1, <2>3, AdvancesRegisters
  <2> HIDE DEF r
  <2> QED
    BY <1>1, <1>2, <2>1, <2>4, RowsKeepTypes
<1>7. CASE OtherStandard
  BY <1>1, <1>2, <1>7, RowsKeepTypes DEF OtherStandard
<1>8. CASE Special
  <2> DEFINE row == [Machine(header)!SpecialRow(state_machine, opcode_read.value)
                       EXCEPT !.address = Wrap(@)]
             r == Machine(header)!ForgetMarks(row)
  <2>1. /\ Divisible /\ header.line_range # 0 /\ opcode_read.value >= header.opcode_base
        /\ AppendsRow(row, r, opcode_read.rest)
    BY <1>8 DEF Special, SpecialRead
  <2>2. row \in Registers
    BY <1>2, <2>1, SpecialMakesRegisters
  <2> HIDE DEF row
  <2>3. r \in Registers
    <3>1. 0 \in Int
      OBVIOUS
    <3> QED
      BY <2>2, <3>1, LinesKeepRegisters
  <2> HIDE DEF r
  <2> QED
    BY <1>1, <1>2, <2>1, <2>3, RowsKeepTypes
<1> QED
  BY <1>3, <1>4, <1>5, <1>6, <1>7, <1>8

(* Standard opcodes with an operand.                                         *)
LEMMA OperandsKeepTypes ==
  ASSUME TypesInv,
         DW_LNS_advance_pc \/ DW_LNS_advance_line \/ DW_LNS_set_file_or_column
         \/ DW_LNS_fixed_advance_pc \/ DW_LNS_set_isa
  PROVE  TypesInv'
<1>1. Decoding
  BY DEF DW_LNS_advance_pc, DW_LNS_advance_line, DW_LNS_set_file_or_column,
         DW_LNS_fixed_advance_pc, DW_LNS_set_isa, Standard
<1>2. /\ state_machine \in Registers /\ header \in Header
      /\ opcode_read.rest \in Seq(Byte)
      /\ \A rest : EndOf(rest, opcode_read.rest) => EndOf(rest, reader)
  BY <1>1, DecodingFacts
<1> DEFINE unsigned == read_uleb128(opcode_read.rest)
           signed == read_sleb128(opcode_read.rest)
           fixed == read_bytes(opcode_read.rest, 2, 0)
<1>3. /\ EndOf(unsigned.rest, reader) /\ unsigned.value \in Number
      /\ EndOf(signed.rest, reader) /\ signed.value \in Int
  BY <1>2, ReadsLeb
<1>4. EndOf(fixed.rest, reader) /\ fixed.value \in Number
  <2>1. EndOf(fixed.rest, opcode_read.rest) /\ fixed.value \in Number
    BY <1>2, ReadsBytes, WrapFacts
  <2> HIDE DEF fixed
  <2> QED
    BY <1>2, <2>1
<1>5. unsigned.value \in Nat /\ fixed.value \in Int
  <2> HIDE DEF unsigned, fixed
  <2> QED
    BY <1>3, <1>4, WrapFacts DEF Number
<1>6. CASE DW_LNS_advance_pc
  <2> DEFINE r == state_machine_advance_pc(state_machine, unsigned.value)
  <2>1. Divisible /\ Sets(r, unsigned.rest)
    BY <1>6 DEF DW_LNS_advance_pc
  <2> HIDE DEF unsigned
  <2>2. r \in Registers
    BY <1>2, <1>5, <2>1, AdvancesRegisters
  <2> HIDE DEF r
  <2> QED
    BY <1>1, <1>3, <2>1, <2>2, RowsKeepTypes
<1>7. CASE DW_LNS_advance_line
  <2> DEFINE r == Machine(header)!advance_line(state_machine, signed.value)
  <2>1. Sets(r, signed.rest)
    BY <1>7 DEF DW_LNS_advance_line
  <2> HIDE DEF signed
  <2>2. r \in Registers
    BY <1>2, <1>3, LinesKeepRegisters
  <2> HIDE DEF r
  <2> QED
    BY <1>1, <1>3, <2>1, <2>2, RowsKeepTypes
<1>8. CASE DW_LNS_set_file_or_column
  <2> DEFINE number == unsigned.value % UINT32_MODULUS
  <2>1. PICK set \in {<<4, "file">>, <<5, "column">>} :
          Sets([state_machine EXCEPT ![set[2]] = number], unsigned.rest)
    BY <1>8 DEF DW_LNS_set_file_or_column
  <2> HIDE DEF unsigned
  <2>2. number \in UInt32
    BY <1>5, HalfWidth
  <2> HIDE DEF number
  <2>3. set[2] = "file" \/ set[2] = "column"
    OBVIOUS
  <2>4. [state_machine EXCEPT ![set[2]] = number] \in Registers
    BY <1>2, <2>2, <2>3, RegistersTake
  <2> QED
    BY <1>1, <1>3, <2>1, <2>4, RowsKeepTypes
<1>9. CASE DW_LNS_fixed_advance_pc
  <2> DEFINE address == Wrap(state_machine.address + fixed.value)
             r == [state_machine EXCEPT !.address = address, !.op_index = 0]
  <2>1. Sets([state_machine EXCEPT !.address = Wrap(@ + fixed.value), !.op_index = 0],
             fixed.rest)
    BY <1>9 DEF DW_LNS_fixed_advance_pc
  <2>2. Sets(r, fixed.rest)
    BY <2>1
  <2> HIDE DEF fixed
  <2>3. state_machine.address \in Int
    BY <1>2, WrapFacts DEF Registers, Number
  <2>4. address \in Number
    BY <1>5, <2>3, WrapFacts
  <2> HIDE DEF address
  <2>5. r \in Registers
    BY <1>2, <2>4, RegistersTake
  <2> HIDE DEF r
  <2> QED
    BY <1>1, <1>4, <2>2, <2>5, RowsKeepTypes
<1>10. CASE DW_LNS_set_isa
  BY <1>1, <1>2, <1>3, <1>10, RowsKeepTypes DEF DW_LNS_set_isa
<1> QED
  BY <1>6, <1>7, <1>8, <1>9, <1>10

(* A division by zero ends the debugger as it was.                           *)
LEMMA DivideByZeroKeepsTypes ==
  ASSUME TypesInv, DivideByZero
  PROVE  TypesInv'
<1>1. /\ UNCHANGED <<file, program_data, pc, reader, header, table, comp_units>>
      /\ UNCHANGED <<program_end, state_machine>> /\ outcome' = "sigfpe"
  BY DEF DivideByZero, program_vars
<1>2. SectionsInv'
  BY <1>1 DEF TypesInv, SectionsInv, Section
<1>3. HeaderInv' /\ RegistersInv'
  BY <1>1 DEF TypesInv, HeaderInv, RegistersInv
<1>4. ControlInv'
  BY <1>1 DEF TypesInv, ControlInv
<1> QED
  BY <1>2, <1>3, <1>4 DEF TypesInv

(* The unit gets its rows.                                                   *)
LEMMA EndProgramKeepsTypes ==
  ASSUME TypesInv, EndProgram
  PROVE  TypesInv'
<1>1. /\ UNCHANGED <<file, program_data, reader, header, table, outcome>>
      /\ UNCHANGED <<program_end, state_machine>>
      /\ comp_units' = [comp_units EXCEPT ![Len(comp_units)].table = line_info_table]
      /\ pc = "program" /\ pc' = "units"
  BY DEF EndProgram, At, program_vars
<1>2. SectionsInv'
  BY <1>1 DEF TypesInv, SectionsInv, Section
<1>3. HeaderInv'
  BY <1>1 DEF TypesInv, HeaderInv
<1>4. RegistersInv'
  <2>1. state_machine' \in Registers
    BY <1>1 DEF TypesInv, RegistersInv
  <2>2. \A i \in DOMAIN comp_units' : comp_units'[i].header \in Header
    <3>1. DOMAIN comp_units' = DOMAIN comp_units
      BY <1>1
    <3> TAKE i \in DOMAIN comp_units'
    <3>2. comp_units[i].header \in Header
      BY <3>1 DEF TypesInv, RegistersInv
    <3>3. CASE i = Len(comp_units)
      <4>1. comp_units'[i] = [comp_units[i] EXCEPT !.table = line_info_table]
        BY <1>1, <3>1, <3>3
      <4>2. comp_units'[i].header = comp_units[i].header
        BY <4>1
      <4> QED
        BY <3>2, <4>2
    <3>4. CASE i # Len(comp_units)
      <4>1. comp_units'[i] = comp_units[i]
        BY <1>1, <3>1, <3>4
      <4> QED
        BY <3>2, <4>1
    <3> QED
      BY <3>3, <3>4
  <2> QED
    BY <1>1, <2>1, <2>2 DEF RegistersInv
<1>5. ControlInv'
  BY <1>1 DEF TypesInv, ControlInv
<1> QED
  BY <1>2, <1>3, <1>4, <1>5 DEF TypesInv

(* Filling the picker touches no more.                                       *)
LEMMA FillPickerKeepsTypes ==
  ASSUME TypesInv, FillPicker
  PROVE  TypesInv'
<1>1. /\ UNCHANGED <<file, program_data, reader, header, table, comp_units>>
      /\ UNCHANGED <<program_end, state_machine>>
      /\ pc' = "done" /\ outcome' \in {"ok", "segv"}
  BY DEF FillPicker, program_vars
<1>2. SectionsInv'
  BY <1>1 DEF TypesInv, SectionsInv, Section
<1>3. HeaderInv' /\ RegistersInv'
  BY <1>1 DEF TypesInv, HeaderInv, RegistersInv
<1>4. ControlInv'
  BY <1>1 DEF TypesInv, ControlInv
<1> QED
  BY <1>2, <1>3, <1>4 DEF TypesInv

(* The types hold in every state of a startup, whatever bytes it reads.      *)
THEOREM StartupTypes == Spec => []TypesInv
<1>1. Init => TypesInv
  <2> SUFFICES ASSUME Init PROVE TypesInv
    OBVIOUS
  <2>1. << >> \in Seq(Byte) /\ Len(<< >>) = 0 /\ Section = << >>
    BY DEF Init, NoSections, SectionNames, Section
  <2>2. EndOf(<< >>, << >>)
    BY DEF EndOf, advance_reader
  <2>3. SectionsInv
    <3>1. /\ file \in Files /\ program_data.load_address = 0
          /\ program_data.sections = NoSections
          /\ reader = << >> /\ program_end = 0
      BY DEF Init
    <3>2. \A name \in SectionNames : NoSections[name].data = << >>
      BY DEF NoSections
    <3>3. EndOf(reader, Section)
      BY <2>1, <2>2, <3>1
    <3>4. program_end \in 0..Len(Section)
      BY <2>1, <3>1
    <3>5. \A name \in SectionNames : program_data.sections[name].data \in Seq(Byte)
      BY <2>1, <3>1, <3>2
    <3>6. program_data.load_address \in Nat
      BY <3>1
    <3> QED
      BY <3>1, <3>3, <3>4, <3>5, <3>6 DEF SectionsInv
  <2>4. header \in Header
    <3>1. 0 \in Number /\ 0 \in Byte /\ 0 \in -128..127 /\ << >> \in Entries
      BY WrapFacts DEF Byte, Entries
    <3> HIDE DEF Number, Byte, Entries
    <3> QED
      BY <3>1 DEF Init, NoHeader, Header
  <2>5. HeaderInv
    BY <2>4, EmptyTables DEF Init, HeaderInv
  <2>6. RegistersInv /\ ControlInv
    BY DEF Init, RegistersInv, ControlInv
  <2> QED
    BY <2>3, <2>5, <2>6 DEF TypesInv
<1>2. ASSUME TypesInv, StartupInv, [Next]_vars
      PROVE  TypesInv'
  <2>1. IsSequence(comp_units)
    BY <1>2 DEF StartupInv
  <2>2. CASE \/ ReadUnitLength \/ ReadHeaderField \/ ReadOpcodeLengths
             \/ ReadFormatCount \/ ReadFormat \/ ReadEntryCount
             \/ BeginEntry \/ ReadEntryField \/ EndDirectories
    BY <1>2, <2>2, ReadUnitLengthKeepsTypes, ReadHeaderFieldKeepsTypes,
       ReadOpcodeLengthsKeepsTypes, ReadFormatCountKeepsTypes, ReadFormatKeepsTypes,
       ReadEntryCountKeepsTypes, BeginEntryKeepsTypes, ReadEntryFieldKeepsTypes,
       EndDirectoriesKeepsTypes
  <2>3. CASE \/ DW_LNE_end_sequence \/ DW_LNE_set_address \/ DW_LNE_set_discriminator
             \/ OtherExtended
    BY <1>2, <2>3, ExtendedKeepsTypes
  <2>4. CASE \/ DW_LNS_copy \/ DW_LNS_negate_stmt \/ DW_LNS_set_mark \/ DW_LNS_const_add_pc
             \/ OtherStandard \/ Special
    BY <1>2, <2>4, PlainKeepTypes
  <2>5. CASE \/ DW_LNS_advance_pc \/ DW_LNS_advance_line \/ DW_LNS_set_file_or_column
             \/ DW_LNS_fixed_advance_pc \/ DW_LNS_set_isa
    BY <1>2, <2>5, OperandsKeepTypes
  <2>6. CASE ParseElf \/ BeginProgram \/ EndProgram \/ DivideByZero \/ FillPicker
    BY <1>2, <2>1, <2>6, ParseElfKeepsTypes, BeginProgramKeepsTypes, EndProgramKeepsTypes,
       DivideByZeroKeepsTypes, FillPickerKeepsTypes
  <2>7. CASE Started \/ UNCHANGED vars
    <3>1. UNCHANGED <<file, program_data, pc, reader, header, table, program_end,
                      state_machine, comp_units, outcome>>
      BY <2>7 DEF Started, vars, program_vars
    <3>2. SectionsInv'
      BY <1>2, <3>1 DEF TypesInv, SectionsInv, Section
    <3>3. HeaderInv' /\ RegistersInv' /\ ControlInv'
      BY <1>2, <3>1 DEF TypesInv, HeaderInv, RegistersInv, ControlInv
    <3> QED
      BY <3>2, <3>3 DEF TypesInv
  <2> QED
    BY <1>2, <2>2, <2>3, <2>4, <2>5, <2>6, <2>7 DEF Next
<1> QED
  BY <1>1, <1>2, StartupInvariant, PTL DEF Spec

(* Variables have their types: no bytes of any section make a number that    *)
(* does not fit its integer, or lead the reader or the end of a program out  *)
(* of the section.                                                           *)
THEOREM StartupTypeCorrect == Spec => []TypeOK
<1>1. ASSUME TypesInv
      PROVE  TypeOK
  <2>1. /\ pc \in {"elf", "units", "fields", "opcode_lengths", "format_count", "formats",
                   "entries", "program", "done"}
        /\ outcome \in {"ok", "exit", "assert", "sigfpe", "segv"}
    BY <1>1 DEF TypesInv, ControlInv
  <2>2. /\ program_data.load_address \in Nat
        /\ Len(reader) <= Len(Section)
        /\ reader = advance_reader(Section, Len(Section) - Len(reader))
        /\ program_end \in 0..Len(Section)
    BY <1>1 DEF TypesInv, SectionsInv, EndOf
  <2>3. /\ table.name \in {"directories", "file_names"}
        /\ table.left \in 0..(2^WIDTH - 1)
        /\ table.field \in 1..(Len(table.formats) + 1)
    BY <1>1 DEF TypesInv, HeaderInv, EntryTable, Number
  <2>4. ASSUME NEW i \in DOMAIN comp_units
        PROVE  /\ comp_units[i].header.opcode_base \in 0..255
               /\ comp_units[i].header.line_base \in -128..127
               /\ \A entry \in Range(comp_units[i].header.directories
                                     \o comp_units[i].header.file_names) :
                    entry.directory_index \in 0..(2^WIDTH - 1)
    <3> DEFINE h == comp_units[i].header
               all == h.directories \o h.file_names
    <3>1. h \in Header
      BY <1>1 DEF TypesInv, RegistersInv
    <3> HIDE DEF h
    <3>2. h.opcode_base \in 0..255 /\ h.line_base \in -128..127
      BY <3>1 DEF Header, Byte
    <3>3. all \in Seq(ContentEntry)
      BY <3>1 DEF Header, Entries
    <3> HIDE DEF all
    <3>4. \A entry \in Range(all) : entry \in ContentEntry
      BY <3>3 DEF Range
    <3>5. \A entry \in Range(all) : entry.directory_index \in 0..(2^WIDTH - 1)
      BY <3>4 DEF ContentEntry, Number
    <3> QED
      BY <3>2, <3>5 DEF all, h
  <2>5. ASSUME state_machine # << >>
        PROVE  /\ state_machine.address \in 0..(2^WIDTH - 1)
               /\ \A register \in {"line", "file", "column", "discriminator"} :
                    state_machine[register] \in 0..(UINT32_MODULUS - 1)
    <3>1. state_machine \in Registers
      BY <1>1, <2>5 DEF TypesInv, RegistersInv
    <3> QED
      BY <3>1 DEF Registers, Number, UInt32
  <2> QED
    BY <2>1, <2>2, <2>3, <2>4, <2>5 DEF TypeOK
<1> QED
  BY <1>1, StartupTypes, PTL
-----------------------------------------------------------------------------
(* Numbers and their digits.                                                 *)

(* Dividing twice is dividing once: the quotient that is left, and what is   *)
(* taken from it next.                                                       *)
LEMMA DividedAgain ==
  ASSUME NEW n \in Int, NEW p \in Nat \ {0}, NEW b \in Nat \ {0}
  PROVE  n \div p = ((n \div p) % b) + b * (n \div (p * b))
<1> DEFINE q == n \div p
           s == n % p
           u == q \div b
           t == q % b
<1>1. q \in Int /\ s \in 0..(p - 1) /\ n = p * q + s
  BY QuotientAndRemainder
<1> HIDE DEF q, s
<1>2. u \in Int /\ t \in 0..(b - 1) /\ q = b * u + t
  BY <1>1, QuotientAndRemainder
<1> HIDE DEF u, t
<1>3. p * b \in Nat /\ p * b > 0
  BY SMT
<1>4. p * t + s \in 0..(p * b - 1)
  <2>1. p * t \in Nat /\ p * t <= p * (b - 1)
    BY <1>2
  <2>2. p * (b - 1) = p * b - p
    OBVIOUS
  <2> QED
    BY <1>1, <1>3, <2>1, <2>2
<1>5. n = (p * b) * u + (p * t + s)
  <2>1. p * (b * u + t) = (p * b) * u + p * t
    BY <1>2
  <2> QED
    BY <1>1, <1>2, <2>1
<1>6. n \div (p * b) = u
  <2> DEFINE m == p * b
             x == p * t + s
  <2>1. m \in Nat /\ m > 0 /\ x \in 0..(m - 1) /\ n = m * u + x
    BY <1>3, <1>4, <1>5
  <2> HIDE DEF m, x
  <2>2. n \div m = u
    BY <1>2, <2>1, QuotientIsUnique
  <2> QED
    BY <2>2 DEF m
<1>7. q = t + b * u
  BY <1>2
<1> QED
  BY <1>6, <1>7 DEF q, t

(* Wrapping early makes no difference.                                       *)
LEMMA WrapsOnce ==
  ASSUME NEW a \in Int, NEW b \in Int, NEW c \in Int
  PROVE  Wrap(a + b * Wrap(c)) = Wrap(a + b * c)
<1> DEFINE M == 2^WIDTH
           k == c \div M
           r == c % M
           x == a + b * r
           u == x \div M
           v == x % M
<1>1. M \in Nat /\ M > 0
  BY WrapFacts
<1>2. Wrap(c) = r /\ \A y : Wrap(y) = y % M
  BY DEF Wrap
<1> HIDE DEF M
<1>3. k \in Int /\ r \in Int /\ c = M * k + r
  <2>1. k \in Int /\ r \in 0..(M - 1) /\ c = M * k + r
    BY <1>1, QuotientAndRemainder
  <2> QED
    BY <1>1, <2>1
<1> HIDE DEF k, r
<1>4. x \in Int
  BY <1>3
<1>5. a + b * c = M * (b * k) + x
  BY <1>1, <1>3
<1> HIDE DEF x
<1>6. u \in Int /\ v \in 0..(M - 1) /\ x = M * u + v
  BY <1>1, <1>4, QuotientAndRemainder
<1>7. v = x % M
  OBVIOUS
<1> HIDE DEF u, v
<1> DEFINE w == b * k + u
<1>8. w \in Int /\ a + b * c = M * w + v
  <2>1. b * k \in Int
    BY <1>3
  <2>2. M * (b * k + u) = M * (b * k) + M * u
    BY <1>1, <1>6, <2>1
  <2> QED
    BY <1>1, <1>5, <1>6, <2>1, <2>2
<1> HIDE DEF w
<1>9. (M * w + v) % M = v
  BY <1>1, <1>6, <1>8, QuotientIsUnique
<1> QED
  BY <1>2, <1>7, <1>8, <1>9 DEF x

(* The exponents of powers of two add up.                                    *)
LEMMA PowersMultiply ==
  ASSUME NEW j \in Nat, NEW k \in Nat, j + k \in 0..(WIDTH + 6)
  PROVE  2^(j + k) = 2^j * 2^k
<1> DEFINE P(i) == 2^i
<1>1. P(0) = 1
  OBVIOUS
<1>2. \A i \in 0..(WIDTH + 5) : P(i + 1) = 2 * P(i)
  BY ReaderAssumption
<1>3. \A i \in 0..(WIDTH + 6) : P(i) \in Nat \ {0}
  BY PowersArePositive
<1>4. WIDTH \in Nat
  BY ReaderAssumption
<1> HIDE DEF P
<1> DEFINE T == {i \in 0..k : P(j + i) # P(j) * P(i)}
<1>5. T = {}
  <2> SUFFICES ASSUME T # {} PROVE FALSE
    OBVIOUS
  <2>1. T \in SUBSET Nat
    OBVIOUS
  <2>2. PICK m \in T : \A i \in T : m <= i
    <3> HIDE DEF T
    <3> QED
      BY <2>1, LeastNatural
  <2>3. m \in 0..k /\ P(j + m) # P(j) * P(m)
    OBVIOUS
  <2>4. j \in 0..(WIDTH + 6) /\ P(j) \in Nat
    BY <1>3, <1>4
  <2>5. m # 0
    BY <1>1, <2>3, <2>4
  <2>6. m - 1 \in 0..k /\ m - 1 \notin T
    BY <2>1, <2>2, <2>3, <2>5
  <2>7. P(j + (m - 1)) = P(j) * P(m - 1)
    BY <2>6
  <2>8. /\ j + (m - 1) \in 0..(WIDTH + 5) /\ m - 1 \in 0..(WIDTH + 5)
        /\ (j + (m - 1)) + 1 = j + m /\ (m - 1) + 1 = m
    BY <1>4, <2>3, <2>5
  <2>9. P(j + m) = 2 * P(j + (m - 1)) /\ P(m) = 2 * P(m - 1)
    BY <1>2, <2>8
  <2>10. P(m - 1) \in Nat
    <3>1. m - 1 \in 0..(WIDTH + 6)
      BY <1>4, <2>8
    <3> QED
      BY <1>3, <3>1
  <2>11. P(j) * (2 * P(m - 1)) = 2 * (P(j) * P(m - 1))
    BY <2>4, <2>10
  <2> QED
    BY <2>3, <2>7, <2>9, <2>11
<1>6. P(j + k) = P(j) * P(k)
  BY <1>5
<1> QED
  BY <1>6 DEF P

(* Digits that are what is left of a number, part by part, make that number, *)
(* as far as it fits.                                                        *)
LEMMA DigitsMakeTheirNumber ==
  ASSUME NEW base \in Nat, NEW count \in Nat, NEW digits \in [1..count -> Nat],
         NEW left \in [0..count -> Int], left[count] = 0,
         \A i \in 1..count : left[i - 1] = digits[i] + base * left[i]
  PROVE  FromDigits(base, digits) = Wrap(left[0])
<1>2. /\ count \in Nat /\ left \in [0..count -> Int] /\ left[count] = 0
      /\ \A i \in 1..count : digits[i] \in Nat /\ left[i - 1] = digits[i] + base * left[i]
      /\ Len(digits) = count
  BY LenProperties
<1>1. PICK last : MadeOf(base, digits, last) /\ FromDigits(base, digits) = last[count]
  <2>1. Len(digits) \in Nat /\ \A i \in 1..Len(digits) : digits[i] \in Nat
    BY <1>2
  <2> QED
    BY <1>2, <2>1, DigitsMakeANumber
<1>3. /\ last[0] = 0
      /\ \A n \in 1..count : last[n] = Wrap(digits[count + 1 - n] + base * last[n - 1])
  BY <1>1, <1>2 DEF MadeOf
<1> DEFINE T == {m \in 0..count : last[m] # Wrap(left[count - m])}
<1>4. T = {}
  <2> SUFFICES ASSUME T # {} PROVE FALSE
    OBVIOUS
  <2>1. T \in SUBSET Nat
    BY <1>2
  <2>2. PICK m \in T : \A i \in T : m <= i
    <3> HIDE DEF T
    <3> QED
      BY <2>1, LeastNatural
  <2>3. m \in 0..count /\ last[m] # Wrap(left[count - m])
    OBVIOUS
  <2>4. m # 0
    <3>1. Wrap(0) = 0
      BY WrapFacts
    <3>2. count - 0 = count
      BY <1>2
    <3> QED
      BY <1>2, <1>3, <2>3, <3>1, <3>2
  <2>5. m - 1 \in 0..count /\ m - 1 \notin T
    BY <1>2, <2>1, <2>2, <2>3, <2>4
  <2> DEFINE i == count + 1 - m
  <2>6. /\ i \in 1..count /\ i \in 0..count /\ m \in 1..count
        /\ count - (m - 1) = i /\ i - 1 = count - m
    BY <1>2, <2>3, <2>4
  <2>7. last[m - 1] = Wrap(left[i])
    BY <2>5, <2>6
  <2>8. last[m] = Wrap(digits[i] + base * last[m - 1])
    BY <1>3, <2>6
  <2> HIDE DEF i, T
  <2>9. left[i] \in Int /\ digits[i] \in Int /\ base \in Int
    BY <1>2, <2>6
  <2>10. Wrap(digits[i] + base * Wrap(left[i])) = Wrap(digits[i] + base * left[i])
    BY <2>9, WrapsOnce, Zenon
  <2>11. left[count - m] = digits[i] + base * left[i]
    BY <1>2, <2>6
  <2> QED
    BY <2>3, <2>7, <2>8, <2>10, <2>11
<1>5. last[count] = Wrap(left[count - count]) /\ count - count = 0
  <2>1. count \in 0..count /\ count - count = 0
    BY <1>2
  <2>2. \A m \in 0..count : last[m] = Wrap(left[count - m])
    BY <1>4
  <2> QED
    BY <2>1, <2>2, Zenon
<1> QED
  BY <1>1, <1>5

-----------------------------------------------------------------------------
(* What the producer writes is read back.                                    *)

(* What is left of n behind i digits of w bits.                              *)
LeftOf(n, w, i) == n \div 2^(w * i)

(* A digit and what is left behind it.                                       *)
LEMMA NextDigit ==
  ASSUME NEW n \in Int, NEW w \in Nat \ {0}, NEW i \in Nat \ {0}, w * i <= WIDTH + 6
  PROVE  /\ LeftOf(n, w, i) \in Int /\ LeftOf(n, w, i - 1) \in Int
         /\ LeftOf(n, w, i - 1) = (LeftOf(n, w, i - 1) % 2^w) + 2^w * LeftOf(n, w, i)
         /\ 2^w \in Nat \ {0} /\ LeftOf(n, w, i - 1) % 2^w \in 0..(2^w - 1)
<1> DEFINE P(k) == 2^k
           j == w * (i - 1)
           k == w * i
<1>1. WIDTH \in Nat
  BY ReaderAssumption
<1>2. j \in Nat /\ k \in Nat /\ j + w = k /\ k <= WIDTH + 6
  BY SMT
<1>3. LeftOf(n, w, i - 1) = n \div P(j) /\ LeftOf(n, w, i) = n \div P(k)
  BY DEF LeftOf
<1> HIDE DEF j, k
<1>4. j \in 0..(WIDTH + 6) /\ w \in 0..(WIDTH + 6) /\ k \in 0..(WIDTH + 6)
  BY <1>1, <1>2
<1>5. P(k) = P(j) * P(w)
  BY <1>2, <1>4, PowersMultiply
<1>6. P(j) \in Nat \ {0} /\ P(w) \in Nat \ {0} /\ P(k) \in Nat \ {0}
  BY <1>4, PowersArePositive
<1> HIDE DEF P
<1>7. n \div P(j) = ((n \div P(j)) % P(w)) + P(w) * (n \div (P(j) * P(w)))
  BY <1>6, DividedAgain
<1>8. n \div P(j) \in Int /\ n \div P(k) \in Int
  BY <1>6
<1>9. \A x \in Int : x % P(w) \in 0..(P(w) - 1)
  BY <1>6
<1>10. P(w) = 2^w
  BY DEF P
<1> QED
  BY <1>3, <1>5, <1>6, <1>7, <1>8, <1>9, <1>10

(* The seven bits of n in its group i.                                       *)
Part(n, i) == LeftOf(n, 7, i - 1) % 128

(* What a group takes, and what it leaves.                                   *)
LEMMA NextPart ==
  ASSUME NEW n \in Int, NEW i \in 1..MAX_LEB
  PROVE  /\ Part(n, i) \in 0..127
         /\ LeftOf(n, 7, i) \in Int /\ LeftOf(n, 7, i - 1) \in Int
         /\ LeftOf(n, 7, i - 1) = Part(n, i) + 128 * LeftOf(n, 7, i)
<1> DEFINE b == 2^7
<1>1. i \in Nat \ {0} /\ 7 * i <= WIDTH + 6
  BY ReaderAssumption DEF MAX_LEB
<1>2. b = 128
  BY PowersAscend
<1>3. /\ LeftOf(n, 7, i) \in Int /\ LeftOf(n, 7, i - 1) \in Int
      /\ LeftOf(n, 7, i - 1) = (LeftOf(n, 7, i - 1) % b) + b * LeftOf(n, 7, i)
      /\ LeftOf(n, 7, i - 1) % b \in 0..(b - 1)
  <2>1. 7 \in Nat \ {0}
    OBVIOUS
  <2> QED
    BY <1>1, <2>1, NextDigit
<1> HIDE DEF b
<1>4. Part(n, i) = LeftOf(n, 7, i - 1) % b
  BY <1>2 DEF Part
<1> QED
  BY <1>2, <1>3, <1>4

(* A number's groups are as many bytes, and others may follow them.          *)
LEMMA GroupsAreBytes ==
  ASSUME NEW n \in Int, NEW count \in 1..MAX_LEB, NEW rest \in Seq(Byte)
  PROVE  LET r == Groups(n, count) \o rest
         IN  /\ r \in Seq(Byte) /\ Len(r) = count + Len(rest)
             /\ \A i \in 1..count :
                  r[i] = Part(n, i) + (IF i < count THEN 128 ELSE 0)
             /\ advance_reader(r, count) = rest
<1> DEFINE g == Groups(n, count)
           r == g \o rest
<1>1. count \in Nat /\ count > 0 /\ 1..count \subseteq 1..MAX_LEB
  BY ReaderAssumption DEF MAX_LEB
<1>2. \A i \in 1..count : Part(n, i) \in 0..127
  BY <1>1, NextPart
<1>3. g = [i \in 1..count |-> Part(n, i) + (IF i < count THEN 128 ELSE 0)]
  BY DEF Groups, LeftOf, Part
<1> HIDE DEF g
<1>4. g \in Seq(Byte) /\ Len(g) = count
  <2>1. \A i \in 1..count : Part(n, i) + (IF i < count THEN 128 ELSE 0) \in Byte
    <3>1. \A p \in 0..127 : p + 128 \in Byte /\ p + 0 \in Byte
      BY DEF Byte
    <3> QED
      BY <1>2, <3>1
  <2>2. g \in [1..count -> Byte]
    BY <1>3, <2>1
  <2> QED
    BY <1>1, <2>2, LenProperties, SeqDef
<1>5. r \in Seq(Byte) /\ Len(r) = count + Len(rest)
  BY <1>4
<1>6. \A i \in 1..count : r[i] = g[i]
  BY <1>1, <1>4
<1>7. \A i \in 1..Len(rest) : r[count + i] = rest[i]
  BY <1>1, <1>4
<1>8. advance_reader(r, count) = rest
  <2> DEFINE t == advance_reader(r, count)
  <2>1. count \in 0..Len(r) /\ Len(r) - count = Len(rest)
    BY <1>1, <1>5
  <2> HIDE DEF r
  <2>2. t \in Seq(Byte) /\ Len(t) = Len(rest) /\ \A i \in 1..Len(rest) : t[i] = r[count + i]
    BY <1>5, <2>1, Remaining
  <2> HIDE DEF t
  <2>3. t = rest
    BY <1>7, <2>2, SeqEqual
  <2> QED
    BY <2>3 DEF t
<1> HIDE DEF r
<1>9. \A i \in 1..count : r[i] = Part(n, i) + (IF i < count THEN 128 ELSE 0)
  BY <1>3, <1>6
<1> QED
  BY <1>5, <1>8, <1>9 DEF r, g

(* The loop of the LEB128 readers stops behind the last of the groups, with  *)
(* what they hold.                                                           *)
LEMMA GroupsAreRead ==
  ASSUME NEW n \in Int, NEW count \in 1..MAX_LEB, NEW rest \in Seq(Byte)
  PROVE  LET leb == Leb(Groups(n, count) \o rest)
         IN  /\ leb.status = "READ_OK" /\ leb.consumed = count
             /\ leb.value = FromDigits(128, [i \in 1..count |-> Part(n, i)])
<1> DEFINE r == Groups(n, count) \o rest
           available == IF Len(r) < MAX_LEB THEN Len(r) ELSE MAX_LEB
           ends == {i \in 1..available : r[i] < 128}
           first == CHOOSE i \in ends : \A j \in ends : i <= j
<1>1. /\ r \in Seq(Byte) /\ Len(r) = count + Len(rest)
      /\ \A i \in 1..count : r[i] = Part(n, i) + (IF i < count THEN 128 ELSE 0)
  BY GroupsAreBytes
<1>2. MAX_LEB \in Nat /\ count \in Nat /\ count > 0 /\ count <= MAX_LEB
  BY ReaderAssumption DEF MAX_LEB
<1>3. available \in Nat /\ count <= available
  BY <1>1, <1>2
<1>4. /\ Leb(r).status = CASE ends # {} -> "READ_OK"
                           [] ends = {} /\ available = MAX_LEB -> "READ_ERR_LEB_OVERFLOW"
                           [] OTHER -> "READ_ERR_OUT_OF_BOUNDS"
      /\ Leb(r).consumed = (IF ends = {} THEN available ELSE first)
      /\ Leb(r).value = FromDigits(128, [i \in 1..(IF ends = {} THEN available ELSE first)
                                           |-> r[i] % 128])
  BY DEF Leb
<1> HIDE DEF available, r
<1>5. \A i \in 1..count : Part(n, i) \in 0..127
  <2>1. 1..count \subseteq 1..MAX_LEB
    BY <1>2
  <2> QED
    BY <2>1, NextPart
<1>6. \A i \in 1..count : /\ r[i] \in Nat /\ r[i] % 128 = Part(n, i)
                          /\ i < count => r[i] >= 128
                          /\ i = count => r[i] < 128
  <2>1. \A p \in 0..127 : /\ p + 128 \in Nat /\ (p + 128) % 128 = p /\ p + 128 >= 128
                          /\ p + 0 \in Nat /\ (p + 0) % 128 = p /\ p + 0 < 128
    OBVIOUS
  <2> TAKE i \in 1..count
  <2>2. Part(n, i) \in 0..127 /\ (i < count \/ i = count)
    BY <1>2, <1>5
  <2>3. CASE i < count
    <3>1. r[i] = Part(n, i) + 128 /\ i # count
      BY <1>1, <1>2, <2>3
    <3> QED
      BY <2>1, <2>2, <3>1
  <2>4. CASE i = count
    <3>1. r[i] = Part(n, i) + 0 /\ ~(i < count)
      BY <1>1, <1>2, <2>4
    <3> QED
      BY <2>1, <2>2, <3>1
  <2> QED
    BY <2>2, <2>3, <2>4
<1>7. count \in ends /\ \A i \in ends : count <= i
  <2>1. count \in 1..count /\ count \in 1..available
    BY <1>2, <1>3
  <2>2. r[count] < 128
    BY <1>6, <2>1
  <2>3. ASSUME NEW i \in 1..available, r[i] < 128, ~(count <= i)
        PROVE  FALSE
    <3>1. i \in 1..count /\ i < count
      BY <1>2, <1>3, <2>3
    <3>2. r[i] \in Nat /\ r[i] >= 128
      BY <1>6, <3>1
    <3> QED
      BY <2>3, <3>2
  <2> QED
    BY <2>1, <2>2, <2>3
<1>8. ends # {} /\ \A i \in ends : i \in Nat
  BY <1>3, <1>7
<1> HIDE DEF ends
<1>9. first = count
  <2>1. first \in ends /\ \A j \in ends : first <= j
    BY <1>7
  <2> HIDE DEF first
  <2>2. first \in Nat /\ first <= count /\ count <= first
    BY <1>7, <1>8, <2>1
  <2> QED
    BY <1>2, <2>2
<1> HIDE DEF first
<1>10. [i \in 1..count |-> r[i] % 128] = [i \in 1..count |-> Part(n, i)]
  BY <1>6
<1>11. /\ Leb(r).status = "READ_OK" /\ Leb(r).consumed = count
       /\ Leb(r).value = FromDigits(128, [i \in 1..count |-> Part(n, i)])
  BY <1>4, <1>8, <1>9, <1>10
<1> QED
  BY <1>11 DEF r

(* Groups down to nothing make the number they hold.                         *)
LEMMA GroupsMakeTheirNumber ==
  ASSUME NEW n \in Int, NEW count \in 1..MAX_LEB, NEW left \in [0..count -> Int],
         left[count] = 0,
         \A i \in 1..count : left[i - 1] = Part(n, i) + 128 * left[i]
  PROVE  FromDigits(128, [i \in 1..count |-> Part(n, i)]) = Wrap(left[0])
<1> DEFINE digits == [i \in 1..count |-> Part(n, i)]
<1>1. count \in Nat /\ 1..count \subseteq 1..MAX_LEB
  BY ReaderAssumption DEF MAX_LEB
<1>2. \A i \in 1..count : Part(n, i) \in Nat
  <2> TAKE i \in 1..count
  <2>1. i \in 1..MAX_LEB
    BY <1>1
  <2> DEFINE p == Part(n, i)
  <2>2. p \in 0..127
    BY <2>1, NextPart
  <2> HIDE DEF p
  <2>3. p \in Nat
    BY <2>2
  <2> QED
    BY <2>3 DEF p
<1>3. digits \in [1..count -> Nat] /\ \A i \in 1..count : digits[i] = Part(n, i)
  BY <1>2
<1> HIDE DEF digits
<1>4. \A i \in 1..count : left[i - 1] = digits[i] + 128 * left[i]
  BY <1>3
<1>5. left \in [0..count -> Int] /\ left[count] = 0 /\ 128 \in Nat
  OBVIOUS
<1> DEFINE base == 128
<1>6. base \in Nat /\ \A i \in 1..count : left[i - 1] = digits[i] + base * left[i]
  BY <1>4
<1> HIDE DEF base
<1>7. FromDigits(base, digits) = Wrap(left[0])
  BY <1>1, <1>3, <1>5, <1>6, DigitsMakeTheirNumber
<1> QED
  BY <1>7 DEF digits, base

(* The exponents of the groups are ones whose powers are known.              *)
LEMMA GroupPowers ==
  /\ WIDTH \in Nat /\ WIDTH > 7 /\ MAX_LEB \in Nat /\ MAX_LEB > 0
  /\ 7 * MAX_LEB >= WIDTH /\ 7 * MAX_LEB <= WIDTH + 6
  /\ \A k \in 1..MAX_LEB : 7 * k \in 7..(WIDTH + 6) /\ 2^(7 * k) \in Nat \ {0}
                           /\ 2^(7 * k - 1) \in Nat \ {0} /\ 2^(7 * k) = 2 * 2^(7 * k - 1)
  /\ \A j, k \in 1..MAX_LEB : j <= k => 2^(7 * j) <= 2^(7 * k) /\ 2^(7 * j - 1) <= 2^(7 * k - 1)
<1> DEFINE P(k) == 2^k
<1>1. /\ WIDTH \in Nat /\ WIDTH > 7 /\ MAX_LEB \in Nat /\ MAX_LEB > 0
      /\ 7 * MAX_LEB >= WIDTH /\ 7 * MAX_LEB <= WIDTH + 6
  BY ReaderAssumption DEF MAX_LEB
<1>2. /\ \A k \in 0..(WIDTH + 6) : P(k) \in Nat \ {0}
      /\ \A k \in 0..(WIDTH + 5) : P(k + 1) = 2 * P(k)
      /\ \A j, k \in 0..(WIDTH + 6) : j < k => 2 * P(j) <= P(k)
  BY PowersArePositive, PowersAscend, ReaderAssumption
<1> HIDE DEF P
<1>3. \A j, k \in 0..(WIDTH + 6) : j <= k => P(j) <= P(k)
  <2> TAKE j, k \in 0..(WIDTH + 6)
  <2>1. P(j) \in Nat /\ P(k) \in Nat /\ (j < k => 2 * P(j) <= P(k))
    BY <1>2
  <2> QED
    BY <1>1, <2>1
<1>4. ASSUME NEW k \in 1..MAX_LEB
      PROVE  /\ 7 * k \in 7..(WIDTH + 6) /\ 7 * k \in 0..(WIDTH + 6)
             /\ 7 * k - 1 \in 0..(WIDTH + 5) /\ 7 * k - 1 \in 0..(WIDTH + 6)
             /\ (7 * k - 1) + 1 = 7 * k
  BY <1>1
<1>5. ASSUME NEW k \in 1..MAX_LEB
      PROVE  P(7 * k) \in Nat \ {0} /\ P(7 * k - 1) \in Nat \ {0} /\ P(7 * k) = 2 * P(7 * k - 1)
  <2>1. P((7 * k - 1) + 1) = 2 * P(7 * k - 1)
    BY <1>2, <1>4
  <2> QED
    BY <1>2, <1>4, <2>1
<1>6. ASSUME NEW j \in 1..MAX_LEB, NEW k \in 1..MAX_LEB, j <= k
      PROVE  P(7 * j) <= P(7 * k) /\ P(7 * j - 1) <= P(7 * k - 1)
  <2>1. 7 * j <= 7 * k /\ 7 * j - 1 <= 7 * k - 1
    BY <1>1, <1>6
  <2> QED
    BY <1>3, <1>4, <2>1
<1> QED
  BY <1>1, <1>4, <1>5, <1>6 DEF P

(* A number fits the groups the producer takes, padded or not.               *)
LEMMA NumberFitsItsGroups ==
  ASSUME NEW n \in Number, NEW padding \in Nat, UlebGroups(n) + padding <= MAX_LEB
  PROVE  /\ UlebGroups(n) + padding \in 1..MAX_LEB
         /\ n < 2^(7 * (UlebGroups(n) + padding))
<1> DEFINE fitting == {k \in 1..MAX_LEB : n < 2^(7 * k)}
           P(k) == 2^k
           groups == UlebGroups(n)
           count == groups + padding
<1>1. /\ MAX_LEB \in Nat /\ MAX_LEB > 0 /\ WIDTH \in Nat
      /\ 7 * MAX_LEB >= WIDTH /\ 7 * MAX_LEB <= WIDTH + 6
      /\ \A k \in 1..MAX_LEB : P(7 * k) \in Nat \ {0}
      /\ \A j, k \in 1..MAX_LEB : j <= k => P(7 * j) <= P(7 * k)
  BY GroupPowers
<1>2. n \in Nat /\ n < P(WIDTH) /\ P(WIDTH) \in Nat
  <2> DEFINE M == P(WIDTH)
  <2>1. M \in Nat /\ n \in 0..(M - 1)
    BY WrapFacts DEF Number
  <2> HIDE DEF M
  <2>2. n \in Nat /\ n < M
    BY <2>1
  <2> QED
    BY <2>1, <2>2 DEF M
<1>3. \A j, k \in 0..(WIDTH + 6) : j < k => 2 * P(j) <= P(k)
  BY PowersAscend
<1> HIDE DEF P
<1>4. n < P(7 * MAX_LEB)
  <2>1. WIDTH \in 0..(WIDTH + 6) /\ 7 * MAX_LEB \in 0..(WIDTH + 6) /\ MAX_LEB \in 1..MAX_LEB
    BY <1>1
  <2>2. WIDTH < 7 * MAX_LEB => 2 * P(WIDTH) <= P(7 * MAX_LEB)
    BY <1>3, <2>1
  <2>3. P(7 * MAX_LEB) \in Nat
    BY <1>1, <2>1
  <2>4. WIDTH < 7 * MAX_LEB \/ WIDTH = 7 * MAX_LEB
    BY <1>1
  <2> QED
    BY <1>2, <2>2, <2>3, <2>4
<1>5. MAX_LEB \in fitting
  BY <1>1, <1>4 DEF P
<1>6. groups = CHOOSE x \in fitting : \A y \in fitting : x =< y
  BY DEF UlebGroups, Min
<1>7. fitting \in SUBSET Nat /\ \A k \in fitting : k \in 1..MAX_LEB /\ n < P(7 * k)
  BY <1>1 DEF P
<1> HIDE DEF fitting, groups
<1>8. groups \in fitting
  <2>1. \E x \in fitting : \A y \in fitting : x <= y
    BY <1>5, <1>7, LeastNatural
  <2> QED
    BY <1>6, <2>1
<1>9. groups \in 1..MAX_LEB /\ n < P(7 * groups)
  BY <1>7, <1>8
<1>10. count \in 1..MAX_LEB /\ groups <= count
  BY <1>1, <1>9 DEF groups
<1>11. P(7 * groups) <= P(7 * count) /\ P(7 * groups) \in Nat /\ P(7 * count) \in Nat
  BY <1>1, <1>9, <1>10
<1> HIDE DEF count
<1>12. n < P(7 * count)
  BY <1>2, <1>9, <1>11
<1> QED
  BY <1>10, <1>12 DEF P, count, groups

(* What is left of a number before the first group is the number.            *)
LEMMA AllIsLeft ==
  ASSUME NEW n \in Int
  PROVE  LeftOf(n, 7, 0) = n
<1>1. 7 * 0 = 0 /\ 2^0 = 1
  OBVIOUS
<1>2. LeftOf(n, 7, 0) = n \div 1
  BY <1>1 DEF LeftOf
<1> QED
  BY <1>2

(* Groups that a number which is not negative fits make that number.         *)
LEMMA GroupsMakeNumber ==
  ASSUME NEW n \in Number, NEW count \in 1..MAX_LEB, n < 2^(7 * count)
  PROVE  FromDigits(128, [i \in 1..count |-> Part(n, i)]) = n
<1> DEFINE left == [i \in 0..count |-> LeftOf(n, 7, i)]
           p == 2^(7 * count)
<1>1. n \in Nat /\ p \in Nat \ {0} /\ n < p
  BY GroupPowers, WrapFacts DEF Number
<1>2. count \in Nat /\ 1..count \subseteq 1..MAX_LEB /\ count > 0
  BY GroupPowers
<1>3. LeftOf(n, 7, 0) = n
  BY <1>1, AllIsLeft
<1>4. LeftOf(n, 7, count) = 0
  <2>1. LeftOf(n, 7, count) = n \div p
    BY DEF LeftOf
  <2> HIDE DEF p
  <2>2. n \div p = 0
    BY <1>1
  <2> QED
    BY <2>1, <2>2
<1>5. \A i \in 1..count : /\ LeftOf(n, 7, i) \in Int
                          /\ LeftOf(n, 7, i - 1) = Part(n, i) + 128 * LeftOf(n, 7, i)
  <2>1. n \in Int
    BY <1>1
  <2> TAKE i \in 1..count
  <2>2. i \in 1..MAX_LEB
    BY <1>2
  <2> HIDE DEF LeftOf
  <2> QED
    BY <2>1, <2>2, NextPart
<1>6. /\ \A i \in 0..count : left[i] = LeftOf(n, 7, i)
      /\ DOMAIN left = 0..count /\ left = [i \in 0..count |-> left[i]]
  OBVIOUS
<1> HIDE DEF left, p, LeftOf
<1>7. \A i \in 0..count : left[i] \in Int
  <2> TAKE i \in 0..count
  <2>1. CASE i = 0
    BY <1>1, <1>3, <1>6, <2>1
  <2>2. CASE i # 0
    <3>1. i \in 1..count
      BY <1>2, <2>2
    <3> QED
      BY <1>5, <1>6, <3>1
  <2> QED
    BY <2>1, <2>2
<1>8. left \in [0..count -> Int]
  BY <1>6, <1>7
<1>9. 0 \in 0..count /\ count \in 0..count
      /\ \A i \in 1..count : i \in 0..count /\ i - 1 \in 0..count
  BY <1>2
<1>10. left[0] = n /\ left[count] = 0
  BY <1>3, <1>4, <1>6, <1>9
<1>11. \A i \in 1..count : left[i - 1] = Part(n, i) + 128 * left[i]
  <2> TAKE i \in 1..count
  <2>1. left[i - 1] = LeftOf(n, 7, i - 1) /\ left[i] = LeftOf(n, 7, i)
    BY <1>6, <1>9
  <2> QED
    BY <1>5, <2>1
<1>12. FromDigits(128, [i \in 1..count |-> Part(n, i)]) = Wrap(left[0])
  <2>1. n \in Int /\ count \in 1..MAX_LEB /\ left[count] = 0
    BY <1>1, <1>10
  <2> QED
    BY <1>8, <1>11, <2>1, GroupsMakeTheirNumber, Zenon
<1> QED
  BY <1>10, <1>12, WrapFacts

(* read_uleb128 reads back every number that a producer can write, padded or *)
(* not, and leaves what follows it.                                          *)
THEOREM UnsignedReadsBack ==
  ASSUME NEW n \in Number, NEW padding \in Nat, UlebGroups(n) + padding <= MAX_LEB,
         NEW rest \in Seq(Byte)
  PROVE  read_uleb128(Uleb(n, padding) \o rest) = ReadResult("READ_OK", n, rest)
<1> DEFINE count == UlebGroups(n) + padding
           r == Uleb(n, padding) \o rest
<1>1. count \in 1..MAX_LEB /\ n < 2^(7 * count)
  BY NumberFitsItsGroups
<1>2. r = Groups(n, count) \o rest
  BY DEF Uleb
<1>3. n \in Int
  BY WrapFacts DEF Number
<1> HIDE DEF count
<1>4. FromDigits(128, [i \in 1..count |-> Part(n, i)]) = n
  BY <1>1, GroupsMakeNumber
<1>5. Leb(r).status = "READ_OK" /\ Leb(r).consumed = count /\ Leb(r).value = n
  BY <1>1, <1>2, <1>3, <1>4, GroupsAreRead
<1>6. advance_reader(r, count) = rest
  BY <1>1, <1>2, <1>3, GroupsAreBytes
<1> HIDE DEF r
<1> QED
  BY <1>5, <1>6 DEF read_uleb128, r

(* The numbers of a signed integer.                                          *)
SignedNumber == -(2^(WIDTH - 1))..(2^(WIDTH - 1) - 1)

(* The greatest of them and what all bits make.                              *)
LEMMA SignedFacts ==
  /\ 2^(WIDTH - 1) \in Nat \ {0} /\ 2^WIDTH = 2 * 2^(WIDTH - 1)
  /\ \A n \in SignedNumber : n \in Int /\ -(2^(WIDTH - 1)) <= n /\ n < 2^(WIDTH - 1)
<1> DEFINE P(k) == 2^k
           H == P(WIDTH - 1)
<1>1. WIDTH - 1 \in 0..(WIDTH + 6) /\ WIDTH - 1 \in 0..(WIDTH + 5) /\ (WIDTH - 1) + 1 = WIDTH
  BY ReaderAssumption
<1>2. /\ \A k \in 0..(WIDTH + 6) : P(k) \in Nat \ {0}
      /\ \A k \in 0..(WIDTH + 5) : P(k + 1) = 2 * P(k)
  BY PowersArePositive, ReaderAssumption
<1> HIDE DEF P
<1>3. H \in Nat \ {0} /\ P(WIDTH) = 2 * H
  <2>1. P((WIDTH - 1) + 1) = 2 * P(WIDTH - 1)
    BY <1>1, <1>2
  <2> QED
    BY <1>1, <1>2, <2>1
<1> HIDE DEF H
<1>4. \A n \in -H..(H - 1) : n \in Int /\ -H <= n /\ n < H
  BY <1>3
<1> QED
  BY <1>3, <1>4 DEF H, P, SignedNumber

(* A signed number fits the groups the producer takes, padded or not.        *)
LEMMA SignedFitsItsGroups ==
  ASSUME NEW n \in SignedNumber, NEW padding \in Nat, SlebGroups(n) + padding <= MAX_LEB
  PROVE  /\ SlebGroups(n) + padding \in 1..MAX_LEB
         /\ -(2^(7 * (SlebGroups(n) + padding) - 1)) <= n
         /\ n < 2^(7 * (SlebGroups(n) + padding) - 1)
<1> DEFINE fitting == {k \in 1..MAX_LEB : -(2^(7 * k - 1)) <= n /\ n < 2^(7 * k - 1)}
           P(k) == 2^k
           groups == SlebGroups(n)
           count == groups + padding
<1>1. /\ MAX_LEB \in Nat /\ MAX_LEB > 0 /\ WIDTH \in Nat /\ WIDTH > 7
      /\ 7 * MAX_LEB >= WIDTH /\ 7 * MAX_LEB <= WIDTH + 6
      /\ \A k \in 1..MAX_LEB : P(7 * k - 1) \in Nat \ {0}
      /\ \A j, k \in 1..MAX_LEB : j <= k => P(7 * j - 1) <= P(7 * k - 1)
  BY GroupPowers
<1>2. n \in Int /\ -P(WIDTH - 1) <= n /\ n < P(WIDTH - 1) /\ P(WIDTH - 1) \in Nat
  BY SignedFacts
<1>3. \A j, k \in 0..(WIDTH + 6) : j < k => 2 * P(j) <= P(k)
  BY PowersAscend
<1> HIDE DEF P
<1>4. -P(7 * MAX_LEB - 1) <= n /\ n < P(7 * MAX_LEB - 1)
  <2>1. /\ WIDTH - 1 \in 0..(WIDTH + 6) /\ 7 * MAX_LEB - 1 \in 0..(WIDTH + 6)
        /\ MAX_LEB \in 1..MAX_LEB
    BY <1>1
  <2>2. WIDTH - 1 < 7 * MAX_LEB - 1 => 2 * P(WIDTH - 1) <= P(7 * MAX_LEB - 1)
    BY <1>3, <2>1
  <2>3. P(7 * MAX_LEB - 1) \in Nat
    BY <1>1, <2>1
  <2>4. WIDTH - 1 < 7 * MAX_LEB - 1 \/ WIDTH - 1 = 7 * MAX_LEB - 1
    BY <1>1
  <2> QED
    BY <1>2, <2>2, <2>3, <2>4
<1>5. MAX_LEB \in fitting
  BY <1>1, <1>4 DEF P
<1>6. groups = CHOOSE x \in fitting : \A y \in fitting : x =< y
  BY DEF SlebGroups, Min
<1>7. /\ fitting \in SUBSET Nat
      /\ \A k \in fitting : k \in 1..MAX_LEB /\ -P(7 * k - 1) <= n /\ n < P(7 * k - 1)
  BY <1>1 DEF P
<1> HIDE DEF fitting, groups
<1>8. groups \in fitting
  <2>1. \E x \in fitting : \A y \in fitting : x <= y
    BY <1>5, <1>7, LeastNatural
  <2> QED
    BY <1>6, <2>1
<1>9. groups \in 1..MAX_LEB /\ -P(7 * groups - 1) <= n /\ n < P(7 * groups - 1)
  BY <1>7, <1>8
<1>10. count \in 1..MAX_LEB /\ groups <= count
  BY <1>1, <1>9 DEF groups
<1>11. /\ P(7 * groups - 1) <= P(7 * count - 1)
       /\ P(7 * groups - 1) \in Nat /\ P(7 * count - 1) \in Nat
  BY <1>1, <1>9, <1>10
<1> HIDE DEF count
<1>12. -P(7 * count - 1) <= n /\ n < P(7 * count - 1)
  BY <1>2, <1>9, <1>11
<1> QED
  BY <1>10, <1>12 DEF P, count, groups

(* The quotient of what is less than 64 times the divisor.                   *)
LEMMA SmallQuotient ==
  ASSUME NEW n \in Int, NEW e \in Nat \ {0}, -(64 * e) <= n, n < 64 * e
  PROVE  n \div e \in -64..63
<1> DEFINE q == n \div e
           s == n % e
<1>1. q \in Int /\ s \in 0..(e - 1) /\ n = e * q + s
  BY QuotientAndRemainder
<1> HIDE DEF q, s
<1>2. ASSUME q >= 64 PROVE FALSE
  <2>1. e * q >= e * 64
    BY <1>1, <1>2
  <2> QED
    BY <1>1, <2>1
<1>3. ASSUME q <= -65 PROVE FALSE
  <2>1. e * q <= e * (-65)
    BY <1>1, <1>3
  <2> QED
    BY <1>1, <2>1
<1>4. q \in -64..63
  BY <1>1, <1>2, <1>3
<1> QED
  BY <1>4 DEF q

(* The last group of a signed number has its sign: behind it there is nothing*)
(* left, or as much as of -1.                                                *)
LEMMA LastGroupHasTheSign ==
  ASSUME NEW n \in Int, NEW count \in 1..MAX_LEB,
         -(2^(7 * count - 1)) <= n, n < 2^(7 * count - 1)
  PROVE  /\ n < 0 => Part(n, count) >= 64 /\ LeftOf(n, 7, count) = -1
         /\ n >= 0 => Part(n, count) < 64 /\ LeftOf(n, 7, count) = 0
<1> DEFINE P(k) == 2^k
           j == 7 * (count - 1)
           e == P(j)
           h == P(7 * count - 1)
           p == P(7 * count)
<1>1. h \in Nat \ {0} /\ p = 2 * h /\ -h <= n /\ n < h
  BY GroupPowers
<1>2. j \in Nat /\ j + 6 = 7 * count - 1 /\ j + 6 \in 0..(WIDTH + 6) /\ j \in 0..(WIDTH + 6)
  BY GroupPowers
<1>3. P(6) = 64
  <2>1. 6 \in 0..(WIDTH + 5) /\ 6 + 1 = 7
    BY ReaderAssumption
  <2>2. P(6 + 1) = 2 * P(6) /\ P(7) = 128
    BY <2>1, ReaderAssumption, PowersAscend
  <2>3. P(6) \in Nat
    <3>1. 6 \in 0..(WIDTH + 6)
      BY ReaderAssumption
    <3> QED
      BY <3>1, PowersArePositive
  <2> HIDE DEF P
  <2> QED
    BY <2>1, <2>2, <2>3
<1>4. P(j + 6) = P(j) * P(6) /\ P(j) \in Nat \ {0}
  <2>1. 6 \in Nat
    OBVIOUS
  <2> HIDE DEF j
  <2> QED
    BY <1>2, <2>1, PowersMultiply, PowersArePositive
<1>5. LeftOf(n, 7, count - 1) = n \div e /\ LeftOf(n, 7, count) = n \div p
  BY DEF LeftOf
<1> HIDE DEF P, j
<1>6. e \in Nat \ {0} /\ h = 64 * e
  BY <1>2, <1>3, <1>4
<1> HIDE DEF e, h, p
<1>7. n \div e \in -64..63
  BY <1>1, <1>6, SmallQuotient
<1>8. /\ n < 0 => n \div p = -1
      /\ n >= 0 => n \div p = 0
  BY <1>1
<1> DEFINE part == Part(n, count)
           x == LeftOf(n, 7, count - 1)
           y == LeftOf(n, 7, count)
<1>9. part \in 0..127 /\ x = part + 128 * y
  BY NextPart
<1>10. x \in -64..63 /\ (n < 0 => y = -1) /\ (n >= 0 => y = 0)
  BY <1>5, <1>7, <1>8
<1> HIDE DEF part, x, y
<1>11. (n < 0 => part >= 64) /\ (n >= 0 => part < 64)
  BY <1>9, <1>10
<1> QED
  BY <1>10, <1>11 DEF part, y

(* The groups of a negative number make the number that is as far above zero *)
(* as it is below the power of two of all their bits.                        *)
LEMMA GroupsMakeComplement ==
  ASSUME NEW n \in Int, NEW count \in 1..MAX_LEB, LeftOf(n, 7, count) = -1
  PROVE  FromDigits(128, [i \in 1..count |-> Part(n, i)]) = Wrap(n + 2^(7 * count))
<1> DEFINE P(k) == 2^k
           left == [i \in 0..count |-> LeftOf(n, 7, i) + P(7 * (count - i))]
<1>1. count \in Nat /\ 1..count \subseteq 1..MAX_LEB /\ count > 0 /\ 7 * count <= WIDTH + 6
      /\ WIDTH \in Nat
  BY GroupPowers
<1>2. LeftOf(n, 7, 0) = n
  BY AllIsLeft
<1>3. \A i \in 0..count : 7 * (count - i) \in 0..(WIDTH + 6)
  BY <1>1
<1>4. \A i \in 0..count : P(7 * (count - i)) \in Nat
  BY <1>3, PowersArePositive
<1>5. ASSUME NEW i \in 1..count
      PROVE  /\ LeftOf(n, 7, i) \in Int
             /\ LeftOf(n, 7, i - 1) = Part(n, i) + 128 * LeftOf(n, 7, i)
             /\ P(7 * (count - (i - 1))) = P(7 * (count - i)) * 128
  <2>1. i \in 1..MAX_LEB
    BY <1>1
  <2>2. /\ LeftOf(n, 7, i) \in Int
        /\ LeftOf(n, 7, i - 1) = Part(n, i) + 128 * LeftOf(n, 7, i)
    BY <2>1, NextPart
  <2> DEFINE k == 7 * (count - i)
  <2>3. k \in Nat /\ k + 7 = 7 * (count - (i - 1)) /\ k + 7 \in 0..(WIDTH + 6) /\ 7 \in Nat
    BY <1>1
  <2> HIDE DEF k
  <2>4. P(k + 7) = P(k) * P(7) /\ P(7) = 128
    <3>1. P(k + 7) = P(k) * P(7)
      BY <2>3, PowersMultiply, Zenon
    <3>2. P(7) = 128
      BY PowersAscend
    <3> QED
      BY <3>1, <3>2
  <2> HIDE DEF P, LeftOf, Part
  <2>5. P(7 * (count - (i - 1))) = P(7 * (count - i)) * 128
    BY <2>3, <2>4 DEF k
  <2> QED
    BY <2>2, <2>5
<1>6. /\ \A i \in 0..count : left[i] = LeftOf(n, 7, i) + P(7 * (count - i))
      /\ DOMAIN left = 0..count /\ left = [i \in 0..count |-> left[i]]
  OBVIOUS
<1>7. P(0) = 1
  OBVIOUS
<1> HIDE DEF left, P, LeftOf
<1>8. \A i \in 0..count : left[i] \in Int
  <2> TAKE i \in 0..count
  <2>1. LeftOf(n, 7, i) \in Int
    <3>1. CASE i = 0
      BY <1>2, <3>1
    <3>2. CASE i # 0
      <4>1. i \in 1..count
        BY <1>1, <3>2
      <4> QED
        BY <1>5, <4>1
    <3> QED
      BY <3>1, <3>2
  <2> QED
    BY <1>4, <1>6, <2>1
<1>9. left \in [0..count -> Int]
  BY <1>6, <1>8
<1>10. 0 \in 0..count /\ count \in 0..count
       /\ 7 * (count - 0) = 7 * count /\ 7 * (count - count) = 0
       /\ \A i \in 1..count : i \in 0..count /\ i - 1 \in 0..count
  BY <1>1
<1>11. left[0] = n + P(7 * count)
  BY <1>2, <1>6, <1>10
<1>12. left[count] = 0
  <2>1. left[count] = LeftOf(n, 7, count) + P(0)
    BY <1>6, <1>10
  <2> QED
    BY <1>7, <2>1
<1>13. \A i \in 1..count : left[i - 1] = Part(n, i) + 128 * left[i]
  <2> TAKE i \in 1..count
  <2> DEFINE part == Part(n, i)
             next == LeftOf(n, 7, i)
             power == P(7 * (count - i))
  <2>1. left[i - 1] = LeftOf(n, 7, i - 1) + P(7 * (count - (i - 1))) /\ left[i] = next + power
    BY <1>6, <1>10
  <2>2. power \in Nat /\ next \in Int
    BY <1>4, <1>5, <1>10
  <2>3. i \in 1..MAX_LEB
    BY <1>1
  <2>4. part \in 0..127
    BY <2>3, NextPart
  <2>5. LeftOf(n, 7, i - 1) = part + 128 * next /\ P(7 * (count - (i - 1))) = power * 128
    BY <1>5
  <2> HIDE DEF part, next, power
  <2>6. (part + 128 * next) + power * 128 = part + 128 * (next + power)
    BY <2>2, <2>4
  <2>7. left[i - 1] = part + 128 * left[i]
    BY <2>1, <2>5, <2>6
  <2> QED
    BY <2>7 DEF part
<1>14. FromDigits(128, [i \in 1..count |-> Part(n, i)]) = Wrap(left[0])
  <2>1. n \in Int /\ count \in 1..MAX_LEB
    OBVIOUS
  <2> QED
    BY <1>9, <1>12, <1>13, <2>1, GroupsMakeTheirNumber, Zenon
<1> QED
  BY <1>11, <1>14 DEF P

(* read_sleb128 reads back every signed number that a producer can write,    *)
(* padded or not, and leaves what follows it: the sign is extended from the  *)
(* last group, unless the groups fill all bits.                              *)
THEOREM SignedReadsBack ==
  ASSUME NEW n \in SignedNumber, NEW padding \in Nat, SlebGroups(n) + padding <= MAX_LEB,
         NEW rest \in Seq(Byte)
  PROVE  read_sleb128(Sleb(n, padding) \o rest) = ReadResult("READ_OK", n, rest)
<1> DEFINE count == SlebGroups(n) + padding
           r == Sleb(n, padding) \o rest
           leb == Leb(r)
           M == 2^WIDTH
           H == 2^(WIDTH - 1)
           h == 2^(7 * count - 1)
           p == 2^(7 * count)
           made == FromDigits(128, [i \in 1..count |-> Part(n, i)])
           negative == /\ leb.status = "READ_OK"
                       /\ leb.consumed * 7 < WIDTH
                       /\ r[leb.consumed] % 128 >= 64
<1>1. count \in 1..MAX_LEB /\ -h <= n /\ n < h
  BY SignedFitsItsGroups
<1>2. r = Groups(n, count) \o rest
  BY DEF Sleb
<1>3. n \in Int /\ -H <= n /\ n < H /\ H \in Nat \ {0} /\ M = 2 * H
  BY SignedFacts
<1>4. read_sleb128(r) =
        ReadResult(leb.status, IF negative THEN leb.value - 2^(7 * leb.consumed)
                                           ELSE Signed(leb.value),
                   advance_reader(r, leb.consumed))
  BY DEF read_sleb128
<1> HIDE DEF count, r
<1>5. leb.status = "READ_OK" /\ leb.consumed = count /\ leb.value = made
  BY <1>1, <1>2, <1>3, GroupsAreRead
<1> HIDE DEF leb
<1>6. /\ advance_reader(r, count) = rest
      /\ r[count] = Part(n, count) + (IF count < count THEN 128 ELSE 0)
  <2>1. count \in 1..count
    BY <1>1, GroupPowers
  <2>2. n \in Int /\ count \in 1..MAX_LEB
    BY <1>1, <1>3
  <2>3. /\ \A i \in 1..count : r[i] = Part(n, i) + (IF i < count THEN 128 ELSE 0)
        /\ advance_reader(r, count) = rest
    BY <1>2, <2>2, GroupsAreBytes, Zenon
  <2> QED
    BY <2>1, <2>3, Zenon
<1>7. h \in Nat \ {0} /\ p = 2 * h /\ count \in Nat /\ 7 * count \in 0..(WIDTH + 6)
      /\ WIDTH \in Nat
  BY <1>1, GroupPowers
<1>8. /\ n < 0 => Part(n, count) >= 64 /\ LeftOf(n, 7, count) = -1
      /\ n >= 0 => Part(n, count) < 64
      /\ Part(n, count) \in 0..127
  BY <1>1, <1>3, LastGroupHasTheSign, NextPart
<1>9. r[count] % 128 = Part(n, count)
  <2> DEFINE part == Part(n, count)
  <2>1. part \in 0..127 /\ r[count] = part + 0
    BY <1>6, <1>7, <1>8
  <2> HIDE DEF part
  <2>2. r[count] % 128 = part
    BY <2>1
  <2> QED
    BY <2>2 DEF part
<1>10. negative <=> (7 * count < WIDTH /\ n < 0)
  <2>1. negative <=> (count * 7 < WIDTH /\ Part(n, count) >= 64)
    BY <1>5, <1>9
  <2>2. (Part(n, count) >= 64) <=> n < 0
    <3> DEFINE part == Part(n, count)
    <3>1. part \in 0..127 /\ (n < 0 => part >= 64) /\ (n >= 0 => part < 64)
      BY <1>8
    <3> HIDE DEF part
    <3>2. (part >= 64) <=> n < 0
      BY <1>3, <3>1
    <3> QED
      BY <3>2 DEF part
  <2>3. (count * 7 < WIDTH) <=> (7 * count < WIDTH)
    BY <1>7
  <2> QED
    BY <2>1, <2>2, <2>3
<1> HIDE DEF negative
<1>11. (IF negative THEN leb.value - 2^(7 * leb.consumed) ELSE Signed(leb.value)) = n
  <2>1. /\ \A x : Wrap(x) = x % M
        /\ \A x : Signed(x) = IF x < H THEN x ELSE x - M
        /\ 2^(7 * count) = p
    BY DEF Wrap, Signed
  <2>2. CASE n >= 0
    <3>1. n \in Number /\ n < p
      <4>1. n \in 0..(M - 1) /\ n < p
        <5> HIDE DEF M, H, h, p
        <5> QED
          BY <1>1, <1>3, <1>7, <2>2
      <4> QED
        BY <4>1 DEF Number
    <3>2. made = n
      BY <1>1, <3>1, GroupsMakeNumber
    <3> HIDE DEF made, M, H, h, p
    <3>3. ~negative
      BY <1>3, <1>10, <2>2
    <3>4. Signed(n) = n
      BY <1>3, <2>1
    <3> QED
      BY <1>5, <3>2, <3>3, <3>4
  <2>3. CASE n < 0
    <3>1. made = Wrap(n + p)
      BY <1>1, <1>3, <1>8, <2>3, GroupsMakeComplement
    <3>2. CASE 7 * count < WIDTH
      <4>1. 2 * p <= M
        <5>1. WIDTH \in 0..(WIDTH + 6)
          BY <1>7
        <5> QED
          BY <1>7, <3>2, <5>1, PowersAscend
      <4> HIDE DEF made, M, H, h, p
      <4>2. n + p \in 0..(M - 1)
        BY <1>1, <1>3, <1>7, <2>3, <4>1
      <4>3. Wrap(n + p) = n + p
        BY <1>3, <2>1, <4>2
      <4>4. (n + p) - p = n
        BY <1>3, <1>7
      <4>5. negative
        BY <1>10, <2>3, <3>2
      <4> QED
        BY <1>5, <2>1, <3>1, <4>3, <4>4, <4>5
    <3>3. CASE ~(7 * count < WIDTH)
      <4> DEFINE k == 7 * count - WIDTH
                 t == 2^k
      <4>1. k \in Nat /\ WIDTH + k = 7 * count /\ WIDTH + k \in 0..(WIDTH + 6)
            /\ k \in 0..(WIDTH + 6)
        BY <1>7, <3>3
      <4> HIDE DEF k
      <4>2. p = M * t
        <5>1. 2^(WIDTH + k) = 2^WIDTH * 2^k
          BY <1>7, <4>1, PowersMultiply
        <5> QED
          BY <4>1, <5>1
      <4>3. t \in Nat
        BY <4>1, PowersArePositive
      <4> HIDE DEF made, M, H, h, p, t
      <4> DEFINE x == n + M
                 y == t - 1
      <4>4. x \in 0..(M - 1) /\ y \in Int /\ M \in Nat /\ M > 0 /\ x >= H
        BY <1>3, <2>3, <4>3
      <4>5. n + p = M * y + x
        <5>1. M * (t - 1) = M * t - M
          BY <1>3, <4>3
        <5> QED
          BY <1>3, <4>2, <4>3, <5>1
      <4>6. x - M = n
        BY <1>3
      <4> HIDE DEF x, y
      <4>7. (M * y + x) % M = x
        BY <4>4, QuotientIsUnique
      <4>8. made = x
        BY <2>1, <3>1, <4>5, <4>7
      <4>9. Signed(x) = n
        BY <1>3, <2>1, <4>4, <4>6
      <4>10. ~negative
        BY <1>10, <3>3
      <4> QED
        BY <1>5, <4>8, <4>9, <4>10
    <3> QED
      BY <3>2, <3>3
  <2> QED
    BY <1>3, <2>2, <2>3
<1>12. read_sleb128(r) = ReadResult("READ_OK", n, rest)
  BY <1>4, <1>5, <1>6, <1>11
<1> QED
  BY <1>12 DEF r

(* The bytes that a number of fixed length has in all, and in use.           *)
Words(bytes) == IF bytes <= WIDTH \div 8 THEN bytes ELSE WIDTH \div 8

(* The bytes the producer writes make the number they are of.                *)
LEMMA BytesMakeTheirNumber ==
  ASSUME NEW bytes \in Nat, NEW n \in Nat, n < 2^(8 * Words(bytes))
  PROVE  /\ Fixed(n, bytes) \in [1..bytes -> Byte]
         /\ FromDigits(256, Fixed(n, bytes)) = n
<1> DEFINE words == Words(bytes)
           P(k) == 2^k
           digits == Fixed(n, bytes)
           left == [i \in 0..bytes |-> IF i <= words THEN LeftOf(n, 8, i) ELSE 0]
           base == 256
<1>1. /\ words \in Nat /\ words <= bytes /\ 8 * words <= WIDTH /\ WIDTH \in Nat /\ WIDTH > 7
      /\ \A i \in 1..bytes : i <= WIDTH \div 8 <=> i <= words
  BY ReaderAssumption DEF Words
<1>2. digits = [i \in 1..bytes |-> IF i <= WIDTH \div 8 THEN LeftOf(n, 8, i - 1) % 256 ELSE 0]
  BY DEF Fixed, LeftOf
<1>3. n < P(8 * words) /\ P(8 * words) \in Nat \ {0}
  <2>1. 8 * words \in 0..(WIDTH + 6)
    BY <1>1
  <2> HIDE DEF words
  <2> QED
    BY <2>1, PowersArePositive DEF words
<1> HIDE DEF words, digits
<1>4. \A i \in 1..words : /\ LeftOf(n, 8, i) \in Int /\ LeftOf(n, 8, i - 1) \in Int
                          /\ LeftOf(n, 8, i - 1)
                               = (LeftOf(n, 8, i - 1) % 256) + 256 * LeftOf(n, 8, i)
                          /\ LeftOf(n, 8, i - 1) % 256 \in 0..255
  <2> TAKE i \in 1..words
  <2> DEFINE b == 2^8
  <2>1. i \in Nat \ {0} /\ 8 * i <= WIDTH + 6 /\ 8 \in Nat \ {0} /\ n \in Int
    BY <1>1
  <2> HIDE DEF LeftOf
  <2>2. /\ LeftOf(n, 8, i) \in Int /\ LeftOf(n, 8, i - 1) \in Int
        /\ LeftOf(n, 8, i - 1) = (LeftOf(n, 8, i - 1) % b) + b * LeftOf(n, 8, i)
        /\ LeftOf(n, 8, i - 1) % b \in 0..(b - 1)
    BY <2>1, NextDigit
  <2>3. b = 256
    BY PowersAscend
  <2> HIDE DEF b
  <2> QED
    BY <2>2, <2>3
<1>5. LeftOf(n, 8, 0) = n
  <2>1. 8 * 0 = 0 /\ 2^0 = 1
    OBVIOUS
  <2>2. LeftOf(n, 8, 0) = n \div 1
    BY <2>1 DEF LeftOf
  <2> QED
    BY <2>2
<1>6. LeftOf(n, 8, words) = 0
  <2> DEFINE p == P(8 * words)
  <2>1. LeftOf(n, 8, words) = n \div p
    BY DEF LeftOf
  <2>2. n < p /\ p \in Nat \ {0}
    BY <1>3
  <2> HIDE DEF p
  <2>3. n \div p = 0
    BY <2>2
  <2> QED
    BY <2>1, <2>3
<1> HIDE DEF LeftOf
<1>7. \A i \in 1..bytes : /\ i <= words => digits[i] = LeftOf(n, 8, i - 1) % 256
                          /\ ~(i <= words) => digits[i] = 0
  BY <1>1, <1>2
<1>8. \A i \in 1..bytes : digits[i] \in Byte
  <2> TAKE i \in 1..bytes
  <2>1. CASE i <= words
    <3>1. i \in 1..words
      BY <1>1, <2>1
    <3> QED
      BY <1>4, <1>7, <2>1, <3>1 DEF Byte
  <2>2. CASE ~(i <= words)
    BY <1>7, <2>2 DEF Byte
  <2> QED
    BY <2>1, <2>2
<1>9. digits \in [1..bytes -> Byte]
  <2>1. digits = [i \in 1..bytes |-> digits[i]]
    BY <1>2
  <2> QED
    BY <1>8, <2>1
<1>10. /\ \A i \in 0..bytes : left[i] = IF i <= words THEN LeftOf(n, 8, i) ELSE 0
       /\ left = [i \in 0..bytes |-> left[i]]
  OBVIOUS
<1> HIDE DEF left
<1>11. \A i \in 0..bytes : left[i] \in Int
  <2> TAKE i \in 0..bytes
  <2>1. CASE i <= words /\ i # 0
    <3>1. i \in 1..words
      BY <1>1, <2>1
    <3> QED
      BY <1>4, <1>10, <2>1, <3>1
  <2>2. CASE i = 0
    BY <1>1, <1>5, <1>10, <2>2
  <2>3. CASE ~(i <= words)
    BY <1>10, <2>3
  <2> QED
    BY <2>1, <2>2, <2>3
<1>12. left \in [0..bytes -> Int]
  BY <1>10, <1>11
<1>13. left[0] = n
  <2>1. 0 \in 0..bytes /\ 0 <= words
    BY <1>1
  <2> QED
    BY <1>5, <1>10, <2>1
<1>14. left[bytes] = 0
  <2>1. bytes \in 0..bytes /\ (bytes <= words => bytes = words)
    BY <1>1
  <2>2. CASE bytes <= words
    BY <1>6, <1>10, <2>1, <2>2
  <2>3. CASE ~(bytes <= words)
    BY <1>10, <2>1, <2>3
  <2> QED
    BY <2>2, <2>3
<1>15. \A i \in 1..bytes : left[i - 1] = digits[i] + base * left[i]
  <2> TAKE i \in 1..bytes
  <2>1. i \in 0..bytes /\ i - 1 \in 0..bytes /\ i \in Nat
    OBVIOUS
  <2>2. CASE i <= words
    <3>1. i \in 1..words /\ i - 1 <= words
      BY <1>1, <2>2
    <3>2. left[i - 1] = LeftOf(n, 8, i - 1) /\ left[i] = LeftOf(n, 8, i)
      BY <1>10, <2>1, <2>2, <3>1
    <3> QED
      BY <1>4, <1>7, <2>2, <3>1, <3>2
  <2>3. CASE ~(i <= words)
    <3>1. left[i] = 0 /\ digits[i] = 0
      BY <1>7, <1>10, <2>1, <2>3
    <3>2. left[i - 1] = 0
      <4>1. CASE i - 1 <= words
        <5>1. i - 1 = words
          BY <1>1, <2>1, <2>3, <4>1
        <5> QED
          BY <1>6, <1>10, <2>1, <4>1, <5>1
      <4>2. CASE ~(i - 1 <= words)
        BY <1>10, <2>1, <4>2
      <4> QED
        BY <4>1, <4>2
    <3> QED
      BY <3>1, <3>2
  <2> QED
    BY <2>2, <2>3
<1>16. digits \in [1..bytes -> Nat] /\ base \in Nat
  <2>1. digits \in [1..bytes -> Byte]
    BY <1>9
  <2>2. Byte \subseteq Nat
    BY DEF Byte
  <2> HIDE DEF digits
  <2>3. digits \in [1..bytes -> Nat]
    BY <2>1, <2>2
  <2> QED
    BY <2>3
<1> HIDE DEF base
<1>17. FromDigits(base, digits) = Wrap(left[0])
  BY <1>12, <1>14, <1>15, <1>16, DigitsMakeTheirNumber
<1>18. n \in Number
  <2> DEFINE M == P(WIDTH)
             p == P(8 * words)
  <2>1. M \in Nat /\ p \in Nat /\ n < p
    BY <1>3, WrapFacts
  <2>2. \A j, k \in 0..(WIDTH + 6) : j < k => 2 * P(j) <= P(k)
    BY PowersAscend
  <2>3. 8 * words \in 0..(WIDTH + 6) /\ WIDTH \in 0..(WIDTH + 6)
        /\ (8 * words < WIDTH \/ 8 * words = WIDTH)
    BY <1>1
  <2> HIDE DEF P
  <2>4. 8 * words < WIDTH => 2 * p <= M
    BY <2>2, <2>3
  <2>5. 8 * words = WIDTH => p = M
    OBVIOUS
  <2> HIDE DEF M, p
  <2>6. n \in 0..(M - 1)
    BY <2>1, <2>3, <2>4, <2>5
  <2> QED
    BY <2>6 DEF M, P, Number
<1>19. FromDigits(base, digits) = n
  BY <1>13, <1>17, <1>18, WrapFacts
<1> QED
  BY <1>9, <1>19 DEF digits, base

(* read_bytes reads back every number of fixed length, as long as it fits the*)
(* bytes and a number, and leaves what follows it.                           *)
THEOREM FixedReadsBack ==
  ASSUME NEW bytes \in Nat, NEW n \in Nat, n < 2^(8 * Words(bytes)),
         NEW rest \in Seq(Byte), NEW out
  PROVE  read_bytes(Fixed(n, bytes) \o rest, bytes, out) = ReadResult("READ_OK", n, rest)
<1> DEFINE d == Fixed(n, bytes)
           r == d \o rest
           b == SubSeq(r, 1, bytes)
           t == advance_reader(r, bytes)
<1>1. d \in [1..bytes -> Byte] /\ FromDigits(256, d) = n
  BY BytesMakeTheirNumber
<1> HIDE DEF d
<1>2. d \in Seq(Byte) /\ Len(d) = bytes
  BY <1>1, LenProperties, SeqDef
<1>3. /\ r \in Seq(Byte) /\ Len(r) = bytes + Len(rest)
      /\ \A i \in 1..bytes : r[i] = d[i]
      /\ \A i \in 1..Len(rest) : r[bytes + i] = rest[i]
  BY <1>2
<1> HIDE DEF r
<1>4. b = d
  <2>1. bytes <= Len(r) /\ 1 <= bytes + 1
    BY <1>3
  <2>2. b \in Seq(Byte) /\ Len(b) = bytes /\ \A i \in 1..bytes : b[i] = r[i]
    BY <1>3, <2>1
  <2> HIDE DEF b
  <2>3. \A i \in 1..bytes : b[i] = d[i]
    BY <1>3, <2>2
  <2> QED
    BY <1>2, <2>2, <2>3, SeqEqual
<1>5. t = rest
  <2>1. bytes \in 0..Len(r) /\ Len(r) - bytes = Len(rest)
    BY <1>3
  <2>2. t \in Seq(Byte) /\ Len(t) = Len(rest) /\ \A i \in 1..Len(rest) : t[i] = r[bytes + i]
    BY <1>3, <2>1, Remaining
  <2> HIDE DEF t
  <2> QED
    BY <1>3, <2>2, SeqEqual
<1>6. ~(bytes > Len(r))
  BY <1>3
<1>7. read_bytes(r, bytes, out) = ReadResult("READ_OK", FromDigits(256, b), t)
  BY <1>6 DEF read_bytes, LittleEndian
<1> QED
  BY <1>1, <1>4, <1>5, <1>7 DEF r, d

(* A byte that ends no string.                                               *)
Character == 1..255

(* read_cstring reads back every string of characters, and leaves what       *)
(* follows its zero.                                                         *)
THEOREM StringReadsBack ==
  ASSUME NEW string \in Seq(Character), NEW rest \in Seq(Byte), NEW out
  PROVE  read_cstring(Terminated(string) \o rest, out) = ReadResult("READ_OK", string, rest)
<1> DEFINE s == Terminated(string)
           r == s \o rest
           length == Len(string)
           zeros == {i \in DOMAIN r : r[i] = 0}
           end == CHOOSE i \in zeros : \A j \in zeros : i <= j
           t == advance_reader(r, length + 1)
           front == SubSeq(r, 1, length)
<1>1. length \in Nat /\ \A i \in 1..length : string[i] \in Character
  OBVIOUS
<1>2. string \in Seq(Byte) /\ 0 \in Byte
  <2>1. Character \subseteq Byte /\ 0 \in Byte
    BY DEF Byte, Character
  <2> QED
    BY <2>1
<1>3. /\ s \in Seq(Byte) /\ Len(s) = length + 1 /\ s[length + 1] = 0
      /\ \A i \in 1..length : s[i] = string[i]
  BY <1>1, <1>2 DEF Terminated
<1> HIDE DEF s, length
<1>4. /\ r \in Seq(Byte) /\ Len(r) = (length + 1) + Len(rest) /\ Len(rest) \in Nat
      /\ DOMAIN r = 1..Len(r)
      /\ \A i \in 1..(length + 1) : r[i] = s[i]
      /\ \A i \in 1..Len(rest) : r[(length + 1) + i] = rest[i]
  BY <1>1, <1>3
<1> HIDE DEF r
<1>5. \A i \in 1..length : r[i] = string[i] /\ r[i] # 0
  <2> TAKE i \in 1..length
  <2>1. i \in 1..(length + 1)
    BY <1>1
  <2>2. r[i] = string[i] /\ string[i] \in Character
    BY <1>1, <1>3, <1>4, <2>1
  <2>3. \A c \in Character : c # 0
    BY DEF Character
  <2> QED
    BY <2>2, <2>3
<1>6. length + 1 \in zeros
  <2>1. length + 1 \in 1..(length + 1) /\ length + 1 \in 1..Len(r)
    BY <1>1, <1>4
  <2> QED
    BY <1>3, <1>4, <2>1
<1>7. \A i \in zeros : i \in Nat /\ length + 1 <= i
  <2> TAKE i \in zeros
  <2>1. i \in 1..Len(r) /\ r[i] = 0
    BY <1>4
  <2>2. i \notin 1..length
    BY <1>5, <2>1
  <2> QED
    BY <1>1, <1>4, <2>1, <2>2
<1>8. read_cstring(r, out) =
        IF zeros = {} THEN ReadResult("READ_ERR_OUT_OF_BOUNDS", out, r)
        ELSE ReadResult("READ_OK", SubSeq(r, 1, end - 1), advance_reader(r, end))
  BY DEF read_cstring
<1> HIDE DEF zeros
<1>9. end = length + 1
  <2>1. end \in zeros /\ \A j \in zeros : end <= j
    BY <1>6, <1>7
  <2> HIDE DEF end
  <2>2. end \in Nat /\ end <= length + 1 /\ length + 1 <= end
    BY <1>6, <1>7, <2>1
  <2> QED
    BY <1>1, <2>2
<1> HIDE DEF end
<1>10. zeros # {} /\ (length + 1) - 1 = length
  BY <1>1, <1>6
<1>11. front = string
  <2>1. length <= Len(r) /\ string \in Seq(Byte) /\ Len(string) = length
    BY <1>1, <1>2, <1>4 DEF length
  <2>2. front \in Seq(Byte) /\ Len(front) = length /\ \A i \in 1..length : front[i] = r[i]
    BY <1>1, <1>4, <2>1
  <2> HIDE DEF front
  <2>3. \A i \in 1..length : front[i] = string[i]
    BY <1>5, <2>2
  <2> QED
    BY <2>1, <2>2, <2>3, SeqEqual
<1>12. t = rest
  <2> DEFINE k == length + 1
  <2>1. k \in 0..Len(r) /\ Len(r) - k = Len(rest) /\ t = advance_reader(r, k)
    BY <1>1, <1>4
  <2>2. \A i \in 1..Len(rest) : r[k + i] = rest[i]
    BY <1>4
  <2> HIDE DEF k, t
  <2>3. t \in Seq(Byte) /\ Len(t) = Len(rest) /\ \A i \in 1..Len(rest) : t[i] = r[k + i]
    <3>1. r \in Seq(Byte)
      BY <1>4
    <3> QED
      BY <2>1, <3>1, Remaining
  <2> QED
    BY <2>2, <2>3, SeqEqual
<1>13. read_cstring(r, out) = ReadResult("READ_OK", front, t)
  BY <1>8, <1>9, <1>10
<1> QED
  BY <1>11, <1>12, <1>13 DEF r, s
===============================================================================
