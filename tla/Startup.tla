------------------------------- MODULE Startup --------------------------------
(***************************************************************************)
(* What happens before the interface opens: init_debug_session reads the   *)
(* ELF file and then its .debug_line section, unit after unit, from bytes; *)
(* main takes the names for the file picker from the headers.  A unit's    *)
(* program is decoded opcode by opcode, each with its operands, and run on *)
(* the registers of LineRegisters, with the parameters of the unit's header*)
(* and the registers file and column (isa is set and never used).          *)
(***************************************************************************)
EXTENDS ElfFile, DwarfProducer

CONSTANTS
  Files      (* The executables: what parse_elf_file finds in each, with the *)
             (* units that were written into its .debug_line, and whether    *)
             (* all of their bytes are there.                                *)

ASSUME FilesAssumption ==
  \A f \in Files :
    /\ \A i \in DOMAIN f.sections : f.sections[i].data \in Seq(Byte)
    /\ \A i \in DOMAIN f.segments : f.segments[i].vaddr \in Nat

VARIABLES
  file,          (* The executable being opened.                             *)
  program_data,  (* What was kept of it.                                     *)
  pc,            (* What is read next.                                       *)
  reader,        (* debug_line_reader.                                       *)
  header,        (* The header of the unit, as far as it has been read.      *)
  table,         (* Its entry table being read: which, the formats of its    *)
                 (* entries, the next field of an entry; and how many fields *)
                 (* of the header, formats or entries are left.              *)
  program_end,   (* Bytes left when the unit's program is over.              *)
  state_machine,     (* The registers.                                       *)
  line_info_table,   (* The rows of the unit, by sequence.                   *)
  comp_units,    (* Per unit its header and, when decoded, its rows.         *)
  picker,        (* The lines of the file picker.                            *)
  outcome        (* "ok", or how the debugger ended.                         *)

program_vars == <<program_end, state_machine, line_info_table>>

vars == <<file, program_data, pc, reader, header, table, program_vars, comp_units,
          picker, outcome>>

(* Numbers of a uint32_t, half as wide as a uint64_t.                        *)
UINT32_MODULUS == 2^(WIDTH \div 2)

Machine(h) ==
  INSTANCE LineRegisters WITH
    minimum_instruction_length <- h.minimum_instruction_length,
    maximum_operations_per_instruction <- h.maximum_operations_per_instruction,
    default_is_stmt <- h.default_is_stmt # 0,
    line_base <- h.line_base,
    line_range <- h.line_range,
    opcode_base <- h.opcode_base,
    LINE_MODULUS <- UINT32_MODULUS

reset_line_num_state_machine(h) ==
  LET reset == Machine(h)!reset_line_num_state_machine
  IN  [register \in DOMAIN reset \cup {"file", "column"} |->
         CASE register = "file" -> 1
           [] register = "column" -> 0
           [] OTHER -> reset[register]]

(* A header as it is allocated, all zero.                                    *)
NoHeader ==
  [is_dwarf64 |-> FALSE, unit_length |-> 0, version |-> 0, address_size |-> 0,
   segment_selector_size |-> 0, header_length |-> 0, minimum_instruction_length |-> 0,
   maximum_operations_per_instruction |-> 0, default_is_stmt |-> 0, line_base |-> 0,
   line_range |-> 0, opcode_base |-> 0, directories |-> << >>, file_names |-> << >>]

EmptyTable(name) == [name |-> name, formats |-> << >>, left |-> 0, field |-> 1]

NoSections == [name \in SectionNames |-> [address |-> 0, data |-> << >>]]

Init ==
  /\ file \in Files
  /\ program_data = [sections |-> NoSections, load_address |-> 0]
  /\ pc = "elf"
  /\ reader = << >>
  /\ header = NoHeader
  /\ table = EmptyTable("directories")
  /\ program_end = 0
  /\ state_machine = << >>
  /\ line_info_table = << >>
  /\ comp_units = << >>
  /\ picker = << >>
  /\ outcome = "ok"

At(label) == outcome = "ok" /\ pc = label

ParseElf ==
  /\ At("elf")
  /\ IF Accepts(file)
       THEN /\ program_data' = ProgramData(file)
            /\ reader' = SectionBuffer(file, ".debug_line").data
            /\ pc' = "units"
            /\ outcome' = "ok"
       ELSE outcome' = "exit" /\ UNCHANGED <<program_data, reader, pc>>
  /\ UNCHANGED <<file, header, table, program_vars, comp_units, picker>>

-----------------------------------------------------------------------------
(* parse_line_header: one action per field, format and entry, in the order   *)
(* of the reads.                                                             *)

InHeader(label) ==
  At(label) /\ UNCHANGED <<file, program_data, program_vars, comp_units, picker>>

ReadUnitLength ==
  /\ InHeader("units") /\ reader # << >>
  /\ LET start == read_bytes(reader, 4, 0)
         length == IF IsDwarf64(reader) THEN read_bytes(start.rest, 8, 0) ELSE start
     IN  IF Above(reader) /\ ~IsDwarf64(reader)
           THEN outcome' = "assert" /\ UNCHANGED <<reader, header, pc>>
           ELSE /\ reader' = length.rest
                /\ header' = [NoHeader EXCEPT !.is_dwarf64 = IsDwarf64(reader),
                                             !.unit_length = length.value]
                /\ pc' = "fields"
                /\ outcome' = "ok"
  /\ table' = [EmptyTable("directories") EXCEPT !.left = Len(Fields(FALSE))]

ReadHeaderField ==
  /\ InHeader("fields")
  /\ LET fields == Fields(header.is_dwarf64)
         field == fields[Len(fields) + 1 - table.left]
         result == read_bytes(reader, field[2], 0)
     IN  /\ reader' = result.rest
         /\ header' = [header EXCEPT ![field[1]] =
                         IF field[1] = "line_base" THEN SignedByte(result.value)
                                                   ELSE result.value]
  /\ table' = [table EXCEPT !.left = @ - 1]
  /\ pc' = IF table.left = 1 THEN "opcode_lengths" ELSE "fields"
  /\ UNCHANGED outcome

ReadOpcodeLengths ==
  /\ InHeader("opcode_lengths")
  /\ reader' = read_bytes(reader, Wrap(header.opcode_base - 1), 0).rest
  /\ table' = EmptyTable("directories")
  /\ pc' = "format_count"
  /\ UNCHANGED <<header, outcome>>

(* Directories and files alike: how many formats, the formats, how many      *)
(* entries, the entries.                                                     *)
ReadFormatCount ==
  /\ InHeader("format_count")
  /\ reader' = read_bytes(reader, 1, 0).rest
  /\ table' = [table EXCEPT !.left = read_bytes(reader, 1, 0).value]
  /\ pc' = "formats"
  /\ UNCHANGED <<header, outcome>>

ReadFormat ==
  /\ InHeader("formats") /\ table.left > 0
  /\ LET content == read_uleb128(reader)
         form == read_uleb128(content.rest)
     IN  /\ reader' = form.rest
         /\ table' = [table EXCEPT !.left = @ - 1,
                                   !.formats = Append(@, [content_type |-> content.value,
                                                          form_code |-> form.value])]
  /\ UNCHANGED <<header, pc, outcome>>

ReadEntryCount ==
  /\ InHeader("formats") /\ table.left = 0
  /\ reader' = read_uleb128(reader).rest
  /\ table' = [table EXCEPT !.left = read_uleb128(reader).value,
                            !.field = Len(table.formats) + 1]
  /\ pc' = "entries"
  /\ UNCHANGED <<header, outcome>>

EntryIsRead == table.field > Len(table.formats)

BeginEntry ==
  /\ InHeader("entries") /\ EntryIsRead /\ table.left > 0
  /\ header' = [header EXCEPT ![table.name] = Append(@, EmptyEntry)]
  /\ table' = [table EXCEPT !.left = @ - 1, !.field = 1]
  /\ UNCHANGED <<pc, reader, outcome>>

ReadEntryField ==
  /\ InHeader("entries") /\ ~EntryIsRead
  /\ LET last == Len(header[table.name])
         field == read_lnct(reader, header[table.name][last], table.formats[table.field],
                            program_data.sections[".debug_line_str"].data,
                            header.is_dwarf64)
     IN  /\ reader' = field.rest
         /\ header' = [header EXCEPT ![table.name][last] = field.entry]
         /\ outcome' = field.outcome
  /\ table' = [table EXCEPT !.field = @ + 1]
  /\ UNCHANGED pc

EndDirectories ==
  /\ InHeader("entries") /\ EntryIsRead /\ table.left = 0
  /\ table.name = "directories"
  /\ table' = EmptyTable("file_names")
  /\ pc' = "format_count"
  /\ UNCHANGED <<reader, header, outcome>>

(* Mutant of ProgramFits: the length is not compared with what remains.      *)
ProgramFits_Unchecked == TRUE

(* assert(line_prog_length <= debug_line_reader->remaining)                  *)
ProgramFits == line_prog_length(header) <= Len(reader)

BeginProgram ==
  /\ At("entries") /\ EntryIsRead /\ table.left = 0
  /\ table.name = "file_names"
  /\ IF ProgramFits
       THEN /\ program_end' = IF line_prog_length(header) > Len(reader)
                                THEN 0 ELSE Len(reader) - line_prog_length(header)
            /\ state_machine' = reset_line_num_state_machine(header)
            /\ line_info_table' = << >>
            /\ comp_units' = Append(comp_units, [header |-> header, table |-> << >>])
            /\ pc' = "program"
            /\ outcome' = "ok"
       ELSE outcome' = "assert" /\ UNCHANGED <<program_vars, comp_units, pc>>
  /\ UNCHANGED <<file, program_data, reader, header, table, picker>>

-----------------------------------------------------------------------------
(* decode_line_num_prog, an opcode at a time.                                *)

Decoding == At("program") /\ Len(reader) > program_end

opcode_read == read_bytes(reader, 1, 0)

(* The opcode makes these registers and rows, and is read up to rest.        *)
Executes(r, rows, rest) ==
  /\ state_machine' = r
  /\ line_info_table' = rows
  /\ reader' = rest
  /\ UNCHANGED <<file, program_data, pc, header, table, program_end, comp_units, picker,
                 outcome>>

Sets(r, rest) == Executes(r, line_info_table, rest)

AppendsRow(row, r, rest) ==
  Executes(r, Machine(header)!append_line_info_entry(line_info_table, row), rest)

(* Addresses are as wide as numbers are.                                     *)
state_machine_advance_pc(r, op_advance) ==
  LET advanced == Machine(header)!state_machine_advance_pc(r, op_advance)
  IN  [advanced EXCEPT !.address = Wrap(@)]

(* Extended opcodes have a size, an opcode, and operands the decoder knows by*)
(* the opcode: those of others are left, to be taken for opcodes.            *)
instruction_size == read_uleb128(opcode_read.rest)

extended_opcode == read_bytes(instruction_size.rest, 1, 0)

Extended == Decoding /\ opcode_read.value = 0

DW_LNE_end_sequence ==
  /\ Extended /\ extended_opcode.value = 1
  /\ AppendsRow([state_machine EXCEPT !.end_sequence = TRUE],
                reset_line_num_state_machine(header), extended_opcode.rest)

(* An address of more bytes than fit would be copied over what lies behind   *)
(* its variable, and is left out.                                            *)
DW_LNE_set_address ==
  /\ Extended /\ extended_opcode.value = 2
  /\ LET address == read_bytes(extended_opcode.rest, Wrap(instruction_size.value - 1), 0)
     IN  Sets([state_machine EXCEPT !.address = address.value, !.op_index = 0],
              address.rest)

DW_LNE_set_discriminator ==
  /\ Extended /\ extended_opcode.value = 4
  /\ LET discriminator == read_uleb128(extended_opcode.rest)
     IN  Sets([state_machine EXCEPT !.discriminator = discriminator.value % UINT32_MODULUS],
              discriminator.rest)

OtherExtended ==
  /\ Extended /\ extended_opcode.value \notin {1, 2, 4}
  /\ Sets(state_machine, extended_opcode.rest)

Standard(opcode) ==
  Decoding /\ opcode_read.value = opcode /\ opcode \in 1..(header.opcode_base - 1)

DW_LNS_copy ==
  /\ Standard(1)
  /\ AppendsRow(state_machine, Machine(header)!ForgetMarks(state_machine),
                opcode_read.rest)

Divisible == header.maximum_operations_per_instruction # 0

DW_LNS_advance_pc ==
  /\ Standard(2) /\ Divisible
  /\ LET op_advance == read_uleb128(opcode_read.rest)
     IN  Sets(state_machine_advance_pc(state_machine, op_advance.value), op_advance.rest)

DW_LNS_advance_line ==
  /\ Standard(3)
  /\ LET line_increment == read_sleb128(opcode_read.rest)
     IN  Sets(Machine(header)!advance_line(state_machine, line_increment.value),
              line_increment.rest)

DW_LNS_set_file_or_column ==
  \E set \in {<<4, "file">>, <<5, "column">>} :
    /\ Standard(set[1])
    /\ LET number == read_uleb128(opcode_read.rest)
       IN  Sets([state_machine EXCEPT ![set[2]] = number.value % UINT32_MODULUS],
                number.rest)

DW_LNS_negate_stmt ==
  Standard(6) /\ Sets([state_machine EXCEPT !.is_stmt = ~@], opcode_read.rest)

DW_LNS_set_mark ==
  \E set \in {<<7, "basic_block">>, <<10, "prologue_end">>, <<11, "epilogue_begin">>} :
    Standard(set[1]) /\ Sets([state_machine EXCEPT ![set[2]] = TRUE], opcode_read.rest)

DW_LNS_const_add_pc ==
  /\ Standard(8) /\ Divisible /\ header.line_range # 0
  /\ Sets(state_machine_advance_pc(state_machine,
                                   (255 - header.opcode_base) \div header.line_range),
          opcode_read.rest)

DW_LNS_fixed_advance_pc ==
  /\ Standard(9)
  /\ LET fixed_advance == read_bytes(opcode_read.rest, 2, 0)
     IN  Sets([state_machine EXCEPT !.address = Wrap(@ + fixed_advance.value),
                                    !.op_index = 0],
              fixed_advance.rest)

DW_LNS_set_isa == Standard(12) /\ Sets(state_machine, read_uleb128(opcode_read.rest).rest)

(* Operands of an opcode the decoder does not know are left.                 *)
OtherStandard ==
  \E opcode \in 13..255 : Standard(opcode) /\ Sets(state_machine, opcode_read.rest)

SpecialRead ==
  Decoding /\ opcode_read.value # 0 /\ opcode_read.value >= header.opcode_base

Special ==
  /\ SpecialRead /\ Divisible /\ header.line_range # 0
  /\ LET row == [Machine(header)!SpecialRow(state_machine, opcode_read.value)
                   EXCEPT !.address = Wrap(@)]
     IN  AppendsRow(row, Machine(header)!ForgetMarks(row), opcode_read.rest)

(* A divisor of zero in the header.                                          *)
DivideByZero ==
  /\ Decoding
  /\ \/ ~Divisible /\ (Standard(2) \/ Standard(8) \/ SpecialRead)
     \/ header.line_range = 0 /\ (Standard(8) \/ SpecialRead)
  /\ outcome' = "sigfpe"
  /\ UNCHANGED <<file, program_data, pc, reader, header, table, program_vars, comp_units,
                 picker>>

EndProgram ==
  /\ At("program") /\ Len(reader) <= program_end
  /\ comp_units' = [comp_units EXCEPT ![Len(comp_units)].table = line_info_table]
  /\ pc' = "units"
  /\ UNCHANGED <<file, program_data, reader, header, table, program_vars, picker, outcome>>

(* get_file_picker_buffer: the name of each unit's first file.  Following a  *)
(* path that was never assigned may end the debugger.                        *)
FillPicker ==
  /\ At("units") /\ reader = << >>
  /\ picker' = [i \in DOMAIN comp_units |-> get_file_path(comp_units[i].header, 0)]
  /\ pc' = "done"
  /\ outcome' \in IF \E i \in DOMAIN picker' : picker'[i] = Undefined
                    THEN {"ok", "segv"} ELSE {"ok"}
  /\ UNCHANGED <<file, program_data, reader, header, table, program_vars, comp_units>>

(* Where an address of the file is in the process (src/debug.c).             *)
get_address_from_vma(virtual_address, elf_load_address, proc_load_address) ==
  (proc_load_address - elf_load_address) + virtual_address

Started == (pc = "done" \/ outcome # "ok") /\ UNCHANGED vars

Next ==
  \/ ParseElf
  \/ ReadUnitLength \/ ReadHeaderField \/ ReadOpcodeLengths
  \/ ReadFormatCount \/ ReadFormat \/ ReadEntryCount
  \/ BeginEntry \/ ReadEntryField \/ EndDirectories
  \/ BeginProgram
  \/ DW_LNE_end_sequence \/ DW_LNE_set_address \/ DW_LNE_set_discriminator \/ OtherExtended
  \/ DW_LNS_copy \/ DW_LNS_advance_pc \/ DW_LNS_advance_line \/ DW_LNS_set_file_or_column
  \/ DW_LNS_negate_stmt \/ DW_LNS_set_mark \/ DW_LNS_const_add_pc \/ DW_LNS_fixed_advance_pc
  \/ DW_LNS_set_isa \/ OtherStandard \/ Special \/ DivideByZero \/ EndProgram
  \/ FillPicker \/ Started

Spec == Init /\ [][Next]_vars

-----------------------------------------------------------------------------
(* Properties.                                                               *)

Section == program_data.sections[".debug_line"].data

(* Variables have their types; numbers fit their integers, and the reader and*)
(* the end of a program stay inside the section, whatever it holds.          *)
TypeOK ==
  /\ pc \in {"elf", "units", "fields", "opcode_lengths", "format_count", "formats",
             "entries", "program", "done"}
  /\ outcome \in {"ok", "exit", "assert", "sigfpe", "segv"}
  /\ program_data.load_address \in Nat
  /\ Len(reader) <= Len(Section)
  /\ reader = advance_reader(Section, Len(Section) - Len(reader))
  /\ table.name \in {"directories", "file_names"}
  /\ table.left \in 0..(2^WIDTH - 1)
  /\ table.field \in 1..(Len(table.formats) + 1)
  /\ program_end \in 0..Len(Section)
  /\ \A i \in DOMAIN comp_units :
       /\ comp_units[i].header.opcode_base \in 0..255
       /\ comp_units[i].header.line_base \in -128..127
       /\ \A entry \in Range(comp_units[i].header.directories
                             \o comp_units[i].header.file_names) :
            entry.directory_index \in 0..(2^WIDTH - 1)
  /\ state_machine # << >> =>
       /\ state_machine.address \in 0..(2^WIDTH - 1)
       /\ \A register \in {"line", "file", "column", "discriminator"} :
            state_machine[register] \in 0..(UINT32_MODULUS - 1)

Parameters ==
  {"is_dwarf64", "minimum_instruction_length", "maximum_operations_per_instruction",
   "default_is_stmt", "line_base", "line_range", "opcode_base"}

WellFormed(unit) ==
  unit.line_range # 0 /\ unit.maximum_operations_per_instruction # 0

(* The header has a path in .debug_str, or content of a vendor's.            *)
IsUnsupported(unit) ==
  \E format \in Range(unit.directory_formats \o unit.file_formats) :
    \/ format.content_type = DW_LNCT_path /\ format.form_code = DW_FORM_strp
    \/ format.content_type \in UserContent

(* The unit has a file, and that file's directory.                           *)
HasFirstFile(unit) ==
  /\ unit.file_names # << >>
  /\ unit.file_names[1].directory_index < Len(unit.directories)

(* "A barebones DWARF 5 line number program parser" (README): the headers,   *)
(* directories and files read are those that were written, and the rows of   *)
(* every sequence are those the producer meant with its program, whatever    *)
(* opcodes it chose, up to the least and the greatest numbers and however    *)
(* they are padded; and every unit ends where the next begins.  This is for  *)
(* 32-bit and 64-bit DWARF, paths in the header or in .debug_line_str, and   *)
(* indices, time stamps, sizes and digests in each form DWARF has for them.  *)
(* Of whole files, the debugger ends in an assertion only at a path in       *)
(* .debug_str or content of a vendor's, by a division only for a divisor of  *)
(* zero, and by following a path that is none only for a unit that has no    *)
(* file or not that file's directory.                                        *)
DecodesWhatWasWritten ==
  /\ \A i \in DOMAIN comp_units :
       file.whole \/ i < Len(file.units) =>
         LET cu == comp_units[i]
             unit == file.units[i]
         IN  /\ i <= Len(file.units)
             /\ \A f \in Parameters : cu.header[f] = unit[f]
             /\ cu.header.directories = unit.directories
             /\ cu.header.file_names = unit.file_names
             /\ i < Len(comp_units) \/ pc # "program" => cu.table = MeantTable(unit)
  /\ file.whole /\ pc = "done" => Len(comp_units) = Len(file.units)
  /\ file.whole =>
       /\ outcome = "assert" => \E unit \in Range(file.units) : IsUnsupported(unit)
       /\ outcome = "sigfpe" => \E unit \in Range(file.units) : ~WellFormed(unit)
       /\ outcome = "segv" => \E unit \in Range(file.units) : ~HasFirstFile(unit)

(* A read that fails takes nothing and is not noticed, and the fields behind *)
(* it are read from the wrong bytes; but a section that breaks off inside a  *)
(* unit never passes for a whole one, as the length of that unit's program is*)
(* compared with what is left.  (A program shorter than its header may pass: *)
(* what failing reads leave of the header can be as long.)                   *)
TruncationIsNoticed ==
  LET last == file.units[Len(file.units)]
  IN  ~file.whole /\ pc = "done" =>
        Len(EncodeProgram(last)) <= Len(EncodeParameters(last))

HasFile(unit) ==
  unit.file_names # << >> /\ unit.directories # << >>
  /\ IsAbsolute(unit.directories[1].path)

(* Each line of the picker, and so the source opened for it, is the place of *)
(* the unit's first file, whichever of the file, its directory and the       *)
(* directory of the compilation are given in absolute form ("cmake, nix and  *)
(* plain gcc uses different forms", src/debug.c, get_file_path).             *)
PathsResolve ==
  pc = "done" /\ file.whole =>
    \A i \in DOMAIN picker :
      HasFile(file.units[i]) => picker[i] = Located(file.units[i], file.units[i].file_names[1])

(* The kernel maps segments in pages.                                        *)
PAGE == 16

Loads == {i \in DOMAIN file.segments : file.segments[i].type = PT_LOAD}

(* What get_address_from_vma makes of an address is where the kernel put it: *)
(* the first mapping of the image begins with the page of its lowest segment,*)
(* the others keep their distance from it, and load_address is that page (if *)
(* the segment begins on a page, as linkers have it).                        *)
AddressesAreMapped ==
  pc # "elf" /\ Loads # {} =>
    LET lowest == Min({file.segments[i].vaddr : i \in Loads})
    IN  lowest % PAGE = 0 =>
          \A bias \in {0, 1, 3} :
            LET proc_load_address == bias * PAGE + lowest
            IN  \A i \in Loads :
                  get_address_from_vma(file.segments[i].vaddr, program_data.load_address,
                                       proc_load_address)
                    = bias * PAGE + file.segments[i].vaddr
=============================================================================
