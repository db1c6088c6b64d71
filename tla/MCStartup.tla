------------------------------ MODULE MCStartup ------------------------------
(***************************************************************************)
(* Executables for model checking what happens before the interface opens. *)
(***************************************************************************)
EXTENDS Startup

(* Two characters.                                                           *)
a == 3
b == 4
Absolute == <<Slash, a>>
AbsoluteFile == <<Slash, b, b>>
Relative == <<b, a>>

MCLineStrings == <<Absolute, Relative, AbsoluteFile>>

Format(content_type, form_code) ==
  [content_type |-> content_type, form_code |-> form_code]

Entry(path, directory_index) == [path |-> path, directory_index |-> directory_index]

Padded(kind, opcode, operand, padding) ==
  [kind |-> kind, opcode |-> opcode, operand |-> operand, padding |-> padding]

StandardOpcode(opcode, operand) == Padded("standard", opcode, operand, 0)
SpecialOpcode(opcode) == Padded("special", opcode, 0, 0)
SetAddress(address) == Padded("extended", 2, address, 0)
EndSequence == Padded("extended", 1, 0, 0)
SetDiscriminator(discriminator) == Padded("extended", 4, discriminator, 0)

Short == << SetAddress(4660), SpecialOpcode(255), EndSequence >>

Copy == StandardOpcode(1, 0)

(* Numbers at which a LEB128 number grows, fills its bits or changes its     *)
(* sign, and of which registers keep half.                                   *)
Numbers ==
  {<< Copy, SetAddress(65535), SpecialOpcode(13), SetDiscriminator(200),
      SpecialOpcode(14) >>}
  \cup {<< Padded("standard", 3, n, padding), SpecialOpcode(100) >> :
          n \in {0, 63, -64, 127}, padding \in {0, 1}}
  \cup {<< StandardOpcode(3, n), SpecialOpcode(100) >> :
          n \in {64, -65, 8191, -8192, 8192, -8193, 32767, -32768}}
  \cup {<< StandardOpcode(2, n), StandardOpcode(4, 1), StandardOpcode(5, n),
           StandardOpcode(9, n), Copy, StandardOpcode(2, n), Copy >> :
          n \in {0, 127, 128, 16383, 16384, 65535}}

(* What bears on the registers of a row: every opcode.                       *)
Pool ==
  { SetAddress(48), SetDiscriminator(2), SpecialOpcode(100), SpecialOpcode(255), Copy }
  \cup { StandardOpcode(2, 5), StandardOpcode(3, -3), StandardOpcode(4, 2),
         StandardOpcode(5, 7), StandardOpcode(9, 3), StandardOpcode(12, 1) }
  \cup { StandardOpcode(opcode, 0) : opcode \in {6, 7, 8, 10, 11} }

(* Any two of them before and after rows, and in the sequence that follows:  *)
(* what one leaves for the next row or sequence.                             *)
Mixed ==
  {<< x, y, Copy, y, SpecialOpcode(20), EndSequence,
      SpecialOpcode(21), x, Copy >> : x \in Pool, y \in Pool}

String == << Format(DW_LNCT_path, DW_FORM_string) >>

LineStrp == << Format(DW_LNCT_path, DW_FORM_line_strp) >>

Unit ==
  [is_dwarf64 |-> FALSE, minimum_instruction_length |-> 1,
   maximum_operations_per_instruction |-> 1, default_is_stmt |-> 1, line_base |-> -5,
   line_range |-> 14, opcode_base |-> 13,
   directory_formats |-> String, directories |-> << Entry(Absolute, 0) >>,
   file_formats |-> String \o << Format(DW_LNCT_directory_index, DW_FORM_udata) >>,
   file_names |-> << Entry(Relative, 0), Entry(AbsoluteFile, 0) >>,
   program |-> Short]

(* What producers write of a file besides its path.                          *)
FileFormats ==
  { << Format(DW_LNCT_directory_index, form) >> :
      form \in {DW_FORM_udata, DW_FORM_data1, DW_FORM_data2} }
  \cup {<< Format(DW_LNCT_directory_index, DW_FORM_udata),
           Format(DW_LNCT_MD5, DW_FORM_data16) >>}
  \cup {<< Format(content, form), Format(DW_LNCT_directory_index, DW_FORM_udata) >> :
          content \in {DW_LNCT_timestamp, DW_LNCT_size},
          form \in {DW_FORM_udata, DW_FORM_data4, DW_FORM_data8}}
  \cup {<< Format(DW_LNCT_size, form), Format(DW_LNCT_directory_index, DW_FORM_udata) >> :
          form \in {DW_FORM_data1, DW_FORM_data2}}
  \cup {<< Format(DW_LNCT_timestamp, DW_FORM_block),
           Format(DW_LNCT_directory_index, DW_FORM_data1) >>}

Units ==
  { [Unit EXCEPT !.program = program] : program \in Numbers }
  \cup { [Unit EXCEPT !.program = program, !.minimum_instruction_length = 2,
                      !.maximum_operations_per_instruction = 3] : program \in Mixed }
  \cup { [Unit EXCEPT !.is_dwarf64 = dwarf64, !.directory_formats = path,
                      !.file_formats = path \o formats,
                      !.directories = << Entry(Absolute, 0), Entry(directory, 0) >>,
                      !.file_names = << Entry(file_name, 1), Entry(Relative, 0) >>] :
           dwarf64 \in BOOLEAN, path \in {String, LineStrp}, formats \in FileFormats,
           directory \in {Absolute, Relative}, file_name \in {Relative, AbsoluteFile} }
  \cup { [Unit EXCEPT !.opcode_base = 10, !.line_base = 1], (* older producers *)
         [Unit EXCEPT !.opcode_base = 1, !.line_base = -128],
         [Unit EXCEPT !.opcode_base = 15, !.program = << StandardOpcode(14, 0) >> \o @],
         [Unit EXCEPT !.program = << Padded("extended", 128, 0, 0) >> \o @],
         [Unit EXCEPT !.line_range = 0], [Unit EXCEPT !.line_range = 0, !.program = << Copy, StandardOpcode(8, 0) >>],
         [Unit EXCEPT !.maximum_operations_per_instruction = 0],
         [Unit EXCEPT !.file_formats = @ \o << Format(8192, DW_FORM_data1) >>],
         [Unit EXCEPT !.directory_formats = << Format(DW_LNCT_path, DW_FORM_strp) >>],
         [Unit EXCEPT !.file_names = << >>],
         [Unit EXCEPT !.directories = << >>, !.file_names = << Entry(AbsoluteFile, 0) >>] }

(* Units that may be cut: programs longer than their headers, and names of   *)
(* characters that make small counts, as the decoder may take them for.      *)
Long ==
  [i \in 1..16 |-> StandardOpcode(3, -8193)] \o << EndSequence >>

LongUnits ==
  { [Unit EXCEPT !.is_dwarf64 = dwarf64, !.directory_formats = path, !.program = Long,
                 !.directories = << Entry(Relative, 0) >>,
                 !.file_formats = path \o SubSeq(@, 2, 2),
                 !.file_names = << Entry(Relative, 0), Entry(Relative, 0) >>] :
      dwarf64 \in BOOLEAN, path \in {String, LineStrp} }

-----------------------------------------------------------------------------
(* Files.                                                                    *)

Segment(type, vaddr) == [type |-> type, vaddr |-> vaddr]

PT_PHDR == 6
PT_INTERP == 3

Segments == << Segment(PT_PHDR, 4), Segment(PT_INTERP, 12),
               Segment(PT_LOAD, 0), Segment(PT_LOAD, 48) >>

SectionAt(name, data, complete) ==
  [name |-> name, address |-> 0, data |-> data, complete |-> complete]

Written(units, data) ==
  [magic |-> TRUE, class |-> ELFCLASS64, encoding |-> ELFDATA2LSB, machine |-> EM_X86_64,
   tables_complete |-> TRUE, segments |-> Segments, units |-> units,
   sections |-> << SectionAt(".interp", << >>, TRUE), SectionAt(".text", <<144>>, TRUE),
                   SectionAt(".debug_line", data, TRUE),
                   SectionAt(".debug_line_str", LineStr, TRUE) >>,
   whole |-> TRUE]

Encoded(units) == FlattenSeq([i \in DOMAIN units |-> EncodeUnit(units[i])])

Whole(units) == Written(units, Encoded(units))

(* The section breaks off in its last unit, after the first byte or later.   *)
Cut(units) ==
  LET data == Encoded(units)
      first == Len(data) - Len(EncodeUnit(units[Len(units)])) + 1
  IN  {[Written(units, SubSeq(data, 1, n)) EXCEPT !.whole = FALSE] :
         n \in first..(Len(data) - 1)}

Good == Whole(<<Unit>>)

OddFiles ==
  { [Good EXCEPT !.magic = FALSE], [Good EXCEPT !.class = 1], [Good EXCEPT !.encoding = 2],
    [Good EXCEPT !.machine = 3], [Good EXCEPT !.tables_complete = FALSE],
    [Good EXCEPT !.sections[3].complete = FALSE], [Good EXCEPT !.sections[2].data = << >>],
    [Good EXCEPT !.sections = << >>, !.units = << >>],
    [Good EXCEPT !.segments = SubSeq(@, 1, 2)],
    [Good EXCEPT !.segments = << Segment(PT_LOAD, 64), Segment(PT_LOAD, 80) >>],
    [Good EXCEPT !.segments = << Segment(PT_INTERP, 84), Segment(PT_LOAD, 64) >>],
    [Good EXCEPT !.segments = << Segment(PT_LOAD, 68) >>] }

MCFiles ==
  {Whole(<<unit>>) : unit \in Units}
  \cup {Whole(<<unit, other>>) : unit \in LongUnits, other \in LongUnits}
  \cup UNION {Cut(<<unit>>) : unit \in LongUnits}
  \cup UNION {Cut(<<Unit, unit>>) : unit \in LongUnits}
  \cup OddFiles
=============================================================================
