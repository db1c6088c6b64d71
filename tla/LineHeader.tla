------------------------------ MODULE LineHeader ------------------------------
(***************************************************************************)
(* parse_line_header of src/dwarf.c: the header of a unit's line-number    *)
(* program, read off the reader.  No result of a read is checked: a field  *)
(* that cannot be read stays zero.  The lengths of opcodes are stepped     *)
(* over, as are time stamps, sizes and digests of files; nothing uses them *)
(* (a time stamp in a block of more than eight bytes would be copied over  *)
(* what lies behind its variable, and is left out).                        *)
(***************************************************************************)
EXTENDS Reader

DW_LNCT_path == 1

DW_LNCT_directory_index == 2

DW_LNCT_timestamp == 3

DW_LNCT_size == 4

DW_LNCT_MD5 == 5

UserContent == 8192..16383

DW_FORM_string == 8

DW_FORM_strp == 14

DW_FORM_line_strp == 31

DW_FORM_strp_sup == 29

DW_FORM_udata == 15

DW_FORM_block == 9

DW_FORM_data1 == 11

DW_FORM_data2 == 5

DW_FORM_data4 == 6

DW_FORM_data8 == 7

DW_FORM_data16 == 30

(* The forms each content is read in; in any other nothing is read.          *)
Accepted(content) ==
  CASE content = DW_LNCT_path ->
         {DW_FORM_string, DW_FORM_line_strp, DW_FORM_strp, DW_FORM_strp_sup}
    [] content = DW_LNCT_directory_index ->
         {DW_FORM_data1, DW_FORM_data2, DW_FORM_udata}
    [] content = DW_LNCT_timestamp ->
         {DW_FORM_udata, DW_FORM_data4, DW_FORM_data8, DW_FORM_block}
    [] content = DW_LNCT_size ->
         {DW_FORM_udata, DW_FORM_data1, DW_FORM_data2, DW_FORM_data4, DW_FORM_data8}
    [] content = DW_LNCT_MD5 -> {DW_FORM_data16}
    [] OTHER -> {}

(* A null path, and one that was never assigned.                             *)
Null == <<-1>>

Undefined == <<-2>>

OffsetSize(is_dwarf64) == IF is_dwarf64 THEN 8 ELSE 4

Read(r, form, is_dwarf64) ==
  CASE form = DW_FORM_string -> read_cstring(r, Null)
    [] form = DW_FORM_udata -> read_uleb128(r)
    [] form = DW_FORM_block -> LET count == read_uleb128(r)
                               IN  read_bytes(count.rest, count.value, 0)
    [] form = DW_FORM_data1 -> read_bytes(r, 1, 0)
    [] form = DW_FORM_data2 -> read_bytes(r, 2, 0)
    [] form = DW_FORM_data4 -> read_bytes(r, 4, 0)
    [] form = DW_FORM_data8 -> read_bytes(r, 8, 0)
    [] form = DW_FORM_data16 -> read_bytes(r, 16, 0)
    [] OTHER -> read_bytes(r, OffsetSize(is_dwarf64), 0)

(* The string at an offset into .debug_line_str; there may be none.          *)
StringAt(debug_line_str, offset) ==
  read_cstring(advance_reader(debug_line_str, offset), Undefined).value

(* The path an entry is left with; a read that fails leaves the one it had.  *)
PathOf(path, form, result, debug_line_str) ==
  CASE result.status # "READ_OK" -> path
    [] result.status = "READ_OK" /\ form = DW_FORM_string -> result.value
    [] result.status = "READ_OK" /\ form = DW_FORM_line_strp ->
         StringAt(debug_line_str, result.value)
    [] OTHER -> Undefined

EmptyEntry == [path |-> Null, directory_index |-> 0]

LnctResult(rest, entry, outcome) == [rest |-> rest, entry |-> entry, outcome |-> outcome]

(* One field of an entry, by its content.                                    *)
read_lnct(r, entry, format, debug_line_str, is_dwarf64) ==
  LET form == format.form_code
      accepted == form \in Accepted(format.content_type)
      result == Read(r, form, is_dwarf64)
      rest == IF accepted THEN result.rest ELSE r
  IN  CASE format.content_type \in UserContent -> LnctResult(r, entry, "assert")
        [] format.content_type = DW_LNCT_path ->
             LnctResult(rest,
                        [entry EXCEPT !.path =
                           IF accepted THEN PathOf(@, form, result, debug_line_str)
                                       ELSE Undefined],
                        IF form = DW_FORM_strp THEN "assert" ELSE "ok")
        [] format.content_type = DW_LNCT_directory_index ->
             LnctResult(rest,
                        [entry EXCEPT !.directory_index =
                           IF accepted /\ result.status = "READ_OK" THEN result.value
                                                                   ELSE @],
                        "ok")
        [] OTHER -> LnctResult(rest, entry, "ok")

(* The fields of fixed length, with the bytes of each.                       *)
Fields(is_dwarf64) ==
  << <<"version", 2>>, <<"address_size", 1>>, <<"segment_selector_size", 1>>,
     <<"header_length", OffsetSize(is_dwarf64)>>,
     <<"minimum_instruction_length", 1>>, <<"maximum_operations_per_instruction", 1>>,
     <<"default_is_stmt", 1>>, <<"line_base", 1>>, <<"line_range", 1>>,
     <<"opcode_base", 1>> >>

(* What an int8_t makes of a byte.                                           *)
SignedByte(b) == IF b < 128 THEN b ELSE b - 256

(* The first four bytes of a unit: a length below 0xfffffff0, 0xffffffff     *)
(* before a length of eight bytes, or a value that is reserved.              *)
Above(r) == Len(r) >= 4 /\ r[1] >= 240 /\ \A i \in 2..4 : r[i] = 255

IsDwarf64(r) == Above(r) /\ r[1] = 255

(* Mutant of line_prog_length: the difference is signed.                     *)
line_prog_length_Signed(header) ==
  header.unit_length - 2 - 1 - 1 - OffsetSize(header.is_dwarf64) - header.header_length

(* What is left of the unit's length behind its header, as the fields have it*)
line_prog_length(header) ==
  Wrap(header.unit_length - 2 - 1 - 1 - OffsetSize(header.is_dwarf64)
       - header.header_length)

-----------------------------------------------------------------------------
(* The path of a unit's file (src/debug.c): relative names are relative to   *)
(* their directory, and relative directories to the first.                   *)

Slash == 47

IsAbsolute(name) == name # << >> /\ name[1] = Slash

(* An entry the header does not have is read from behind its array.          *)
EntryOf(entries, index) ==
  IF index < Len(entries) THEN entries[index + 1]
                          ELSE [path |-> Undefined, directory_index |-> 0]

(* Mutant of get_file_path: the compilation directory is left out.           *)
get_file_path_NoCompilationDir(header, file_index) ==
  LET file_entry == EntryOf(header.file_names, file_index)
      directory == EntryOf(header.directories, file_entry.directory_index).path
  IN  IF file_entry.path \in {Null, Undefined} \/ IsAbsolute(file_entry.path)
        THEN file_entry.path ELSE directory \o <<Slash>> \o file_entry.path

get_file_path(header, file_index) ==
  LET file_entry == EntryOf(header.file_names, file_index)
      file_name == file_entry.path
      directory == EntryOf(header.directories, file_entry.directory_index).path
      compilation_dir == EntryOf(header.directories, 0).path
  IN  IF file_name \in {Null, Undefined} \/ IsAbsolute(file_name) THEN file_name
      ELSE IF directory \in {Null, Undefined} THEN directory
      ELSE IF IsAbsolute(directory) THEN directory \o <<Slash>> \o file_name
      ELSE IF compilation_dir \in {Null, Undefined} THEN compilation_dir
      ELSE compilation_dir \o <<Slash>> \o directory \o <<Slash>> \o file_name

=============================================================================
