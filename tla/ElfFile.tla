------------------------------- MODULE ElfFile --------------------------------
(***************************************************************************)
(* parse_elf_file of src/elf.c.  A file is what its headers say and which  *)
(* of the reads that follow them find all they ask for.  Every failure ends*)
(* the debugger in the same way.                                           *)
(***************************************************************************)
EXTENDS Integers, Sequences

ELFCLASS64 == 2

ELFDATA2LSB == 1

EM_X86_64 == 62

PT_LOAD == 1

SectionNames == {".text", ".debug_line", ".debug_str", ".debug_line_str"}

HeaderAccepted(file) ==
  /\ file.magic
  /\ file.class = ELFCLASS64
  /\ file.encoding = ELFDATA2LSB
  /\ file.machine = EM_X86_64

(* Of several sections with a name the last is kept; none may be needed.     *)
Kept(file, name) ==
  {i \in DOMAIN file.sections :
     /\ file.sections[i].name = name
     /\ \A j \in (i + 1)..Len(file.sections) : file.sections[j].name # name}

SectionBuffer(file, name) ==
  IF Kept(file, name) = {}
    THEN [address |-> 0, data |-> << >>]
    ELSE LET section == file.sections[CHOOSE i \in Kept(file, name) : TRUE]
         IN  [address |-> section.address, data |-> section.data]

(* fread of one item of no bytes does not read the item, so that a section   *)
(* that is looked for may not be empty.                                      *)
SectionsRead(file) ==
  \A i \in DOMAIN file.sections :
    file.sections[i].name \in SectionNames =>
      file.sections[i].complete /\ file.sections[i].data # << >>

(* Mutant of FirstLoad: any segment will do.                                 *)
FirstLoad_AnyType(file) == IF file.segments = << >> THEN {} ELSE {1}

FirstLoad(file) ==
  {i \in DOMAIN file.segments :
     /\ file.segments[i].type = PT_LOAD
     /\ \A j \in 1..(i - 1) : file.segments[j].type # PT_LOAD}

LoadAddress(file) ==
  IF FirstLoad(file) = {} THEN 0
                          ELSE file.segments[CHOOSE i \in FirstLoad(file) : TRUE].vaddr

Accepts(file) ==
  HeaderAccepted(file) /\ file.tables_complete /\ SectionsRead(file)

ProgramData(file) ==
  [sections |-> [name \in SectionNames |-> SectionBuffer(file, name)],
   load_address |-> LoadAddress(file)]

=============================================================================
