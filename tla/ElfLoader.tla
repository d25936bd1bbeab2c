----------------------------- MODULE ElfLoader -----------------------------
(***************************************************************************)
(* ELFFile (elf-file.cc): the file is opened and checked, then every        *)
(* allocated section becomes a memory of the bus, in the order of the       *)
(* section headers.  An exception on the way ends the loading and with it   *)
(* the emulator.  A file is taken for what its headers say.                 *)
(***************************************************************************)
EXTENDS Integers, Sequences

CONSTANT Files   \* ELF files: records of header, the fields of the file header
                 \*   the loader looks at, and sections, the section headers
                 \*   with their contents from the file

VARIABLES
  file,        \* the file that is loaded
  loadState,   \* "closed", "opened", "loaded" or "failed"
  header,      \* number of the next section header of foreachSegment
  memories     \* the memories created so far: base, size, mayWrite and data

loaderVars == <<file, loadState, header, memories>>

LoadState == {"closed", "opened", "loaded", "failed"}

----------------------------------------------------------------------------
(* ELFFile::isELF *)
IsELF(f) == f.header.magic /\ f.header.identVersion = "current"

(* ELFFile::isTarget(ELFCLASS64, ELFDATA2LSB, EM_RISCV).  The machine is      *)
(* compared in executables and shared objects only.                          *)
IsTarget(f) ==
  /\ f.header.class = "64" /\ f.header.endianness = "LSB"
  /\ f.header.type \in {"EXEC", "DYN"} =>
       f.header.machine = "RISCV" /\ f.header.version = "current"
  /\ f.header.hasProgramHeader

(* foreachSegment goes through the sections with SHF_ALLOC. *)
IsLoaded(h) == h.alloc

(* The aligned operator new of the library returns a null pointer for an     *)
(* alignment that is no power of two, 0 included.                            *)
IsAlignment(align) ==
  align > 0 /\ \A d \in 1 .. align : align % d = 0 => d = 1 \/ d % 2 = 0

(* Transfer section data or clear the section. *)
SegmentData(h) ==
  [i \in 0 .. h.size - 1 |-> IF h.type = "PROGBITS" THEN h.contents[i] ELSE 0]

(* Mutant: every section may be written that is in memory. *)
MayWriteAll(h) == h.alloc

MayWrite(h) == h.write

MemoryOf(h) ==
  [base |-> h.addr, size |-> h.size, mayWrite |-> MayWrite(h), data |-> SegmentData(h)]

----------------------------------------------------------------------------
LoaderInit ==
  /\ file \in Files
  /\ loadState = "closed"
  /\ header = 1
  /\ memories = <<>>

(* ELFFile::load: the file is not there, is a directory or is not mapped. *)
OpenFails ==
  /\ loadState = "closed"
  /\ loadState' = "failed"
  /\ UNCHANGED <<file, header, memories>>

(* It is mapped, and released again if it is no program for this machine. *)
Load ==
  /\ loadState = "closed"
  /\ loadState' = IF IsELF(file) /\ IsTarget(file) THEN "opened" ELSE "failed"
  /\ UNCHANGED <<file, header, memories>>

(* One call of the lambda of ELFFile::createMemories. *)
CreateMemory ==
  /\ loadState = "opened"
  /\ header \in DOMAIN file.sections
  /\ LET h == file.sections[header] IN
       IF IsLoaded(h)
         THEN IsAlignment(h.align) /\ memories' = Append(memories, MemoryOf(h))
         ELSE UNCHANGED memories
  /\ header' = header + 1
  /\ UNCHANGED <<file, loadState>>

(* No memory is left, or none has this alignment: the memories made so far   *)
(* are released and the runtime_error reaches the launcher.                  *)
AllocationFails ==
  /\ loadState = "opened"
  /\ header \in DOMAIN file.sections
  /\ IsLoaded(file.sections[header])
  /\ loadState' = "failed"
  /\ memories' = <<>>
  /\ UNCHANGED <<file, header>>

(* The memories are moved to the bus. *)
MemoriesCreated ==
  /\ loadState = "opened"
  /\ header \notin DOMAIN file.sections
  /\ loadState' = "loaded"
  /\ UNCHANGED <<file, header, memories>>

LoaderNext == OpenFails \/ Load \/ CreateMemory \/ AllocationFails \/ MemoriesCreated

----------------------------------------------------------------------------
(* ELFFile::getTextSegment, for -X: the last section with SHF_EXECINSTR. *)
TextSections ==
  {k \in DOMAIN file.sections : IsLoaded(file.sections[k]) /\ file.sections[k].exec}

TextFound == TextSections # {}

TextSegment == file.sections[CHOOSE k \in TextSections : \A l \in TextSections : l <= k]

----------------------------------------------------------------------------
(* What the file says the memory of the program is, after the ELF            *)
(* specification: the addresses of its allocated sections and the byte at    *)
(* each of them.                                                             *)
Allocated == {file.sections[k] : k \in {l \in DOMAIN file.sections : file.sections[l].alloc}}

Extent(h) == h.addr .. h.addr + h.size - 1

SectionAt(addr) == CHOOSE h \in Allocated : addr \in Extent(h)

ImageAddresses == UNION {Extent(h) : h \in Allocated}

ImageByte(addr) ==
  LET h == SectionAt(addr) IN IF h.type = "NOBITS" THEN 0 ELSE h.contents[addr - h.addr]
============================================================================
