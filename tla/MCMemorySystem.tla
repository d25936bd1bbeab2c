--------------------------- MODULE MCMemorySystem ---------------------------
(***************************************************************************)
(* A small address space with bytes of one bit, and files that are loaded   *)
(* or refused.                                                              *)
(***************************************************************************)
EXTENDS MemorySystem

ElfHeader == [magic |-> TRUE, identVersion |-> "current", class |-> "64", endianness |-> "LSB",
              type |-> "EXEC", machine |-> "RISCV", version |-> "current",
              hasProgramHeader |-> TRUE]

(* The contents of a section in the file: 1 0 0 1 0 0 ..., not its own mirror *)
(* image in any word.  A section without bits has none.                      *)
Section(type, flags, addr, size, align) ==
  [type |-> type, alloc |-> "A" \in flags, write |-> "W" \in flags, exec |-> "X" \in flags,
   addr |-> addr, size |-> size, align |-> align,
   contents |-> [i \in IF type = "NOBITS" THEN {} ELSE 0 .. size - 1 |-> IF i % 3 = 0 THEN 1 ELSE 0]]

(* A read-only text of three bytes, data right behind it that hold a double  *)
(* word and a byte, .bss behind them, and sections that are not loaded.      *)
Plain ==
  [header |-> ElfHeader,
   sections |-> << Section("PROGBITS", {"A", "X"}, 16, 3, 4),
                   Section("PROGBITS", {}, 0, 5, 1),
                   Section("PROGBITS", {"A", "W"}, 19, 9, 1),
                   Section("NOBITS", {"A", "W"}, 28, 2, 2),
                   Section("NOBITS", {"A", "W"}, 30, 0, 1) >>]

(* Sections out of order, two with code, and one that hides the serial port. *)
Hiding ==
  [header |-> [ElfHeader EXCEPT !.type = "DYN"],
   sections |-> << Section("NOBITS", {"A", "W"}, 40, 2, 8),
                   Section("PROGBITS", {"A", "X"}, 24, 4, 4),
                   Section("PROGBITS", {"A", "X"}, 16, 4, 4),
                   Section("PROGBITS", {"A"}, 20, 4, 4) >>]

MCFiles ==
  {Plain, Hiding,
   [Plain EXCEPT !.sections[3].align = 0],
   [Plain EXCEPT !.header.magic = FALSE],
   [Plain EXCEPT !.header.identVersion = "none"],
   [Plain EXCEPT !.header.class = "32"],
   [Plain EXCEPT !.header.endianness = "MSB"],
   [Plain EXCEPT !.header.machine = "X86_64"],
   [Plain EXCEPT !.header.version = "none"],
   [Plain EXCEPT !.header.hasProgramHeader = FALSE]}

(* The borders of the sections, the last places for a double word and for a  *)
(* half word, behind the sections, and the devices.                          *)
MCAddresses == {16, 18, 19, 20, 24, 26, 28, 40, 48, 56}

Sizes == {1, 2, 4, 8}

(* 10010110 and its complement tell every byte of a value from its           *)
(* neighbours at some size.                                                  *)
MCRequests ==
  {Request(FALSE, addr, size, signExtend, 0) :
     addr \in MCAddresses, size \in Sizes, signExtend \in BOOLEAN} \cup
  {Request(TRUE, addr, size, FALSE, value) :
     addr \in MCAddresses, size \in Sizes, value \in {105, 150}}
============================================================================
