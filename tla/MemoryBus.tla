----------------------------- MODULE MemoryBus -----------------------------
(***************************************************************************)
(* The bus and what hangs on it (memory-bus.cc, memory.cc, serial.cc,       *)
(* sys-status.cc) as the DataMemory of the memory stage drives them         *)
(* (memory-control.cc).  An access is served by the first client that       *)
(* contains its start address; whether the client then takes an access of   *)
(* that size is for the client to say.                                      *)
(*                                                                          *)
(* Widths are scaled by ByteSize: a byte has ByteSize values (256 in the    *)
(* code) and a double word is always eight of them.  The framebuffer is     *)
(* a module of its own: it is compiled in only with ENABLE_FRAMEBUFFER.     *)
(*                                                                          *)
(* memories are the segments of the program, in the order in which the      *)
(* loader made them: a sequence of records of base, size and mayWrite.  No  *)
(* address computed from their bounds wraps around.                         *)
(***************************************************************************)
EXTENDS Integers, Sequences, FiniteSetsExt

CONSTANTS
  ByteSize,    \* number of values of a byte: 256
  SerialBase,  \* 0x200 in processor.cc
  StatusBase   \* 0x270 in processor.cc

ASSUME ByteSizeAssumption == ByteSize \in Nat \ {0, 1}

(* The devices do not share an address. *)
ASSUME DevicesAssumption ==
  /\ SerialBase \in Nat /\ StatusBase \in Nat
  /\ SerialBase \notin StatusBase .. StatusBase + 15

Byte == 0 .. ByteSize - 1
LowestByte(value) == value % ByteSize

----------------------------------------------------------------------------
(* Memory::contains looks at the first byte of an access only. *)
MemoryContains(m, addr) == m.base <= addr /\ addr < m.base + m.size

(* Mutant: the permission is looked at first and is enough for a write. *)
CanAccessUnbounded(m, addr, size, write) ==
  IF write THEN m.mayWrite ELSE addr + size <= m.base + m.size

(* Memory::canAccess looks at all of it. *)
CanAccess(m, addr, size, write) ==
  /\ m.base <= addr
  /\ addr + size <= m.base + m.size
  /\ write => m.mayWrite

(* The serial port takes single bytes at its base, and nothing is read back. *)
SerialContains(addr) == addr = SerialBase
SerialAccepts(size, write) == write /\ size = 1

(* The status unit takes a byte or a word at offset 8 of its 16 bytes. *)
StatusContains(addr) == StatusBase <= addr /\ addr < StatusBase + 16
StatusAccepts(addr, size, write) == write /\ size \in {1, 4} /\ addr = StatusBase + 8

(* How an access ends: with a value read, done, or by an exception. *)
Value(value) == [outcome |-> "value", value |-> value]
Done == [outcome |-> "done", value |-> 0]
Refused == [outcome |-> "refused", value |-> 0]

(* An access as the memory control asks the bus for it. *)
Request(write, addr, size, signExtend, value) ==
  [write |-> write, addr |-> addr, size |-> size, signExtend |-> signExtend, value |-> value]
NoRequest == Request(FALSE, 0, 0, FALSE, 0)

(* MemoryBus::findClient: the memories come before the devices, which        *)
(* Processor adds after them, so a segment can hide a device.                *)
Holders(memories, addr) == {k \in DOMAIN memories : MemoryContains(memories[k], addr)}

FindClient(memories, addr) == Min(Holders(memories, addr))

BusAccess(memories, addr, size, write) ==
  LET held == Holders(memories, addr) # {} IN
    CASE held /\ CanAccess(memories[FindClient(memories, addr)], addr, size, write) -> "memory"
      [] ~held /\ SerialContains(addr) /\ SerialAccepts(size, write)               -> "serial"
      [] ~held /\ ~SerialContains(addr) /\ StatusContains(addr)
               /\ StatusAccepts(addr, size, write)                                 -> "sysStatus"
      [] OTHER                                                                     -> "illegal"

----------------------------------------------------------------------------
(* Memory::readData and writeData move size bytes, the lowest first, and     *)
(* DataMemory::getDataOut extends what was read to a register.               *)
Pow[n \in 0 .. 8] == IF n = 0 THEN 1 ELSE ByteSize * Pow[n - 1]

(* The number with the bytes b[0], b[1], ... of a given size. *)
LittleEndian(b, size) ==
  LET value[k \in 0 .. size] == IF k = 0 THEN 0 ELSE value[k - 1] + b[k - 1] * Pow[k - 1]
  IN  value[size]

RawLoad(memory, addr, size) == LittleEndian([k \in 0 .. size - 1 |-> memory[addr + k]], size)

Extend(raw, size, signExtend) ==
  IF signExtend /\ 2 * raw >= Pow[size] THEN raw - Pow[size] + Pow[8] ELSE raw

DataOut(memory, addr, size, signExtend) ==
  Extend(RawLoad(memory, addr, size), size, signExtend)

DataWritten(memory, addr, size, value) ==
  [a \in DOMAIN memory |->
     IF addr <= a /\ a < addr + size
       THEN (value \div Pow[a - addr]) % ByteSize
       ELSE memory[a]]
============================================================================
