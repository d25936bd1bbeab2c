---------------------------- MODULE MemorySystem ----------------------------
(***************************************************************************)
(* The loader and the bus: the memories ELFFile creates are moved to the    *)
(* bus, the devices are added behind them (processor.cc), and then one      *)
(* sequence of accesses sees them (memory-bus.cc, memory.cc, serial.cc,     *)
(* sys-status.cc).  Every memory has an array of bytes of its own, and the  *)
(* bus finds the client for each access anew.                               *)
(***************************************************************************)
EXTENDS ElfLoader, MemoryBus

CONSTANTS
  Requests,     \* the accesses of the program
  Top,          \* number of addresses: 2^64 in arch.h
  MaxAccesses   \* bound: accesses the bus is asked for

(* The linker gives every section addresses of its own, and none at the very *)
(* end of the address space: no address computed from its bounds wraps.      *)
ASSUME FilesAssumption ==
  \A f \in Files : \A k, l \in DOMAIN f.sections :
    /\ f.sections[k].addr + f.sections[k].size + 8 <= Top
    /\ k # l /\ f.sections[k].alloc /\ f.sections[l].alloc =>
         Extent(f.sections[k]) \cap Extent(f.sections[l]) = {}

(* The bytes a section has in the file are bytes; SHT_NOBITS sections have    *)
(* none. *)
ASSUME FilesType ==
  \A f \in Files :
    /\ Len(f.sections) \in Nat /\ DOMAIN f.sections = 1 .. Len(f.sections)
    /\ \A k \in DOMAIN f.sections : LET h == f.sections[k] IN
         /\ h.addr \in Nat /\ h.size \in Nat
         /\ h.alloc \in BOOLEAN /\ h.write \in BOOLEAN
         /\ h.type # "NOBITS" => h.contents \in [0 .. h.size - 1 -> Byte]

(* DataMemory and InstructionMemory ask for 1, 2, 4 or 8 bytes. *)
ASSUME RequestsAssumption ==
  \A r \in Requests :
    /\ r.write \in BOOLEAN /\ r.addr \in Nat /\ r.size \in {1, 2, 4, 8}
    /\ r.signExtend \in BOOLEAN /\ r.value \in Nat

ASSUME BoundAssumption == MaxAccesses \in Nat

VARIABLES
  printed,         \* what Serial printed
  shouldHaltFlag,  \* of SysStatus
  bytesRead, bytesWritten,   \* the statistics of MemoryBus
  accesses,        \* number of accesses, for the bound
  request,         \* the last access
  answer           \* how it ended

vars == <<file, loadState, header, memories, printed, shouldHaltFlag, bytesRead, bytesWritten,
          accesses, request, answer>>

(* Nothing is written outside a segment: every array keeps the bounds the    *)
(* section header gave it, in whatever order and however often the segments  *)
(* are accessed, and the statistics count nothing twice.                     *)
TypeOK ==
  /\ file \in Files /\ loadState \in LoadState
  /\ \A k \in DOMAIN memories : memories[k].data \in [0 .. memories[k].size - 1 -> Byte]
  /\ printed \in Seq(Byte)
  /\ shouldHaltFlag \in BOOLEAN
  /\ accesses \in 0 .. MaxAccesses
  /\ bytesRead + bytesWritten \in accesses .. 8 * accesses
  /\ answer \in {Value(v) : v \in 0 .. Pow[8] - 1} \cup {Done, Refused}

Init ==
  /\ LoaderInit
  /\ printed = <<>>
  /\ shouldHaltFlag = FALSE
  /\ bytesRead = 0
  /\ bytesWritten = 0
  /\ accesses = 0
  /\ request = NoRequest
  /\ answer = Done

LoadFile ==
  /\ LoaderNext
  /\ UNCHANGED <<printed, shouldHaltFlag, bytesRead, bytesWritten, accesses, request, answer>>

----------------------------------------------------------------------------
(* MemoryBus counts an access before it looks for the client. *)
Count(r) ==
  /\ loadState = "loaded"
  /\ accesses < MaxAccesses
  /\ accesses' = accesses + 1
  /\ bytesRead' = bytesRead + (IF r.write THEN 0 ELSE r.size)
  /\ bytesWritten' = bytesWritten + (IF r.write THEN r.size ELSE 0)
  /\ request' = r
  /\ UNCHANGED <<file, loadState, header>>

ClientOf(r) == BusAccess(memories, r.addr, r.size, r.write)

(* Mutant: the highest byte comes first. *)
SegmentValueSwapped(m, offset, size) ==
  LittleEndian([j \in 0 .. size - 1 |-> m.data[offset + size - 1 - j]], size)

(* Memory::readData: a little-endian value at an offset of a segment. *)
SegmentValue(m, offset, size) ==
  LittleEndian([j \in 0 .. size - 1 |-> m.data[offset + j]], size)

ReadMemory(r) ==
  /\ ~r.write
  /\ Count(r)
  /\ ClientOf(r) = "memory"
  /\ LET m == memories[FindClient(memories, r.addr)] IN
       answer' = Value(Extend(SegmentValue(m, r.addr - m.base, r.size), r.size, r.signExtend))
  /\ UNCHANGED <<memories, printed, shouldHaltFlag>>

(* Memory::writeData writes the bytes of a value where it is told to, in the *)
(* array of segment k. *)
SegmentWrite(k, offset, size, value) ==
  LET written == offset .. offset + size - 1 IN
    [memories EXCEPT ![k].data =
       [i \in DOMAIN @ \cup written |->
          IF i \in written THEN (value \div Pow[i - offset]) % ByteSize ELSE @[i]]]

WriteMemory(r) ==
  /\ r.write
  /\ Count(r)
  /\ ClientOf(r) = "memory"
  /\ LET k == FindClient(memories, r.addr) IN
       memories' = SegmentWrite(k, r.addr - memories[k].base, r.size, r.value)
  /\ answer' = Done
  /\ UNCHANGED <<printed, shouldHaltFlag>>

WriteSerial(r) ==
  /\ Count(r)
  /\ ClientOf(r) = "serial"
  /\ printed' = Append(printed, LowestByte(r.value))
  /\ answer' = Done
  /\ UNCHANGED <<memories, shouldHaltFlag>>

WriteSysStatus(r) ==
  /\ Count(r)
  /\ ClientOf(r) = "sysStatus"
  /\ shouldHaltFlag' = TRUE
  /\ answer' = Done
  /\ UNCHANGED <<memories, printed>>

Refuse(r) ==
  /\ Count(r)
  /\ ClientOf(r) = "illegal"
  /\ answer' = Refused
  /\ UNCHANGED <<memories, printed, shouldHaltFlag>>

Next ==
  \/ LoadFile
  \/ \E r \in Requests :
       ReadMemory(r) \/ WriteMemory(r) \/ WriteSerial(r) \/ WriteSysStatus(r) \/ Refuse(r)

Spec == Init /\ [][Next]_vars

----------------------------------------------------------------------------
(* The byte an address of the program holds; before there is a program it is *)
(* the one the file has for it.                                              *)
FlatByte(addr) ==
  IF loadState = "loaded"
    THEN LET m == memories[FindClient(memories, addr)] IN m.data[addr - m.base]
    ELSE ImageByte(addr)

FlatBytes == [addr \in ImageAddresses |-> FlatByte(addr)]

WritableAddresses == UNION {Extent(h) : h \in {s \in Allocated : s.write}}

Flat == INSTANCE FlatMemory WITH
  bytes    <- FlatBytes,
  sections <- {Extent(h) : h \in Allocated},
  writable <- WritableAddresses,
  halted   <- shouldHaltFlag

(* The memory the program finds is the image its file describes, and         *)
(* segments, the search for the client and the separate arrays do not show:  *)
(* any sequence of accesses of any sizes is answered as by one array of      *)
(* bytes.  A value written in one size reads back in every other, no access  *)
(* reaches past the section it starts in, a read-only section refuses every  *)
(* write, and a refused access leaves no trace but its count.                *)
ImplementsFlatMemory == Flat!Spec

(* What -X disassembles is what is fetched: the bytes getTextSegment takes   *)
(* from the file are those the bus holds at their addresses, as long as the  *)
(* program runs, if its file does not let it write to its own text.          *)
DisassembledIsFetched ==
  loadState = "loaded" /\ TextFound /\ ~TextSegment.write =>
    \A addr \in Extent(TextSegment) :
      /\ BusAccess(memories, addr, 1, FALSE) = "memory"
      /\ FlatByte(addr) = TextSegment.contents[addr - TextSegment.addr]
============================================================================
