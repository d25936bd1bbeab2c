----------------------------- MODULE FlatMemory -----------------------------
(***************************************************************************)
(* What the loader and the bus together promise to the stages: the image of *)
(* the file, in which an access of any size either happens as a whole or    *)
(* not at all, and two devices.  A request determines its answer.  It says  *)
(* nothing of memories, of the order in which the clients are asked, or of  *)
(* the client that refuses.  Module Pipeline takes memory to be this.       *)
(***************************************************************************)
EXTENDS MemoryBus

CONSTANT Requests   \* the accesses the stages may ask for

VARIABLES
  bytes,      \* the contents of every address of the program
  sections,   \* the program's sections: the sets of their addresses
  writable,   \* the addresses that may be written
  printed,    \* what the serial port printed
  halted,     \* the status unit was asked to halt
  request,    \* the last access
  answer      \* how it ended

vars == <<bytes, sections, writable, printed, halted, request, answer>>

Touched(r) == r.addr .. r.addr + r.size - 1

(* The program's memory has the first byte: no device is asked then. *)
Owned(r) == r.addr \in DOMAIN bytes

(* All bytes of the access are in one section. *)
Within(r) == \E s \in sections : Touched(r) \subseteq s

Permitted(r) == r.write => Touched(r) \subseteq writable

Init ==
  /\ bytes \in [UNION sections -> Byte]
  /\ writable \subseteq DOMAIN bytes
  /\ printed = <<>>
  /\ halted = FALSE
  /\ request = NoRequest
  /\ answer = Done

Read(r) ==
  /\ ~r.write /\ Within(r)
  /\ answer' = Value(DataOut(bytes, r.addr, r.size, r.signExtend))
  /\ UNCHANGED <<bytes, printed, halted>>

Write(r) ==
  /\ r.write /\ Within(r) /\ Permitted(r)
  /\ answer' = Done
  /\ bytes' = DataWritten(bytes, r.addr, r.size, r.value)
  /\ UNCHANGED <<printed, halted>>

ForSerial(r) == ~Owned(r) /\ r.addr = SerialBase /\ r.write /\ r.size = 1

PrintByte(r) ==
  /\ ForSerial(r)
  /\ answer' = Done
  /\ printed' = Append(printed, LowestByte(r.value))
  /\ UNCHANGED <<bytes, halted>>

ForStatus(r) == ~Owned(r) /\ r.addr = StatusBase + 8 /\ r.write /\ r.size \in {1, 4}

Halt(r) ==
  /\ ForStatus(r)
  /\ answer' = Done
  /\ halted' = TRUE
  /\ UNCHANGED <<bytes, printed>>

Refuse(r) ==
  /\ ~(Within(r) /\ Permitted(r)) /\ ~ForSerial(r) /\ ~ForStatus(r)
  /\ answer' = Refused
  /\ UNCHANGED <<bytes, printed, halted>>

Next ==
  /\ UNCHANGED <<sections, writable>>
  /\ request' \in Requests
  /\ LET r == request' IN Read(r) \/ Write(r) \/ PrintByte(r) \/ Halt(r) \/ Refuse(r)

Spec == Init /\ [][Next]_vars
============================================================================
