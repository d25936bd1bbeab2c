------------------------------- MODULE RV64I -------------------------------
(***************************************************************************)
(* What every part of the processor shares: machine words, instructions as  *)
(* the decoder presents them, and the register file.                        *)
(*                                                                          *)
(* An instruction word is represented by its decoded fields.  What the ALU  *)
(* computes and what the bus gives access to are parameters (the modules    *)
(* Alu and MemoryBus define them): the hazards of the pipeline do not       *)
(* depend on them beyond the assumptions stated here.                       *)
(***************************************************************************)
EXTENDS ControlUnit

CONSTANTS
  Modulus,           \* number of values of a register: 2^64 in arch.h
  NumRegs,           \* number of registers, x0 included: 32 in arch.h
  MemoryState,       \* the contents the memories behind the bus can have
  ALU(_, _, _),      \* ALU::getResult of an operation and its two operands
  Access(_, _, _),   \* the bus client that takes an access of a size at an
                     \*   address (TRUE for a write), or "illegal"
  Load(_, _, _, _),  \* DataMemory::getDataOut: memory, address, size, signExtend
  Store(_, _, _, _), \* the memory after a write: memory, address, size, value
  LowByte(_)         \* static_cast<uint8_t> of a word

(* arch.h: RegValue, MemAddress and RegNumber. *)
Word == 0 .. Modulus - 1
RegNumber == 0 .. NumRegs - 1

AccessSizes == {1, 2, 4, 8}
Client == {"memory", "serial", "sysStatus", "illegal"}

ASSUME ModulusAssumption == Modulus \in Nat \ {0}
ASSUME NumRegsAssumption == NumRegs \in Nat \ {0}
ASSUME ALUAssumption == \A op \in ALUOp : \A a, b \in Word : ALU(op, a, b) \in Word
ASSUME AdditionAssumption ==
  \A a, b \in Word : ALU("ADD", a, b) = (a + b) % Modulus
ASSUME AccessAssumption ==
  \A a \in Word, size \in AccessSizes, write \in BOOLEAN :
    Access(a, size, write) \in IF write THEN Client ELSE {"memory", "illegal"}
ASSUME LoadAssumption ==
  \A a \in Word, size \in AccessSizes :
    Access(a, size, FALSE) = "memory" =>
      \A m \in MemoryState, signExtend \in BOOLEAN : Load(m, a, size, signExtend) \in Word
ASSUME StoreAssumption ==
  \A a \in Word, size \in AccessSizes :
    Access(a, size, TRUE) = "memory" =>
      \A m \in MemoryState, value \in Word : Store(m, a, size, value) \in MemoryState
ASSUME LowByteAssumption == \A value \in Word : LowByte(value) \in Word

(* Unsigned 64-bit arithmetic wraps around. *)
Wrap(i) == i % Modulus

(* static_cast<int64_t> of a word. *)
Signed(w) == IF 2 * w < Modulus THEN w ELSE w - Modulus

----------------------------------------------------------------------------
(* Instructions: the fields InstructionDecoder extracts.  Every field is    *)
(* there whatever the opcode; what a format does not use are bits of its    *)
(* immediate.                                                               *)

Instruction == [opcode : Opcode, funct3 : 0 .. 7, funct7 : 0 .. 127,
                rd : RegNumber, rs1 : RegNumber, rs2 : RegNumber, imm : Int]

(* 0x00000013, addi x0, x0, 0. *)
NopInstruction == [opcode |-> "OP_IMM", funct3 |-> 0, funct7 |-> 0,
                   rd |-> 0, rs1 |-> 0, rs2 |-> 0, imm |-> 0]

(* 0xddffccff, not a RISC-V instruction.  Its register fields never leave   *)
(* the fetch stage.                                                         *)
TestEndMarker == [opcode |-> "UNKNOWN", funct3 |-> 4, funct7 |-> 110,
                  rd |-> 0, rs1 |-> 0, rs2 |-> 0, imm |-> 0]

(* A text: instructions at some addresses. *)
IsProgram(program) ==
  \A a \in DOMAIN program : a \in Word /\ program[a] \in Instruction

----------------------------------------------------------------------------
(* Branches and jumps.                                                       *)

(* ExecuteStage::evaluateBranch; funct3 2 and 3 are never taken. *)
EvaluateBranch(funct3, lhs, rhs) ==
  \/ funct3 = 0 /\ lhs = rhs
  \/ funct3 = 1 /\ lhs # rhs
  \/ funct3 = 4 /\ Signed(lhs) < Signed(rhs)
  \/ funct3 = 5 /\ Signed(lhs) >= Signed(rhs)
  \/ funct3 = 6 /\ lhs < rhs
  \/ funct3 = 7 /\ lhs >= rhs

(* ExecuteStage::computePCRelativeTarget. *)
ComputePCRelativeTarget(base, offset) == Wrap(base + offset)

(* The target of JALR: the sum with its lowest bit cleared. *)
JumpRegisterTarget(base, offset) ==
  LET rawTarget == Wrap(base + offset) IN rawTarget - (rawTarget % 2)

----------------------------------------------------------------------------
(* The register file.  x0 is not stored.                                    *)

RegisterArray == [1 .. NumRegs - 1 -> Word]

ReadRegister(registers, r) == IF r = 0 THEN 0 ELSE registers[r]

WriteRegister(registers, r, value) ==
  IF r = 0 THEN registers ELSE [registers EXCEPT ![r] = value]
============================================================================
