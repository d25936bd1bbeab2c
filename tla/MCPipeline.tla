----------------------------- MODULE MCPipeline -----------------------------
(***************************************************************************)
(* Small instances of the processor.  Registers have 8 bits and bytes one,  *)
(* so that a double word still is eight bytes; x0 .. x3 are the registers.  *)
(* The text is at 16, four bytes of RAM at 128, the serial port at 160 and *)
(* the status unit at 176.                                                  *)
(***************************************************************************)
EXTENDS PipelineHart, FiniteSetsExt

CONSTANT TextLength   \* instructions of the text of every program

TextBase == 16
RamBase == 128
RamSize == 4

MCModulus == 256
MCMemories == << [base |-> TextBase, size |-> 4 * TextLength, mayWrite |-> FALSE],
                 [base |-> RamBase, size |-> RamSize, mayWrite |-> TRUE] >>

Bus == INSTANCE MemoryBus WITH ByteSize <- 2, SerialBase <- 160, StatusBase <- 176
Arithmetic == INSTANCE Alu WITH Width <- 8

MCALU(op, a, b) == Arithmetic!Result(op, a, b)
MCAccess(a, size, write) == Bus!BusAccess(MCMemories, a, size, write)
MCLoad(m, a, size, signExtend) == Bus!DataOut(m, a, size, signExtend)
MCStore(m, a, size, value) == Bus!DataWritten(m, a, size, value)
MCLowByte(value) == Bus!LowestByte(value)

(* The text reads as zeros: no program looks at its own instructions. *)
TextBytes == TextBase .. TextBase + 4 * TextLength - 1
RamBytes == RamBase .. RamBase + RamSize - 1
WithText(ram) == [a \in TextBytes \cup RamBytes |-> IF a \in RamBytes THEN ram[a] ELSE 0]
MCMemoryState == {WithText(ram) : ram \in [RamBytes -> 0 .. 1]}

(* 0 1 1 0, the lowest address first. *)
MCInitialMemory == {WithText([a \in RamBytes |-> IF a - RamBase \in {1, 2} THEN 1 ELSE 0])}
(* x1 = 1, x2 points into the RAM, x3 = 200 is negative. *)
MCInitialRegisters == {<<1, RamBase, 200>>}

----------------------------------------------------------------------------
(* Instructions.  A field a format does not have holds bits of its          *)
(* immediate, as in the instruction word.                                   *)
Field(imm) == imm % 4

RType(opcode, funct3, funct7, rd, rs1, rs2) ==
  [opcode |-> opcode, funct3 |-> funct3, funct7 |-> funct7,
   rd |-> rd, rs1 |-> rs1, rs2 |-> rs2, imm |-> 0]
IType(opcode, funct3, rd, rs1, imm) ==
  [opcode |-> opcode, funct3 |-> funct3, funct7 |-> (imm \div 32) % 128,
   rd |-> rd, rs1 |-> rs1, rs2 |-> Field(imm), imm |-> imm]
SType(opcode, funct3, rs1, rs2, imm) ==
  [opcode |-> opcode, funct3 |-> funct3, funct7 |-> (imm \div 32) % 128,
   rd |-> Field(imm), rs1 |-> rs1, rs2 |-> rs2, imm |-> imm]
UType(opcode, rd, rs1, rs2, imm) ==
  [opcode |-> opcode, funct3 |-> 0, funct7 |-> 0,
   rd |-> rd, rs1 |-> rs1, rs2 |-> rs2, imm |-> imm]

Addi(rd, rs1, imm) == IType("OP_IMM", 0, rd, rs1, imm)
Lb(rd, rs1, imm) == IType("LOAD", 0, rd, rs1, imm)
Lwu(rd, rs1, imm) == IType("LOAD", 6, rd, rs1, imm)
Sb(rs2, rs1, imm) == SType("STORE", 0, rs1, rs2, imm)
Beq(rs1, rs2, offset) == SType("BRANCH", 0, rs1, rs2, offset)
Blt(rs1, rs2, offset) == SType("BRANCH", 4, rs1, rs2, offset)
Jalr(rd, rs1, imm) == IType("JALR", 0, rd, rs1, imm)
Add(rd, rs1, rs2) == RType("OP", 0, 0, rd, rs1, rs2)
Sub(rd, rs1, rs2) == RType("OP", 0, 32, rd, rs1, rs2)

(* Producers and consumers of every kind, a result for x0 among them, and    *)
(* control transfers over one or two instructions or back to the one before. *)
Menu == {
  NopInstruction,
  Add(3, 1, 3),
  Sub(1, 0, 3),
  Addi(2, 0, 129),
  Addi(0, 1, 5),
  UType("LUI", 3, 1, 1, 64),
  UType("AUIPC", 1, 3, 0, 4),
  Lb(3, 2, 0),
  IType("LOAD", 1, 1, 2, 1),
  Lwu(0, 0, 128),
  Sb(3, 2, 1),
  SType("STORE", 1, 2, 1, 0),
  Sb(1, 0, 160),
  Sb(3, 0, 184),
  Beq(1, 3, 8),
  Blt(3, 0, 12),
  Blt(1, 3, -4),
  UType("JAL", 1, 2, 0, 8),
  Jalr(3, 0, 40) }

----------------------------------------------------------------------------
(* Programs: the instructions of the text from TextBase on.                  *)
Program(instructions) ==
  [a \in {TextBase + 4 * (k - 1) : k \in 1 .. Len(instructions)} |->
     instructions[(a - TextBase) \div 4 + 1]]

Nop == NopInstruction

(* Three instructions of the menu in a row, or two of them with two others   *)
(* between, in front of the padding the test programs have; and a jump to an *)
(* address just computed or just loaded.                                     *)
Padded(a, b, c) == Program(<<Nop, a, b, c, Nop, Nop, Nop, TestEndMarker>>)

PaddedPrograms ==
  {Padded(a, b, c) : a, b, c \in Menu} \cup
  {Program(<<Nop, a, Nop, Nop, c, Nop, Nop, TestEndMarker>>) : a, c \in Menu} \cup
  {Padded(Addi(1, 0, 7), Jalr(3, 1, 34), c) : c \in Menu} \cup
  {Padded(Lwu(1, 0, 128), Jalr(3, 1, 35), c) : c \in Menu}

(* Instructions that stop the run, an access that is refused for each reason *)
(* there is, and an encoding without a meaning.                              *)
FaultMenu == {
  [NopInstruction EXCEPT !.opcode = "UNKNOWN"],
  IType("LOAD", 7, 1, 2, 0),
  SType("STORE", 4, 2, 1, 0),
  Lb(1, 0, 127),
  IType("LOAD", 3, 1, 2, 0),
  IType("LOAD", 2, 1, 0, 160),
  SType("STORE", 1, 2, 3, 3),
  Sb(1, 0, 20),
  SType("STORE", 2, 0, 1, 160),
  SType("STORE", 1, 0, 1, 184),
  RType("OP", 0, 1, 3, 1, 1) }

(* Programs without backward jumps: padded ones, in which everything may     *)
(* fault or the third instruction does behind two others; and a text that    *)
(* ends without an end marker, two instructions being still on their way.    *)
Backward == {Blt(1, 3, -4)}
Forward == Menu \ Backward
ForwardPrograms ==
  {Padded(a, b, Nop) : a, b \in Forward \cup FaultMenu} \cup
  {Padded(a, b, c) : a, b \in Forward, c \in FaultMenu} \cup
  {Program(<<Nop, Nop, Nop, Nop, Nop, Nop, a, b>>) : a, b \in Forward \ {Jalr(3, 0, 40)}}

(* Unpadded programs, with and without an end marker, that may fault. *)
FaultyPrograms ==
  LET I == Menu \cup FaultMenu IN
    {Program(<<a, b, Nop, TestEndMarker>>) : a, b \in I} \cup
    {Program(<<a, b, Nop, Nop>>) : a, b \in I}

(* A load whose result the last instruction of the program uses. *)
LoadUseAtTheEnd == {Program(<<Nop, Lb(3, 2, 0), Add(3, 1, 3), TestEndMarker>>)}

(* A loop, run twice, at the end of the program. *)
LoopAtTheEnd ==
  {Program(<<Addi(1, 0, 2), Addi(1, 1, -1), SType("BRANCH", 1, 1, 0, -4), TestEndMarker>>)}

(* Two instructions and nothing after them. *)
NoEndMarker == {Program(<<Addi(1, 0, 5), Addi(3, 0, 7)>>)}
============================================================================
