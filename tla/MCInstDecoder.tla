--------------------------- MODULE MCInstDecoder ---------------------------
(***************************************************************************)
(* Instructions of every format, compressed ones, and words that are no     *)
(* instruction.  The registers have the lowest, the highest or alternating  *)
(* bits set, the immediates the ends of their range, every single bit, and  *)
(* the patterns between.                                                    *)
(***************************************************************************)
EXTENDS InstFormatter

Registers == {0, 1, 10, 21, 31}

(* The values of a signed immediate of some bits. *)
Immediates(bits) ==
  {0, 1, 5, -1, -2, 2 ^ (bits - 1) - 1, -(2 ^ (bits - 1))}
    \cup {2 ^ k : k \in 0 .. bits - 2} \cup {-(2 ^ k) - 1 : k \in 0 .. bits - 2}

Even(S) == {2 * v : v \in S}

Word(opcode, funct3, funct7, rd, rs1, rs2, imm) ==
  [opcode |-> opcode, funct3 |-> funct3, funct7 |-> funct7, rd |-> rd, rs1 |-> rs1,
   rs2 |-> rs2, imm |-> imm]

Compressed(opcode, rd, imm, next) ==
  [opcode |-> opcode, rd |-> rd, imm |-> imm, next |-> next]

(* FENCE, ECALL, floating point, and compressed instructions of every        *)
(* quadrant and funct3 the formatter does not know.                          *)
OtherWords ==
  {15, 115, 7, 127} \cup
  {q + 2 ^ 13 * f3 + 2 ^ 7 * 5 :
     q \in 0 .. 2, f3 \in 2 .. 7} \cup {1 + 2 ^ 7 * 5, 2 ^ 13, 2 + 2 ^ 13}

MCAssembly ==
  {Word(o, f3, f7, rd, rs1, rs2, 0) :
     o \in {"OP", "OP_32"}, f3 \in 0 .. 7, f7 \in {0, 1, 32, 127},
     rd \in Registers, rs1 \in {0, 10, 21}, rs2 \in {1, 30}} \cup
  {Word(o, f3, 0, rd, 21, 0, imm) :
     o \in {"OP_IMM", "LOAD", "JALR"}, f3 \in {0, 2, 3, 4, 6, 7},
     rd \in {0, 31}, imm \in Immediates(12)} \cup
  {Word(o, f3, 0, rd, 21, 0, imm) :
     o \in {"OP_IMM_32", "LOAD"}, f3 \in {0, 1, 2, 4, 5}, rd \in {0, 31},
     imm \in Immediates(12)} \cup
  {Word("OP_IMM", f3, 0, rd, 1, 0, kind + shamt) :
     f3 \in {1, 5}, rd \in {0, 10}, kind \in {0, 1024}, shamt \in 0 .. 63} \cup
  {Word("OP_IMM_32", f3, 0, rd, 1, 0, kind + shamt) :
     f3 \in {1, 5}, rd \in {0, 10}, kind \in {0, 1024}, shamt \in 0 .. 31} \cup
  {Word("STORE", f3, 0, 0, rs1, rs2, imm) :
     f3 \in 0 .. 7, rs1 \in {1, 30}, rs2 \in {0, 21}, imm \in Immediates(12)} \cup
  {Word("BRANCH", f3, 0, 0, rs1, rs2, imm) :
     f3 \in 0 .. 7, rs1 \in {1, 30}, rs2 \in {0, 21}, imm \in Even(Immediates(12))} \cup
  {Word(o, 0, 0, rd, 0, 0, imm) :
     o \in {"LUI", "AUIPC"}, rd \in {1, 30}, imm \in Immediates(20)} \cup
  {Word("JAL", 0, 0, rd, 0, 0, imm) : rd \in {1, 30}, imm \in Even(Immediates(20))} \cup
  {Compressed("C_ADDI4SPN", rd, imm, next) :
     rd \in {8, 13, 15}, imm \in {4 * v : v \in Immediates(9)} \cap 0 .. 1020, next \in {0, 1}} \cup
  {Compressed("C_ADDIW", rd, imm, next) :
     rd \in Registers, imm \in -32 .. 31, next \in {0, 1}} \cup
  {Compressed("C_SLLI", rd, imm, next) :
     rd \in Registers, imm \in 0 .. 63, next \in {0, 1}} \cup
  {[opcode |-> "UNKNOWN", low |-> low, next |-> next] : low \in OtherWords, next \in {0, 1}}
============================================================================
