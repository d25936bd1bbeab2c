---------------------------- MODULE InstDecoder ----------------------------
(***************************************************************************)
(* InstructionDecoder (inst-decoder.cc) and what the control unit makes of  *)
(* what it extracts.  An instruction word is a function from bit numbers to *)
(* bits.  What the word was meant to be is kept beside it: the formats of   *)
(* the instruction set put an immediate together in five different ways,    *)
(* and the decoder has to take each of them apart again.                    *)
(***************************************************************************)
EXTENDS ControlUnit, Binary

CONSTANT Assembly   \* the words a text may hold.  Instructions: records of opcode,
                    \*   funct3, funct7, rd, rs1, rs2 and imm.  Compressed ones, of
                    \*   16 bits: opcode, rd, imm, and the bit the parcel above it
                    \*   is made of.  Any other word: low, its low half, and next.

VARIABLES
  source,           \* the instruction as it was assembled
  instructionWord,  \* of InstructionDecoder
  isSet             \* setInstructionWord was called with the word of source

vars == <<source, instructionWord, isSet>>

----------------------------------------------------------------------------
(* The formats of the instruction set: Opcode and InstructionType.           *)

OpcodeNumber ==
  [OP |-> 51, OP_IMM |-> 19, OP_32 |-> 59, OP_IMM_32 |-> 27, LOAD |-> 3, STORE |-> 35,
   BRANCH |-> 99, JALR |-> 103, JAL |-> 111, LUI |-> 55, AUIPC |-> 23]

InstructionType(opcode) ==
  CASE opcode \in {"OP", "OP_32"}                         -> "R"
    [] opcode \in {"OP_IMM", "OP_IMM_32", "LOAD", "JALR"} -> "I"
    [] opcode = "STORE"                                   -> "S"
    [] opcode = "BRANCH"                                  -> "B"
    [] opcode \in {"LUI", "AUIPC"}                        -> "U"
    [] opcode = "JAL"                                     -> "J"

(* Where an assembler puts bit k of an immediate: the bit of the word.  The  *)
(* immediates of U count multiples of 2^12.                                  *)
ImmediateBits(type) ==
  CASE type = "R" -> [k \in {} |-> 0]
    [] type = "I" -> [k \in 0 .. 11 |-> 20 + k]
    [] type = "S" -> [k \in 0 .. 11 |-> IF k < 5 THEN 7 + k ELSE 20 + k]
    [] type = "B" -> [k \in 1 .. 12 |-> CASE k < 5       -> 7 + k
                                         [] k \in 5 .. 10 -> 20 + k
                                         [] k = 11       -> 7
                                         [] k = 12       -> 31]
    [] type = "U" -> [k \in 0 .. 19 |-> 12 + k]
    [] type = "J" -> [k \in 1 .. 20 |-> CASE k < 11       -> 20 + k
                                         [] k = 11        -> 20
                                         [] k \in 12 .. 19 -> k
                                         [] k = 20        -> 31]

HasField(type, field) ==
  CASE field = "rd"     -> type \in {"R", "I", "U", "J"}
    [] field = "funct3" -> type \in {"R", "I", "S", "B"}
    [] field = "rs1"    -> type \in {"R", "I", "S", "B"}
    [] field = "rs2"    -> type \in {"R", "S", "B"}
    [] field = "funct7" -> type = "R"

(* The first bit and the length of a field. *)
FieldBits == [rd |-> <<7, 5>>, funct3 |-> <<12, 3>>, rs1 |-> <<15, 5>>,
              rs2 |-> <<20, 5>>, funct7 |-> <<25, 7>>]

EncodeInstruction(i) ==
  LET type == InstructionType(i.opcode)
      imm  == ImmediateBits(type)
  IN [b \in 0 .. 31 |->
       IF b < 7 THEN BitOf(OpcodeNumber[i.opcode], b)
       ELSE IF \E k \in DOMAIN imm : imm[k] = b
         THEN BitOf(i.imm, CHOOSE k \in DOMAIN imm : imm[k] = b)
         ELSE LET field == CHOOSE f \in DOMAIN FieldBits :
                             /\ HasField(type, f)
                             /\ b - FieldBits[f][1] \in 0 .. FieldBits[f][2] - 1
              IN  BitOf(i[field], b - FieldBits[field][1])]

(* The compressed instructions the formatter knows: their quadrant, where    *)
(* the bits of the immediate go, and the first bit, the length and the       *)
(* offset of rd.  All three have funct3 = 0 but C_ADDIW, which has 1.        *)
CompressedForm ==
  LET split == [k \in 0 .. 5 |-> IF k < 5 THEN 2 + k ELSE 12]
  IN [C_ADDI4SPN |-> [quadrant |-> 0, funct3 |-> 0, rd |-> <<2, 3, 8>>,
                      imm |-> [k \in 2 .. 9 |-> CASE k = 2       -> 6
                                                [] k = 3       -> 5
                                                [] k \in 4 .. 5 -> 7 + k
                                                [] k > 5       -> 1 + k]],
      C_ADDIW    |-> [quadrant |-> 1, funct3 |-> 1, rd |-> <<7, 5, 0>>, imm |-> split],
      C_SLLI     |-> [quadrant |-> 2, funct3 |-> 0, rd |-> <<7, 5, 0>>, imm |-> split]]

EncodeCompressed(i) ==
  LET form == CompressedForm[i.opcode] IN
    [b \in 0 .. 31 |->
      CASE b < 2  -> BitOf(form.quadrant, b)
        [] b > 15 -> i.next
        [] b \in 13 .. 15 -> BitOf(form.funct3, b - 13)
        [] b - form.rd[1] \in 0 .. form.rd[2] - 1 -> BitOf(i.rd - form.rd[3], b - form.rd[1])
        [] OTHER -> BitOf(i.imm, CHOOSE k \in DOMAIN form.imm : form.imm[k] = b)]

(* An instruction an assembler takes: its immediate has a place in the word. *)
ImmediateFits(type, imm) ==
  /\ imm \in Int
  /\ type \in {"I", "S"} => -2048 <= imm /\ imm < 2048
  /\ type = "B" => -4096 <= imm /\ imm < 4096 /\ imm % 2 = 0
  /\ type = "J" => -1048576 <= imm /\ imm < 1048576 /\ imm % 2 = 0

IsInstruction(i) ==
  /\ i.opcode \in KnownOpcode
  /\ i.funct3 \in 0 .. 7 /\ i.funct7 \in 0 .. 127
  /\ i.rd \in 0 .. 31 /\ i.rs1 \in 0 .. 31 /\ i.rs2 \in 0 .. 31
  /\ ImmediateFits(InstructionType(i.opcode), i.imm)

(* A compressed one. *)
IsCompressed(i) ==
  /\ i.opcode \in DOMAIN CompressedForm
  /\ i.rd \in IF i.opcode = "C_ADDI4SPN" THEN 8 .. 15 ELSE 0 .. 31
  /\ i.imm \in Int
  /\ i.opcode = "C_ADDI4SPN" => 0 <= i.imm /\ i.imm < 1024 /\ i.imm % 4 = 0
  /\ i.opcode = "C_ADDIW"    => -32 <= i.imm /\ i.imm < 32
  /\ i.opcode = "C_SLLI"     => 0 <= i.imm /\ i.imm < 64
  /\ i.next \in {0, 1}

(* Any other word: its quadrant and funct3 are not those of a compressed one. *)
IsOther(i) ==
  /\ i.opcode \notin KnownOpcode \cup DOMAIN CompressedForm
  /\ i.low \in Nat /\ i.next \in {0, 1}
  /\ \A form \in {CompressedForm[o] : o \in DOMAIN CompressedForm} :
       i.low % 4 # form.quadrant \/ (i.low \div 8192) % 8 # form.funct3

ASSUME AssemblyAssumption ==
  \A i \in Assembly : IsInstruction(i) \/ IsCompressed(i) \/ IsOther(i)

(* The word an assembler makes of what it is given. *)
Encode(i) ==
  CASE i.opcode \in KnownOpcode             -> EncodeInstruction(i)
    [] i.opcode \in DOMAIN CompressedForm   -> EncodeCompressed(i)
    [] OTHER -> [b \in 0 .. 31 |-> IF b < 16 THEN BitOf(i.low, b) ELSE i.next]

----------------------------------------------------------------------------
(* The getters of InstructionDecoder.                                        *)

(* (instructionWord >> shift) & mask, for a mask of some bits. *)
Bits(shift, width) ==
  FromBits([k \in 0 .. width - 1 |-> instructionWord[shift + k]], width)

SignExtend(value, bits) ==
  IF value >= TwoTo[bits - 1] THEN value - TwoTo[bits] ELSE value

GetOpcode ==
  IF \E o \in KnownOpcode : OpcodeNumber[o] = Bits(0, 7)
    THEN CHOOSE o \in KnownOpcode : OpcodeNumber[o] = Bits(0, 7)
    ELSE "UNKNOWN"

GetRD == Bits(7, 5)
GetFunct3 == Bits(12, 3)
GetRS1 == Bits(15, 5)
GetRS2 == Bits(20, 5)
GetFunct7 == Bits(25, 7)

GetImmediateI == SignExtend(Bits(20, 12), 12)

GetImmediateS == SignExtend(Bits(25, 7) * TwoTo[5] + Bits(7, 5), 12)

(* Mutant: bits 7 and 31 are taken for each other. *)
GetImmediateBSwapped ==
  SignExtend(Bits(7, 1) * TwoTo[12] + Bits(31, 1) * TwoTo[11] + Bits(25, 6) * TwoTo[5]
               + Bits(8, 4) * 2, 13)

GetImmediateB ==
  SignExtend(Bits(31, 1) * TwoTo[12] + Bits(7, 1) * TwoTo[11] + Bits(25, 6) * TwoTo[5]
               + Bits(8, 4) * 2, 13)

(* The cast of the uint32_t fills the upper half with zeros. *)
GetImmediateU == Bits(12, 20)

GetImmediateJ ==
  SignExtend(Bits(31, 1) * TwoTo[20] + Bits(12, 8) * TwoTo[12] + Bits(20, 1) * TwoTo[11]
               + Bits(21, 10) * 2, 21)

GetImmediate ==
  LET type == InstructionType(GetOpcode) IN
    CASE type = "I" -> GetImmediateI
      [] type = "S" -> GetImmediateS
      [] type = "B" -> GetImmediateB
      [] type = "U" -> GetImmediateU
      [] type = "J" -> GetImmediateJ
      [] OTHER      -> 0

Decoded ==
  [opcode |-> GetOpcode, funct3 |-> GetFunct3, funct7 |-> GetFunct7, rd |-> GetRD,
   rs1 |-> GetRS1, rs2 |-> GetRS2, imm |-> GetImmediate]

----------------------------------------------------------------------------
(* A decoder that was not given a word yet holds whatever was in memory.     *)
Init ==
  /\ source \in Assembly
  /\ instructionWord \in {[b \in 0 .. 31 |-> fill] : fill \in {0, 1}}
  /\ isSet = FALSE

SetInstructionWord ==
  /\ instructionWord' = Encode(source)
  /\ isSet' = TRUE
  /\ UNCHANGED source

Next == SetInstructionWord

Spec == Init /\ [][Next]_vars

----------------------------------------------------------------------------
(* Whatever format an instruction has, the decoder gives back every field    *)
(* and every bit of the immediate that went into the word, its sign          *)
(* included; the upper immediates as the 20 bits they are.                   *)
DecodesAsEncoded ==
  isSet /\ source.opcode \in KnownOpcode =>
    LET type == InstructionType(source.opcode) IN
      /\ Decoded.opcode = source.opcode
      /\ \A field \in DOMAIN FieldBits :
           HasField(type, field) => Decoded[field] = source[field]
      /\ CASE type = "R" -> Decoded.imm = 0
           [] type = "U" -> Decoded.imm % TwoTo[20] = source.imm % TwoTo[20]
           [] OTHER      -> Decoded.imm = source.imm

IsShift(i) == i.opcode \in {"OP_IMM", "OP_IMM_32"} /\ i.funct3 \in {1, 5}

(* The bits of funct7 belong to the immediate of all immediate operations    *)
(* but the shifts: these select the operation their register form has with   *)
(* funct7 = 0, whatever the immediate, and a subtraction never; a shift by   *)
(* less than 32 selects the one with the same funct7.                        *)
ImmediateFormsAgree ==
  isSet /\ source.opcode \in {"OP_IMM", "OP_IMM_32"} =>
    LET i        == Decoded
        register == [i EXCEPT !.opcode = IF i.opcode = "OP_IMM" THEN "OP" ELSE "OP_32",
                              !.funct7 = IF IsShift(i) THEN @ ELSE 0]
    IN  SetFromInstruction(i).aluOp = SetFromInstruction(register).aluOp

(* README.md: "Full RV64I base instruction set support".  A shift by an      *)
(* immediate of up to 63 places is one of these instructions; its place      *)
(* count reaches into funct7.                                                *)
ShiftsAreSupported ==
  isSet /\ source.opcode = "OP_IMM" =>
    LET selected == SetFromInstruction(Decoded).aluOp IN
      /\ source.funct3 = 1 /\ source.imm \in 0 .. 63          => selected = "SLL"
      /\ source.funct3 = 5 /\ source.imm \in 0 .. 63          => selected = "SRL"
      /\ source.funct3 = 5 /\ source.imm - 1024 \in 0 .. 63   => selected = "SRA"
============================================================================
