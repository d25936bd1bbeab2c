---------------------------- MODULE DecoderProofs ----------------------------
(***************************************************************************)
(* The decoder takes every instruction apart into what it was assembled     *)
(* from, whatever its fields and immediate are, and the formatter prints    *)
(* what the control unit and the stages make of it.                         *)
(***************************************************************************)
EXTENDS InstFormatter, NumberProofs

----------------------------------------------------------------------------
(* Numbers and their bits.                                                   *)

(* (instructionWord >> shift) & mask, bit by bit. *)
LEMMA BitsSum ==
  ASSUME NEW shift \in Nat, NEW width \in 0 .. 21
  PROVE  \E sum : /\ sum[0] = 0
                  /\ \A n \in 0 .. width - 1 :
                       sum[n + 1] = sum[n] + instructionWord[shift + n] * TwoTo[n]
                  /\ Bits(shift, width) = sum[width]
<1> DEFINE bits == [k \in 0 .. width - 1 |-> instructionWord[shift + k]]
<1>1. width \in 0 .. 64 /\ \A k \in 0 .. width - 1 : bits[k] = instructionWord[shift + k]
  OBVIOUS
<1>2. Bits(shift, width) = FromBits(bits, width)
  BY DEF Bits
<1> HIDE DEF bits
<1>3. PICK sum : /\ sum[0] = 0
                 /\ \A n \in 0 .. width - 1 : sum[n + 1] = sum[n] + bits[n] * TwoTo[n]
                 /\ FromBits(bits, width) = sum[width]
  BY <1>1, FromBitsSum
<1>4. \A n \in 0 .. width - 1 : sum[n + 1] = sum[n] + instructionWord[shift + n] * TwoTo[n]
  BY <1>1, <1>3
<1> QED
  BY <1>2, <1>3, <1>4

(* (instructionWord >> shift) & mask is a number again if its bits are those  *)
(* of a number from some place on. *)
LEMMA BitsOf ==
  ASSUME NEW v \in Int, NEW from \in 0 .. 21, NEW shift \in Nat, NEW width \in 0 .. 21,
         from + width <= 21,
         \A k \in 0 .. width - 1 : instructionWord[shift + k] = BitOf(v, from + k)
  PROVE  Bits(shift, width) = (v \div TwoTo[from]) % TwoTo[width]
<1> DEFINE bits == [k \in 0 .. width - 1 |-> instructionWord[shift + k]]
<1>1. \A k \in 0 .. width - 1 : bits[k] = BitOf(v, from + k)
  OBVIOUS
<1>2. Bits(shift, width) = FromBits(bits, width)
  BY DEF Bits
<1>3. from \in 0 .. 64 /\ width \in 0 .. 64 /\ from + width <= 64
  OBVIOUS
<1> HIDE DEF bits
<1> QED
  BY <1>1, <1>2, <1>3, FromBitsOf

(* A field of a word has the values of so many bits. *)
LEMMA BitsRange ==
  ASSUME NEW shift \in Nat, NEW width \in 0 .. 21,
         \A k \in 0 .. width - 1 : instructionWord[shift + k] \in {0, 1}
  PROVE  Bits(shift, width) \in 0 .. TwoTo[width] - 1
<1> DEFINE bits == [k \in 0 .. width - 1 |-> instructionWord[shift + k]]
<1>1. \A k \in 0 .. width - 1 : bits[k] \in {0, 1}
  OBVIOUS
<1>2. Bits(shift, width) = FromBits(bits, width)
  BY DEF Bits
<1>3. width \in 0 .. 64
  OBVIOUS
<1> HIDE DEF bits
<1> QED
  BY <1>1, <1>2, <1>3, FromBitsRange

(* Their values. *)
LEMMA PowerValues ==
  /\ TwoTo[0] = 1 /\ TwoTo[1] = 2 /\ TwoTo[2] = 4 /\ TwoTo[3] = 8 /\ TwoTo[4] = 16
  /\ TwoTo[5] = 32 /\ TwoTo[6] = 64 /\ TwoTo[7] = 128 /\ TwoTo[8] = 256 /\ TwoTo[10] = 1024
  /\ TwoTo[11] = 2048 /\ TwoTo[12] = 4096 /\ TwoTo[13] = 8192 /\ TwoTo[20] = 1048576
  /\ TwoTo[21] = 2097152
<1>1. TwoTo[0] = 1 /\ \A n \in 0 .. 20 : TwoTo[n + 1] = 2 * TwoTo[n]
  BY TwoToType
<1>2. /\ TwoTo[1] = 2 /\ TwoTo[2] = 4 /\ TwoTo[3] = 8 /\ TwoTo[4] = 16 /\ TwoTo[5] = 32
      /\ TwoTo[6] = 64 /\ TwoTo[7] = 128
  <2>1. /\ TwoTo[0 + 1] = 2 * TwoTo[0] /\ TwoTo[1 + 1] = 2 * TwoTo[1]
        /\ TwoTo[2 + 1] = 2 * TwoTo[2] /\ TwoTo[3 + 1] = 2 * TwoTo[3]
        /\ TwoTo[4 + 1] = 2 * TwoTo[4] /\ TwoTo[5 + 1] = 2 * TwoTo[5]
        /\ TwoTo[6 + 1] = 2 * TwoTo[6]
    BY <1>1, SMT
  <2> QED
    BY <1>1, <2>1, SMT
<1>3. /\ TwoTo[8] = 256 /\ TwoTo[10] = 1024 /\ TwoTo[11] = 2048 /\ TwoTo[12] = 4096
      /\ TwoTo[13] = 8192
  <2>1. /\ TwoTo[7 + 1] = 2 * TwoTo[7] /\ TwoTo[8 + 1] = 2 * TwoTo[8]
        /\ TwoTo[9 + 1] = 2 * TwoTo[9] /\ TwoTo[10 + 1] = 2 * TwoTo[10]
        /\ TwoTo[11 + 1] = 2 * TwoTo[11] /\ TwoTo[12 + 1] = 2 * TwoTo[12]
    BY <1>1, SMT
  <2> QED
    BY <1>2, <2>1, SMT
<1>4. TwoTo[20] = 1048576 /\ TwoTo[21] = 2097152
  <2>1. /\ TwoTo[13 + 1] = 2 * TwoTo[13] /\ TwoTo[14 + 1] = 2 * TwoTo[14]
        /\ TwoTo[15 + 1] = 2 * TwoTo[15] /\ TwoTo[16 + 1] = 2 * TwoTo[16]
        /\ TwoTo[17 + 1] = 2 * TwoTo[17] /\ TwoTo[18 + 1] = 2 * TwoTo[18]
        /\ TwoTo[19 + 1] = 2 * TwoTo[19] /\ TwoTo[20 + 1] = 2 * TwoTo[20]
    BY <1>1, SMT
  <2> QED
    BY <1>3, <2>1, SMT
<1> QED
  BY <1>1, <1>2, <1>3, <1>4, SMT

----------------------------------------------------------------------------
(* Where the parts of an instruction are in its word.                        *)

Types == {"R", "I", "S", "B", "U", "J"}
Fields == {"rd", "funct3", "rs1", "rs2", "funct7"}

First(field) == FieldBits[field][1]
Width(field) == FieldBits[field][2]

LEMMA TypeOfOpcode ==
  ASSUME NEW o \in KnownOpcode
  PROVE  InstructionType(o) \in Types
  BY DEF KnownOpcode, InstructionType, Types

LEMMA FieldPlaces ==
  /\ DOMAIN FieldBits = Fields
  /\ First("rd") = 7 /\ Width("rd") = 5
  /\ First("funct3") = 12 /\ Width("funct3") = 3
  /\ First("rs1") = 15 /\ Width("rs1") = 5
  /\ First("rs2") = 20 /\ Width("rs2") = 5
  /\ First("funct7") = 25 /\ Width("funct7") = 7
  BY DEF FieldBits, Fields, First, Width

(* Two fields share no bit. *)
LEMMA FieldsApart ==
  ASSUME NEW f \in Fields, NEW g \in Fields, NEW b \in Int,
         b - First(f) \in 0 .. Width(f) - 1, b - First(g) \in 0 .. Width(g) - 1
  PROVE  f = g
  BY FieldPlaces DEF Fields

(* No two bits of an immediate are at the same place. *)
LEMMA ImmediatePlaces ==
  ASSUME NEW type \in Types, NEW k \in DOMAIN ImmediateBits(type)
  PROVE  /\ ImmediateBits(type)[k] \in 7 .. 31
         /\ \A l \in DOMAIN ImmediateBits(type) :
              ImmediateBits(type)[l] = ImmediateBits(type)[k] => l = k
<1>1. CASE type = "R"
  BY <1>1 DEF ImmediateBits
<1>2. CASE type = "I"
  BY <1>2 DEF ImmediateBits
<1>3. CASE type = "S"
  BY <1>3 DEF ImmediateBits
<1>4. CASE type = "B"
  BY <1>4 DEF ImmediateBits
<1>5. CASE type = "U"
  BY <1>5 DEF ImmediateBits
<1>6. CASE type = "J"
  BY <1>6 DEF ImmediateBits
<1> QED
  BY <1>1, <1>2, <1>3, <1>4, <1>5, <1>6 DEF Types

(* A field and the immediate share no bit. *)
LEMMA FieldsBeside ==
  ASSUME NEW type \in Types, NEW f \in Fields, HasField(type, f),
         NEW k \in DOMAIN ImmediateBits(type)
  PROVE  ImmediateBits(type)[k] - First(f) \notin 0 .. Width(f) - 1
<1>1. CASE type = "R"
  BY <1>1 DEF ImmediateBits
<1>2. CASE type = "I"
  <2>1. f \in {"rd", "funct3", "rs1"}
    BY <1>2 DEF HasField, Fields
  <2>2. ImmediateBits(type)[k] \in 20 .. 31
    BY <1>2 DEF ImmediateBits
  <2> QED
    BY <2>1, <2>2, FieldPlaces
<1>3. CASE type = "S"
  <2>1. f \in {"funct3", "rs1", "rs2"}
    BY <1>3 DEF HasField, Fields
  <2>2. ImmediateBits(type)[k] \in (7 .. 11) \cup (25 .. 31)
    BY <1>3 DEF ImmediateBits
  <2> QED
    BY <2>1, <2>2, FieldPlaces
<1>4. CASE type = "B"
  <2>1. f \in {"funct3", "rs1", "rs2"}
    BY <1>4 DEF HasField, Fields
  <2>2. ImmediateBits(type)[k] \in (7 .. 11) \cup (25 .. 31)
    BY <1>4 DEF ImmediateBits
  <2> QED
    BY <2>1, <2>2, FieldPlaces
<1>5. CASE type = "U"
  <2>1. f \in {"rd"}
    BY <1>5 DEF HasField, Fields
  <2>2. ImmediateBits(type)[k] \in 12 .. 31
    BY <1>5 DEF ImmediateBits
  <2> QED
    BY <2>1, <2>2, FieldPlaces
<1>6. CASE type = "J"
  <2>1. f \in {"rd"}
    BY <1>6 DEF HasField, Fields
  <2>2. ImmediateBits(type)[k] \in 12 .. 31
    BY <1>6 DEF ImmediateBits
  <2> QED
    BY <2>1, <2>2, FieldPlaces
<1> QED
  BY <1>1, <1>2, <1>3, <1>4, <1>5, <1>6 DEF Types

(* The bits of the opcode, of a field and of the immediate. *)
IsImmediateBit(i, b) ==
  LET imm == ImmediateBits(InstructionType(i.opcode)) IN
    \E k \in DOMAIN imm : imm[k] = b

ImmediateBit(i, b) ==
  LET imm == ImmediateBits(InstructionType(i.opcode)) IN
    BitOf(i.imm, CHOOSE k \in DOMAIN imm : imm[k] = b)

FieldAt(i, b) ==
  CHOOSE f \in DOMAIN FieldBits :
    /\ HasField(InstructionType(i.opcode), f)
    /\ b - FieldBits[f][1] \in 0 .. FieldBits[f][2] - 1

FieldBit(i, b) == BitOf(i[FieldAt(i, b)], b - FieldBits[FieldAt(i, b)][1])

LEMMA EncodedBits ==
  ASSUME NEW i
  PROVE  EncodeInstruction(i) =
           [b \in 0 .. 31 |-> IF b < 7 THEN BitOf(OpcodeNumber[i.opcode], b)
                              ELSE IF IsImmediateBit(i, b) THEN ImmediateBit(i, b)
                              ELSE FieldBit(i, b)]
  BY DEF EncodeInstruction, IsImmediateBit, ImmediateBit, FieldAt, FieldBit

LEMMA EncodedOpcode ==
  ASSUME NEW i, NEW b \in 0 .. 6
  PROVE  EncodeInstruction(i)[b] = BitOf(OpcodeNumber[i.opcode], b)
  BY EncodedBits

LEMMA EncodedField ==
  ASSUME NEW i, i.opcode \in KnownOpcode, NEW f \in Fields,
         HasField(InstructionType(i.opcode), f), NEW j \in 0 .. Width(f) - 1
  PROVE  EncodeInstruction(i)[First(f) + j] = BitOf(i[f], j)
<1> DEFINE type == InstructionType(i.opcode)
           b == First(f) + j
           Holds(g) == HasField(type, g) /\ b - First(g) \in 0 .. Width(g) - 1
           field == CHOOSE g \in DOMAIN FieldBits : Holds(g)
<1>1. type \in Types
  BY TypeOfOpcode
<1>2. b \in 7 .. 31 /\ b - First(f) = j
  BY FieldPlaces DEF Fields
<1>3. ~ \E k \in DOMAIN ImmediateBits(type) : ImmediateBits(type)[k] = b
  <2>1. HasField(type, f) /\ b - First(f) \in 0 .. Width(f) - 1
    BY <1>2
  <2> HIDE DEF type, b
  <2> QED
    BY <1>1, <2>1, FieldsBeside
<1>4. field = f
  <2>1. f \in DOMAIN FieldBits /\ Holds(f)
    BY <1>2, FieldPlaces
  <2>2. field \in Fields /\ Holds(field)
    <3> HIDE DEF Holds
    <3> QED
      BY <2>1, FieldPlaces
  <2>3. b \in Int
    BY <1>2
  <2> HIDE DEF field, b
  <2> QED
    BY <2>1, <2>2, <2>3, FieldsApart
<1>5. EncodeInstruction(i)[b] = BitOf(i[field], b - First(field))
  <2>1. b \in 0 .. 31 /\ ~(b < 7)
    BY <1>2
  <2>2. ~IsImmediateBit(i, b)
    BY <1>3 DEF IsImmediateBit
  <2>3. FieldBit(i, b) = BitOf(i[field], b - First(field))
    BY DEF FieldBit, FieldAt, First, Width
  <2> HIDE DEF b, field
  <2> QED
    BY <2>1, <2>2, <2>3, EncodedBits
<1> HIDE DEF b, field
<1>6. EncodeInstruction(i)[b] = BitOf(i[f], j)
  BY <1>2, <1>4, <1>5
<1> QED
  BY <1>6 DEF b

LEMMA EncodedImmediate ==
  ASSUME NEW i, i.opcode \in KnownOpcode,
         NEW k \in DOMAIN ImmediateBits(InstructionType(i.opcode))
  PROVE  EncodeInstruction(i)[ImmediateBits(InstructionType(i.opcode))[k]] = BitOf(i.imm, k)
<1> DEFINE type == InstructionType(i.opcode)
           imm == ImmediateBits(type)
           b == imm[k]
           place == CHOOSE l \in DOMAIN imm : imm[l] = b
<1>1. type \in Types
  BY TypeOfOpcode
<1>2. b \in 7 .. 31 /\ \A l \in DOMAIN imm : imm[l] = b => l = k
  <2>1. k \in DOMAIN ImmediateBits(type)
    OBVIOUS
  <2> HIDE DEF type
  <2> QED
    BY <1>1, <2>1, ImmediatePlaces
<1>3. place = k
  <2> HIDE DEF b, imm
  <2>1. k \in DOMAIN imm /\ imm[k] = b
    BY DEF b, imm
  <2>2. place \in DOMAIN imm /\ imm[place] = b
    BY <2>1
  <2> QED
    BY <1>2, <2>2
<1>4. EncodeInstruction(i)[b] = BitOf(i.imm, place)
  <2>1. b \in 0 .. 31 /\ ~(b < 7)
    BY <1>2
  <2>2. IsImmediateBit(i, b)
    BY DEF IsImmediateBit
  <2>3. ImmediateBit(i, b) = BitOf(i.imm, place)
    BY DEF ImmediateBit
  <2> HIDE DEF b, place
  <2> QED
    BY <2>1, <2>2, <2>3, EncodedBits
<1> QED
  BY <1>3, <1>4

----------------------------------------------------------------------------
(* Taking an instruction apart.                                              *)

(* The lowest bits of a number, and a number of so many bits. *)
LEMMA LowBits ==
  ASSUME NEW width \in 0 .. 21, NEW v \in Int, NEW shift \in Nat,
         \A j \in 0 .. width - 1 : instructionWord[shift + j] = BitOf(v, 0 + j)
  PROVE  Bits(shift, width) = v % TwoTo[width]
<1> DEFINE zero == 0
<1>1. zero \in 0 .. 21 /\ zero + width <= 21
  OBVIOUS
<1>2. \A k \in 0 .. width - 1 : instructionWord[shift + k] = BitOf(v, zero + k)
  OBVIOUS
<1>3. Bits(shift, width) = (v \div TwoTo[zero]) % TwoTo[width]
  <2> HIDE DEF zero
  <2> QED
    BY <1>1, <1>2, BitsOf
<1>4. v \div TwoTo[zero] = v
  BY TwoToType
<1> QED
  BY <1>3, <1>4

LEMMA BitsOfSmall ==
  ASSUME NEW width \in 0 .. 21, NEW v \in 0 .. TwoTo[width] - 1, NEW shift \in Nat,
         \A j \in 0 .. width - 1 : instructionWord[shift + j] = BitOf(v, 0 + j)
  PROVE  Bits(shift, width) = v
<1> DEFINE p == TwoTo[width]
<1>1. p \in Nat \ {0}
  BY TwoToType
<1> HIDE DEF p
<1>2. v \in 0 .. p - 1 /\ v \in Int
  BY <1>1 DEF p
<1>3. Bits(shift, width) = v % p
  BY <1>2, LowBits DEF p
<1>4. v = p * 0 + v
  BY <1>1, <1>2
<1>5. v % p = v
  BY <1>1, <1>2, <1>4, DivModUnique
<1> QED
  BY <1>3, <1>5

(* The range of an immediate. *)
LEMMA ImmediateRange ==
  ASSUME NEW type, NEW v, ImmediateFits(type, v)
  PROVE  /\ v \in Int
         /\ type \in {"I", "S"} => -2048 <= v /\ v <= 2047
         /\ type = "B" => -4096 <= v /\ v <= 4095 /\ v % 2 = 0
         /\ type = "J" => -1048576 <= v /\ v <= 1048575 /\ v % 2 = 0
<1>1. v \in Int
  BY SMT DEF ImmediateFits
<1>2. ASSUME type \in {"I", "S"} PROVE -2048 <= v /\ v <= 2047
  BY <1>2, SMT DEF ImmediateFits
<1>3. ASSUME type = "B" PROVE -4096 <= v /\ v <= 4095 /\ v % 2 = 0
  BY <1>3, SMT DEF ImmediateFits
<1>4. ASSUME type = "J" PROVE -1048576 <= v /\ v <= 1048575 /\ v % 2 = 0
  BY <1>4, SMT DEF ImmediateFits
<1> QED
  BY <1>1, <1>2, <1>3, <1>4, SMT

LEMMA InstructionParts ==
  ASSUME NEW i, IsInstruction(i)
  PROVE  /\ i.opcode \in KnownOpcode /\ i.imm \in Int
         /\ i.funct3 \in 0 .. 7 /\ i.funct7 \in 0 .. 127
         /\ i.rd \in 0 .. 31 /\ i.rs1 \in 0 .. 31 /\ i.rs2 \in 0 .. 31
  BY ImmediateRange, SMT DEF IsInstruction

LEMMA FieldDecoded ==
  ASSUME NEW i, IsInstruction(i), instructionWord = EncodeInstruction(i),
         NEW f \in Fields, HasField(InstructionType(i.opcode), f)
  PROVE  Bits(First(f), Width(f)) = i[f]
<1> DEFINE s == First(f)
           w == Width(f)
           v == i[f]
<1>1. s \in Nat /\ w \in 0 .. 21 /\ v \in 0 .. TwoTo[w] - 1
  BY InstructionParts, FieldPlaces, PowerValues, SMT DEF Fields
<1>2. \A j \in 0 .. w - 1 : instructionWord[s + j] = BitOf(v, 0 + j)
  BY InstructionParts, EncodedField
<1> HIDE DEF s, w, v
<1>3. Bits(s, w) = v
  BY <1>1, <1>2, BitsOfSmall
<1> QED
  BY <1>3 DEF s, w, v

LEMMA OpcodeDecoded ==
  ASSUME NEW i, IsInstruction(i), instructionWord = EncodeInstruction(i)
  PROVE  GetOpcode = i.opcode
<1>1. \A o \in KnownOpcode : OpcodeNumber[o] \in 0 .. 127
  BY DEF KnownOpcode, OpcodeNumber
<1>2. \A o \in KnownOpcode : OpcodeNumber[o] = OpcodeNumber[i.opcode] => o = i.opcode
  BY InstructionParts DEF KnownOpcode, OpcodeNumber
<1>3. Bits(0, 7) = OpcodeNumber[i.opcode]
  <2>1. OpcodeNumber[i.opcode] \in 0 .. TwoTo[7] - 1
    BY <1>1, InstructionParts, PowerValues, SMT
  <2>2. \A j \in 0 .. 7 - 1 : instructionWord[0 + j] = BitOf(OpcodeNumber[i.opcode], 0 + j)
    BY EncodedOpcode
  <2> QED
    BY <2>1, <2>2, BitsOfSmall
<1> DEFINE o == CHOOSE o \in KnownOpcode : OpcodeNumber[o] = Bits(0, 7)
<1>4. i.opcode \in KnownOpcode /\ \E c \in KnownOpcode : OpcodeNumber[c] = Bits(0, 7)
  BY <1>3, InstructionParts
<1>5. GetOpcode = o
  BY <1>4 DEF GetOpcode
<1>6. o \in KnownOpcode /\ OpcodeNumber[o] = Bits(0, 7)
  BY <1>4
<1> HIDE DEF o
<1> QED
  BY <1>2, <1>3, <1>5, <1>6

(* A piece of the immediate that is in one piece in the word. *)
LEMMA PieceDecoded ==
  ASSUME NEW i, IsInstruction(i), instructionWord = EncodeInstruction(i),
         NEW from \in 0 .. 20, NEW shift \in Nat, NEW width \in 0 .. 20, from + width <= 21,
         \A j \in 0 .. width - 1 :
           /\ from + j \in DOMAIN ImmediateBits(InstructionType(i.opcode))
           /\ ImmediateBits(InstructionType(i.opcode))[from + j] = shift + j
  PROVE  Bits(shift, width) = (i.imm \div TwoTo[from]) % TwoTo[width]
<1> DEFINE v == i.imm
<1>1. \A k \in 0 .. width - 1 : instructionWord[shift + k] = BitOf(v, from + k)
  BY InstructionParts, EncodedImmediate
<1>2. v \in Int /\ from \in 0 .. 21 /\ width \in 0 .. 21
  BY InstructionParts
<1> HIDE DEF v
<1>3. Bits(shift, width) = (v \div TwoTo[from]) % TwoTo[width]
  BY <1>1, <1>2, BitsOf
<1> QED
  BY <1>3 DEF v

(* The pieces of an immediate put together again, and its sign. *)
LEMMA PiecesOf12 ==
  ASSUME NEW v \in Int
  PROVE  ((v \div 32) % 128) * 32 + (v % 32) = v % 4096
  BY SMT

LEMMA PiecesOf13 ==
  ASSUME NEW v \in Int, v % 2 = 0
  PROVE  ((v \div 4096) % 2) * 4096 + ((v \div 2048) % 2) * 2048
           + ((v \div 32) % 64) * 32 + ((v \div 2) % 16) * 2 = v % 8192
<1>1. ((v \div 32) % 64) * 32 + ((v \div 2) % 16) * 2 = v % 2048
  BY SMT
<1>2. ((v \div 2048) % 2) * 2048 + (v % 2048) = v % 4096
  BY SMT
<1>3. ((v \div 4096) % 2) * 4096 + (v % 4096) = v % 8192
  BY SMT
<1> QED
  BY <1>1, <1>2, <1>3, SMT

LEMMA PiecesOf21 ==
  ASSUME NEW v \in Int, v % 2 = 0
  PROVE  ((v \div 1048576) % 2) * 1048576 + ((v \div 4096) % 256) * 4096
           + ((v \div 2048) % 2) * 2048 + ((v \div 2) % 1024) * 2 = v % 2097152
<1>1. ((v \div 2048) % 2) * 2048 + ((v \div 2) % 1024) * 2 = v % 4096
  BY SMT
<1>2. ((v \div 4096) % 256) * 4096 + (v % 4096) = v % 1048576
  BY SMT
<1>3. ((v \div 1048576) % 2) * 1048576 + (v % 1048576) = v % 2097152
  BY SMT
<1> QED
  BY <1>1, <1>2, <1>3, SMT

LEMMA Sign12 ==
  ASSUME NEW v \in Int, -2048 <= v, v <= 2047
  PROVE  (IF v % 4096 >= 2048 THEN (v % 4096) - 4096 ELSE v % 4096) = v
  BY SMT

LEMMA Sign13 ==
  ASSUME NEW v \in Int, -4096 <= v, v <= 4095
  PROVE  (IF v % 8192 >= 4096 THEN (v % 8192) - 8192 ELSE v % 8192) = v
  BY SMT

LEMMA Sign21 ==
  ASSUME NEW v \in Int, -1048576 <= v, v <= 1048575
  PROVE  (IF v % 2097152 >= 1048576 THEN (v % 2097152) - 2097152 ELSE v % 2097152) = v
<1>1. v % 2097152 = IF v < 0 THEN v + 2097152 ELSE v
  BY SMT
<1> QED
  BY <1>1, SMT

LEMMA Upper ==
  ASSUME NEW v \in Int
  PROVE  (v % 1048576) % 1048576 = v % 1048576
  BY SMT

LEMMA ImmediateDecoded ==
  ASSUME NEW i, IsInstruction(i), instructionWord = EncodeInstruction(i)
  PROVE  LET type == InstructionType(i.opcode) IN
           CASE type = "R" -> GetImmediate = 0
             [] type = "U" -> GetImmediate % TwoTo[20] = i.imm % TwoTo[20]
             [] OTHER      -> GetImmediate = i.imm
<1> DEFINE type == InstructionType(i.opcode)
           v == i.imm
           Imm(t) == CASE t = "I" -> GetImmediateI
                       [] t = "S" -> GetImmediateS
                       [] t = "B" -> GetImmediateB
                       [] t = "U" -> GetImmediateU
                       [] t = "J" -> GetImmediateJ
                       [] OTHER   -> 0
           Piece(from, shift, width) ==
             Bits(shift, width) = (v \div TwoTo[from]) % TwoTo[width]
<1>1. type \in Types /\ v \in Int /\ ImmediateFits(type, v) /\ v \div 1 = v
  BY InstructionParts, TypeOfOpcode DEF IsInstruction
<1>2. GetImmediate = Imm(type)
  BY OpcodeDecoded DEF GetImmediate
<1>3. ASSUME NEW from \in 0 .. 20, NEW shift \in Nat, NEW width \in 0 .. 20, from + width <= 21,
             \A j \in 0 .. width - 1 : /\ from + j \in DOMAIN ImmediateBits(type)
                                       /\ ImmediateBits(type)[from + j] = shift + j
      PROVE  Piece(from, shift, width)
  BY <1>3, PieceDecoded
<1> HIDE DEF type, v, Imm
<1>4. CASE type = "R"
  <2>1. Imm("R") = 0
    BY DEF Imm
  <2> QED
    BY <1>2, <1>4, <2>1 DEF type
<1>5. CASE type = "I"
  <2>1. Piece(0, 20, 12)
    <3>1. \A j \in 0 .. 12 - 1 : /\ 0 + j \in DOMAIN ImmediateBits(type)
                                 /\ ImmediateBits(type)[0 + j] = 20 + j
      BY <1>5 DEF ImmediateBits
    <3>2. 0 \in 0 .. 20 /\ 20 \in Nat /\ 12 \in 0 .. 20 /\ 0 + 12 <= 21
      OBVIOUS
    <3> QED
      BY <1>3, <3>1, <3>2, Zenon
  <2>2. Bits(20, 12) = v % 4096
    BY <1>1, <2>1, PowerValues, SMT
  <2>3. v \in Int /\ -2048 <= v /\ v <= 2047
    BY <1>1, <1>5, ImmediateRange, SMT
  <2>4. GetImmediateI = v
    BY <2>2, <2>3, Sign12, PowerValues, SMT DEF GetImmediateI, SignExtend
  <2>5. Imm("I") = GetImmediateI
    BY DEF Imm
  <2> QED
    BY <1>2, <1>5, <2>4, <2>5 DEF type, v
<1>6. CASE type = "S"
  <2>1. Piece(5, 25, 7)
    <3>1. \A j \in 0 .. 7 - 1 : /\ 5 + j \in DOMAIN ImmediateBits(type)
                                /\ ImmediateBits(type)[5 + j] = 25 + j
      BY <1>6 DEF ImmediateBits
    <3>2. 5 \in 0 .. 20 /\ 25 \in Nat /\ 7 \in 0 .. 20 /\ 5 + 7 <= 21
      OBVIOUS
    <3> QED
      BY <1>3, <3>1, <3>2, Zenon
  <2>2. Piece(0, 7, 5)
    <3>1. \A j \in 0 .. 5 - 1 : /\ 0 + j \in DOMAIN ImmediateBits(type)
                                /\ ImmediateBits(type)[0 + j] = 7 + j
      BY <1>6 DEF ImmediateBits
    <3>2. 0 \in 0 .. 20 /\ 7 \in Nat /\ 5 \in 0 .. 20 /\ 0 + 5 <= 21
      OBVIOUS
    <3> QED
      BY <1>3, <3>1, <3>2, Zenon
  <2>3. Bits(25, 7) = (v \div 32) % 128 /\ Bits(7, 5) = v % 32
    BY <1>1, <2>1, <2>2, PowerValues, SMT
  <2>4. v \in Int /\ -2048 <= v /\ v <= 2047
    BY <1>1, <1>6, ImmediateRange, SMT
  <2>5. Bits(25, 7) * TwoTo[5] + Bits(7, 5) = v % 4096
    <3>1. ((v \div 32) % 128) * 32 + (v % 32) = v % 4096
      BY <1>1, PiecesOf12
    <3>2. TwoTo[5] = 32
      BY PowerValues, SMT
    <3> QED
      BY <2>3, <3>1, <3>2, SMT
  <2>6. GetImmediateS = v
    BY <2>4, <2>5, Sign12, PowerValues, SMT DEF GetImmediateS, SignExtend
  <2>7. Imm("S") = GetImmediateS
    BY DEF Imm
  <2> QED
    BY <1>2, <1>6, <2>6, <2>7 DEF type, v
<1>7. CASE type = "B"
  <2>1. Piece(12, 31, 1)
    <3>1. \A j \in 0 .. 1 - 1 : /\ 12 + j \in DOMAIN ImmediateBits(type)
                                /\ ImmediateBits(type)[12 + j] = 31 + j
      BY <1>7 DEF ImmediateBits
    <3>2. 12 \in 0 .. 20 /\ 31 \in Nat /\ 1 \in 0 .. 20 /\ 12 + 1 <= 21
      OBVIOUS
    <3> QED
      BY <1>3, <3>1, <3>2, Zenon
  <2>2. Piece(11, 7, 1)
    <3>1. \A j \in 0 .. 1 - 1 : /\ 11 + j \in DOMAIN ImmediateBits(type)
                                /\ ImmediateBits(type)[11 + j] = 7 + j
      BY <1>7 DEF ImmediateBits
    <3>2. 11 \in 0 .. 20 /\ 7 \in Nat /\ 1 \in 0 .. 20 /\ 11 + 1 <= 21
      OBVIOUS
    <3> QED
      BY <1>3, <3>1, <3>2, Zenon
  <2>3. Piece(5, 25, 6)
    <3>1. \A j \in 0 .. 6 - 1 : /\ 5 + j \in DOMAIN ImmediateBits(type)
                                /\ ImmediateBits(type)[5 + j] = 25 + j
      BY <1>7 DEF ImmediateBits
    <3>2. 5 \in 0 .. 20 /\ 25 \in Nat /\ 6 \in 0 .. 20 /\ 5 + 6 <= 21
      OBVIOUS
    <3> QED
      BY <1>3, <3>1, <3>2, Zenon
  <2>4. Piece(1, 8, 4)
    <3>1. \A j \in 0 .. 4 - 1 : /\ 1 + j \in DOMAIN ImmediateBits(type)
                                /\ ImmediateBits(type)[1 + j] = 8 + j
      BY <1>7 DEF ImmediateBits
    <3>2. 1 \in 0 .. 20 /\ 8 \in Nat /\ 4 \in 0 .. 20 /\ 1 + 4 <= 21
      OBVIOUS
    <3> QED
      BY <1>3, <3>1, <3>2, Zenon
  <2>5. /\ Bits(31, 1) = (v \div 4096) % 2 /\ Bits(7, 1) = (v \div 2048) % 2
        /\ Bits(25, 6) = (v \div 32) % 64 /\ Bits(8, 4) = (v \div 2) % 16
    BY <2>1, <2>2, <2>3, <2>4, PowerValues, SMT
  <2>6. v \in Int /\ -4096 <= v /\ v <= 4095 /\ v % 2 = 0
    BY <1>1, <1>7, ImmediateRange, SMT
  <2>7. Bits(31, 1) * TwoTo[12] + Bits(7, 1) * TwoTo[11] + Bits(25, 6) * TwoTo[5]
          + Bits(8, 4) * 2 = v % 8192
    <3>1. ((v \div 4096) % 2) * 4096 + ((v \div 2048) % 2) * 2048
            + ((v \div 32) % 64) * 32 + ((v \div 2) % 16) * 2 = v % 8192
      BY <2>6, PiecesOf13, SMT
    <3>2. TwoTo[12] = 4096 /\ TwoTo[11] = 2048 /\ TwoTo[5] = 32
      BY PowerValues, SMT
    <3> QED
      BY <2>5, <3>1, <3>2, SMT
  <2>8. GetImmediateB = v
    BY <2>6, <2>7, Sign13, PowerValues, SMT DEF GetImmediateB, SignExtend
  <2>9. Imm("B") = GetImmediateB
    BY DEF Imm
  <2> QED
    BY <1>2, <1>7, <2>8, <2>9 DEF type, v
<1>8. CASE type = "U"
  <2>1. Piece(0, 12, 20)
    <3>1. \A j \in 0 .. 20 - 1 : /\ 0 + j \in DOMAIN ImmediateBits(type)
                                 /\ ImmediateBits(type)[0 + j] = 12 + j
      BY <1>8 DEF ImmediateBits
    <3>2. 0 \in 0 .. 20 /\ 12 \in Nat /\ 20 \in 0 .. 20 /\ 0 + 20 <= 21
      OBVIOUS
    <3> QED
      BY <1>3, <3>1, <3>2, Zenon
  <2>2. GetImmediateU = v % 1048576
    BY <1>1, <2>1, PowerValues, SMT DEF GetImmediateU
  <2>3. GetImmediateU % TwoTo[20] = v % TwoTo[20]
    BY <1>1, <2>2, Upper, PowerValues, SMT
  <2>4. Imm("U") = GetImmediateU
    BY DEF Imm
  <2> QED
    BY <1>2, <1>8, <2>3, <2>4 DEF type, v
<1>9. CASE type = "J"
  <2>1. Piece(20, 31, 1)
    <3>1. \A j \in 0 .. 1 - 1 : /\ 20 + j \in DOMAIN ImmediateBits(type)
                                /\ ImmediateBits(type)[20 + j] = 31 + j
      BY <1>9 DEF ImmediateBits
    <3>2. 20 \in 0 .. 20 /\ 31 \in Nat /\ 1 \in 0 .. 20 /\ 20 + 1 <= 21
      OBVIOUS
    <3> QED
      BY <1>3, <3>1, <3>2, Zenon
  <2>2. Piece(12, 12, 8)
    <3>1. \A j \in 0 .. 8 - 1 : /\ 12 + j \in DOMAIN ImmediateBits(type)
                                /\ ImmediateBits(type)[12 + j] = 12 + j
      BY <1>9 DEF ImmediateBits
    <3>2. 12 \in 0 .. 20 /\ 12 \in Nat /\ 8 \in 0 .. 20 /\ 12 + 8 <= 21
      OBVIOUS
    <3> QED
      BY <1>3, <3>1, <3>2, Zenon
  <2>3. Piece(11, 20, 1)
    <3>1. \A j \in 0 .. 1 - 1 : /\ 11 + j \in DOMAIN ImmediateBits(type)
                                /\ ImmediateBits(type)[11 + j] = 20 + j
      BY <1>9 DEF ImmediateBits
    <3>2. 11 \in 0 .. 20 /\ 20 \in Nat /\ 1 \in 0 .. 20 /\ 11 + 1 <= 21
      OBVIOUS
    <3> QED
      BY <1>3, <3>1, <3>2, Zenon
  <2>4. Piece(1, 21, 10)
    <3>1. \A j \in 0 .. 10 - 1 : /\ 1 + j \in DOMAIN ImmediateBits(type)
                                 /\ ImmediateBits(type)[1 + j] = 21 + j
      BY <1>9 DEF ImmediateBits
    <3>2. 1 \in 0 .. 20 /\ 21 \in Nat /\ 10 \in 0 .. 20 /\ 1 + 10 <= 21
      OBVIOUS
    <3> QED
      BY <1>3, <3>1, <3>2, Zenon
  <2>5. /\ Bits(31, 1) = (v \div 1048576) % 2 /\ Bits(12, 8) = (v \div 4096) % 256
        /\ Bits(20, 1) = (v \div 2048) % 2 /\ Bits(21, 10) = (v \div 2) % 1024
    BY <2>1, <2>2, <2>3, <2>4, PowerValues, SMT
  <2>6. v \in Int /\ -1048576 <= v /\ v <= 1048575 /\ v % 2 = 0
    BY <1>1, <1>9, ImmediateRange, SMT
  <2>7. Bits(31, 1) * TwoTo[20] + Bits(12, 8) * TwoTo[12] + Bits(20, 1) * TwoTo[11]
          + Bits(21, 10) * 2 = v % 2097152
    <3>1. ((v \div 1048576) % 2) * 1048576 + ((v \div 4096) % 256) * 4096
            + ((v \div 2048) % 2) * 2048 + ((v \div 2) % 1024) * 2 = v % 2097152
      BY <2>6, PiecesOf21, SMT
    <3>2. TwoTo[20] = 1048576 /\ TwoTo[12] = 4096 /\ TwoTo[11] = 2048
      BY PowerValues, SMT
    <3> QED
      BY <2>5, <3>1, <3>2, SMT
  <2>8. GetImmediateJ = v
    BY <2>6, <2>7, Sign21, PowerValues, SMT DEF GetImmediateJ, SignExtend
  <2>9. Imm("J") = GetImmediateJ
    BY DEF Imm
  <2> QED
    BY <1>2, <1>9, <2>8, <2>9 DEF type, v
<1> QED
  BY <1>1, <1>4, <1>5, <1>6, <1>7, <1>8, <1>9 DEF Types

----------------------------------------------------------------------------
(* The decoder has the word of the instruction, once it is set.              *)

WordInv ==
  /\ source \in Assembly
  /\ isSet => instructionWord = Encode(source)

LEMMA Decoding == Spec => []WordInv
<1>1. Init => WordInv
  BY DEF Init, WordInv
<1>2. WordInv /\ [Next]_vars => WordInv'
  BY DEF WordInv, Next, SetInstructionWord, vars
<1> QED
  BY <1>1, <1>2, PTL DEF Spec

LEMMA WordOfInstruction ==
  ASSUME WordInv, isSet, source.opcode \in KnownOpcode
  PROVE  IsInstruction(source) /\ instructionWord = EncodeInstruction(source)
<1>1. IsInstruction(source)
  <2>1. source.opcode \notin DOMAIN CompressedForm
    BY DEF CompressedForm, KnownOpcode
  <2> QED
    BY <2>1, AssemblyAssumption DEF WordInv, IsCompressed, IsOther
<1>2. Encode(source) = EncodeInstruction(source)
  <2>1. source.opcode \notin DOMAIN CompressedForm
    BY DEF CompressedForm, KnownOpcode
  <2> QED
    BY <2>1 DEF Encode
<1> QED
  BY <1>1, <1>2 DEF WordInv

(* Whatever fields and immediate an instruction is assembled from, of every   *)
(* format, the getters of the decoder give them back: InstructionDecoder.     *)
THEOREM FieldsDecoded == Spec => []DecodesAsEncoded
<1>1. WordInv => DecodesAsEncoded
  <2> SUFFICES ASSUME WordInv, isSet, source.opcode \in KnownOpcode PROVE DecodesAsEncoded
    BY DEF DecodesAsEncoded
  <2> DEFINE type == InstructionType(source.opcode)
  <2>1. IsInstruction(source) /\ instructionWord = EncodeInstruction(source)
    BY WordOfInstruction
  <2>2. Decoded.opcode = source.opcode
    BY <2>1, OpcodeDecoded DEF Decoded
  <2>3. ASSUME NEW field \in DOMAIN FieldBits, HasField(type, field)
        PROVE  Decoded[field] = source[field]
    <3>1. field \in Fields
      BY FieldPlaces
    <3>2. Bits(First(field), Width(field)) = source[field]
      BY <2>1, <2>3, <3>1, FieldDecoded
    <3>3. Decoded[field] = Bits(First(field), Width(field))
      BY <3>1, FieldPlaces DEF Fields, Decoded, GetRD, GetFunct3, GetRS1, GetRS2, GetFunct7
    <3> QED
      BY <3>2, <3>3
  <2>4. Decoded.imm = GetImmediate
    BY DEF Decoded
  <2>5. (CASE type = "R" -> GetImmediate = 0
           [] type = "U" -> GetImmediate % TwoTo[20] = source.imm % TwoTo[20]
           [] OTHER      -> GetImmediate = source.imm)
    BY <2>1, ImmediateDecoded
  <2> QED
    BY <2>2, <2>3, <2>4, <2>5 DEF DecodesAsEncoded
<1> QED
  BY <1>1, Decoding, PTL

----------------------------------------------------------------------------
(* Compressed instructions.                                                  *)

CompressedOpcode == {"C_ADDI4SPN", "C_ADDIW", "C_SLLI"}

(* The parts of a compressed instruction share no bit. *)
LEMMA CompressedForms == DOMAIN CompressedForm = CompressedOpcode
  BY DEF CompressedForm, CompressedOpcode

LEMMA StackForm ==
  ASSUME NEW form, form = CompressedForm["C_ADDI4SPN"]
  PROVE  /\ form.quadrant = 0 /\ form.funct3 = 0
         /\ form.rd[1] = 2 /\ form.rd[2] = 3 /\ form.rd[3] = 8
         /\ DOMAIN form.imm = 2 .. 9
         /\ form.imm[2] = 6 /\ form.imm[3] = 5 /\ form.imm[4] = 11 /\ form.imm[5] = 12
         /\ form.imm[6] = 7 /\ form.imm[7] = 8 /\ form.imm[8] = 9 /\ form.imm[9] = 10
  BY DEF CompressedForm

LEMMA SplitForm ==
  ASSUME NEW o \in {"C_ADDIW", "C_SLLI"}, NEW form, form = CompressedForm[o]
  PROVE  /\ form.quadrant = (IF o = "C_SLLI" THEN 2 ELSE 1)
         /\ form.funct3 = (IF o = "C_SLLI" THEN 0 ELSE 1)
         /\ form.rd[1] = 7 /\ form.rd[2] = 5 /\ form.rd[3] = 0
         /\ DOMAIN form.imm = 0 .. 5
         /\ form.imm[0] = 2 /\ form.imm[1] = 3 /\ form.imm[2] = 4 /\ form.imm[3] = 5
         /\ form.imm[4] = 6 /\ form.imm[5] = 12
<1>1. CASE o = "C_ADDIW"
  BY <1>1 DEF CompressedForm
<1>2. CASE o = "C_SLLI"
  BY <1>2 DEF CompressedForm
<1> QED
  BY <1>1, <1>2

LEMMA CompressedPlaces ==
  ASSUME NEW o \in CompressedOpcode
  PROVE  LET form == CompressedForm[o] IN
           /\ \A j \in 0 .. form.rd[2] - 1 : form.rd[1] + j \in 2 .. 12
           /\ \A k \in DOMAIN form.imm :
                /\ form.imm[k] \in 2 .. 12
                /\ form.imm[k] - form.rd[1] \notin 0 .. form.rd[2] - 1
                /\ \A l \in DOMAIN form.imm : form.imm[l] = form.imm[k] => l = k
           /\ form.rd[1] \in Int /\ form.rd[2] \in Int
<1> DEFINE form == CompressedForm[o]
<1>1. CASE o = "C_ADDI4SPN"
  <2>1. /\ form.rd[1] = 2 /\ form.rd[2] = 3 /\ DOMAIN form.imm = 2 .. 9
        /\ form.imm[2] = 6 /\ form.imm[3] = 5 /\ form.imm[4] = 11 /\ form.imm[5] = 12
        /\ form.imm[6] = 7 /\ form.imm[7] = 8 /\ form.imm[8] = 9 /\ form.imm[9] = 10
    BY <1>1, StackForm
  <2> HIDE DEF form
  <2>2. ASSUME NEW k \in 2 .. 9, NEW l \in 2 .. 9
        PROVE  /\ form.imm[k] \in 2 .. 12 /\ form.imm[k] - 2 \notin 0 .. 2
               /\ form.imm[l] = form.imm[k] => l = k
    <3> DEFINE place(n) == IF n = 2 THEN 6 ELSE IF n = 3 THEN 5
                           ELSE IF n < 6 THEN 7 + n ELSE 1 + n
    <3>1. form.imm[k] = place(k)
      BY <2>1
    <3>2. form.imm[l] = place(l)
      BY <2>1
    <3>3. place(k) \in 2 .. 12 /\ place(k) - 2 \notin 0 .. 2
      OBVIOUS
    <3>4. place(l) = place(k) => l = k
      OBVIOUS
    <3> HIDE DEF place
    <3> QED
      BY <3>1, <3>2, <3>3, <3>4
  <2>3. \A j \in 0 .. form.rd[2] - 1 : form.rd[1] + j \in 2 .. 12
    BY <2>1
  <2>4. form.rd[1] \in Int /\ form.rd[2] \in Int
    BY <2>1
  <2>5. \A k \in DOMAIN form.imm :
          /\ form.imm[k] \in 2 .. 12
          /\ form.imm[k] - form.rd[1] \notin 0 .. form.rd[2] - 1
          /\ \A l \in DOMAIN form.imm : form.imm[l] = form.imm[k] => l = k
    <3> SUFFICES ASSUME NEW k \in DOMAIN form.imm
                 PROVE  /\ form.imm[k] \in 2 .. 12
                        /\ form.imm[k] - form.rd[1] \notin 0 .. form.rd[2] - 1
                        /\ \A l \in DOMAIN form.imm : form.imm[l] = form.imm[k] => l = k
      OBVIOUS
    <3> QED
      BY <2>1, <2>2
  <2> QED
    BY <2>3, <2>4, <2>5 DEF form
<1>2. CASE o \in {"C_ADDIW", "C_SLLI"}
  <2>1. /\ form.rd[1] = 7 /\ form.rd[2] = 5 /\ DOMAIN form.imm = 0 .. 5
        /\ form.imm[0] = 2 /\ form.imm[1] = 3 /\ form.imm[2] = 4 /\ form.imm[3] = 5
        /\ form.imm[4] = 6 /\ form.imm[5] = 12
    BY <1>2, SplitForm
  <2> HIDE DEF form
  <2>2. ASSUME NEW k \in 0 .. 5, NEW l \in 0 .. 5
        PROVE  /\ form.imm[k] \in 2 .. 12 /\ form.imm[k] - 7 \notin 0 .. 4
               /\ form.imm[l] = form.imm[k] => l = k
    <3> DEFINE place(n) == IF n = 5 THEN 12 ELSE 2 + n
    <3>1. form.imm[k] = place(k)
      BY <2>1
    <3>2. form.imm[l] = place(l)
      BY <2>1
    <3>3. place(k) \in 2 .. 12 /\ place(k) - 7 \notin 0 .. 4
      OBVIOUS
    <3>4. place(l) = place(k) => l = k
      OBVIOUS
    <3> HIDE DEF place
    <3> QED
      BY <3>1, <3>2, <3>3, <3>4
  <2>3. \A j \in 0 .. form.rd[2] - 1 : form.rd[1] + j \in 2 .. 12
    BY <2>1
  <2>4. form.rd[1] \in Int /\ form.rd[2] \in Int
    BY <2>1
  <2>5. \A k \in DOMAIN form.imm :
          /\ form.imm[k] \in 2 .. 12
          /\ form.imm[k] - form.rd[1] \notin 0 .. form.rd[2] - 1
          /\ \A l \in DOMAIN form.imm : form.imm[l] = form.imm[k] => l = k
    <3> SUFFICES ASSUME NEW k \in DOMAIN form.imm
                 PROVE  /\ form.imm[k] \in 2 .. 12
                        /\ form.imm[k] - form.rd[1] \notin 0 .. form.rd[2] - 1
                        /\ \A l \in DOMAIN form.imm : form.imm[l] = form.imm[k] => l = k
      OBVIOUS
    <3> QED
      BY <2>1, <2>2
  <2> QED
    BY <2>3, <2>4, <2>5 DEF form
<1> QED
  BY <1>1, <1>2 DEF CompressedOpcode

LEMMA EncodedCompressed ==
  ASSUME NEW i, i.opcode \in CompressedOpcode
  PROVE  LET form == CompressedForm[i.opcode]
             word == EncodeCompressed(i)
         IN /\ \A j \in 0 .. 1 : word[0 + j] = BitOf(form.quadrant, 0 + j)
            /\ \A j \in 0 .. 2 : word[13 + j] = BitOf(form.funct3, 0 + j)
            /\ \A j \in 0 .. form.rd[2] - 1 :
                 word[form.rd[1] + j] = BitOf(i.rd - form.rd[3], 0 + j)
            /\ \A k \in DOMAIN form.imm : word[form.imm[k]] = BitOf(i.imm, k)
<1> DEFINE form == CompressedForm[i.opcode]
           word == EncodeCompressed(i)
           Place(b) == CHOOSE k \in DOMAIN form.imm : form.imm[k] = b
<1>1. /\ \A j \in 0 .. form.rd[2] - 1 : form.rd[1] + j \in 2 .. 12
      /\ \A k \in DOMAIN form.imm :
           /\ form.imm[k] \in 2 .. 12
           /\ form.imm[k] - form.rd[1] \notin 0 .. form.rd[2] - 1
           /\ \A l \in DOMAIN form.imm : form.imm[l] = form.imm[k] => l = k
      /\ form.rd[1] \in Int /\ form.rd[2] \in Int
  BY CompressedPlaces
<1>2. word = [b \in 0 .. 31 |->
        CASE b < 2  -> BitOf(form.quadrant, b)
          [] b > 15 -> i.next
          [] b \in 13 .. 15 -> BitOf(form.funct3, b - 13)
          [] b - form.rd[1] \in 0 .. form.rd[2] - 1 -> BitOf(i.rd - form.rd[3], b - form.rd[1])
          [] OTHER -> BitOf(i.imm, Place(b))]
  BY DEF EncodeCompressed
<1>3. ASSUME NEW k \in DOMAIN form.imm PROVE Place(form.imm[k]) = k
  <2> HIDE DEF form
  <2>1. Place(form.imm[k]) \in DOMAIN form.imm /\ form.imm[Place(form.imm[k])] = form.imm[k]
    OBVIOUS
  <2> QED
    BY <1>1, <2>1
<1> HIDE DEF form, word, Place
<1>4. ASSUME NEW j \in 0 .. 1 PROVE word[0 + j] = BitOf(form.quadrant, 0 + j)
  <2>1. 0 + j = j /\ j \in 0 .. 31 /\ j < 2 /\ ~(j > 15) /\ j \notin 13 .. 15
    OBVIOUS
  <2>2. j - form.rd[1] \notin 0 .. form.rd[2] - 1
    BY <1>1
  <2> QED
    BY <1>2, <2>1, <2>2
<1>5. ASSUME NEW j \in 0 .. 2 PROVE word[13 + j] = BitOf(form.funct3, 0 + j)
  <2> DEFINE b == 13 + j
  <2>1. b - 13 = 0 + j /\ b \in 0 .. 31 /\ ~(b < 2) /\ ~(b > 15) /\ b \in 13 .. 15
    OBVIOUS
  <2>2. b - form.rd[1] \notin 0 .. form.rd[2] - 1
    BY <1>1
  <2> HIDE DEF b
  <2>3. word[b] = BitOf(form.funct3, b - 13)
    BY <1>2, <2>1, <2>2
  <2> QED
    BY <2>1, <2>3 DEF b
<1>6. ASSUME NEW j \in 0 .. form.rd[2] - 1
      PROVE  word[form.rd[1] + j] = BitOf(i.rd - form.rd[3], 0 + j)
  <2> DEFINE b == form.rd[1] + j
  <2>1. b \in 2 .. 12 /\ b - form.rd[1] = 0 + j
    BY <1>1
  <2> HIDE DEF b
  <2>2. /\ b \in 0 .. 31 /\ ~(b < 2) /\ ~(b > 15) /\ b \notin 13 .. 15
        /\ b - form.rd[1] \in 0 .. form.rd[2] - 1
    BY <2>1
  <2>3. word[b] = BitOf(i.rd - form.rd[3], b - form.rd[1])
    BY <1>2, <2>2
  <2> QED
    BY <2>1, <2>3 DEF b
<1>7. ASSUME NEW k \in DOMAIN form.imm PROVE word[form.imm[k]] = BitOf(i.imm, k)
  <2> DEFINE b == form.imm[k]
  <2>1. b \in 2 .. 12 /\ b - form.rd[1] \notin 0 .. form.rd[2] - 1 /\ Place(b) = k
    BY <1>1, <1>3
  <2> HIDE DEF b
  <2>2. b \in 0 .. 31 /\ ~(b < 2) /\ ~(b > 15) /\ b \notin 13 .. 15
    BY <2>1
  <2>3. word[b] = BitOf(i.imm, Place(b))
    BY <1>2, <2>1, <2>2
  <2> QED
    BY <2>1, <2>3 DEF b
<1> QED
  BY <1>4, <1>5, <1>6, <1>7 DEF form, word

(* The quadrant and funct3 of a compressed instruction, its register, and the *)
(* pieces of its immediate. *)
LEMMA CompressedPieces ==
  ASSUME NEW i, IsCompressed(i), instructionWord = EncodeCompressed(i)
  PROVE  LET form == CompressedForm[i.opcode] IN
           /\ Bits(0, 2) = form.quadrant /\ Bits(13, 3) = form.funct3
           /\ Bits(form.rd[1], form.rd[2]) = i.rd - form.rd[3]
           /\ \A from \in 0 .. 9, shift \in 0 .. 12, width \in 0 .. 6 :
                (\A j \in 0 .. width - 1 : /\ from + j \in DOMAIN form.imm
                                           /\ form.imm[from + j] = shift + j)
                => Bits(shift, width) = (i.imm \div TwoTo[from]) % TwoTo[width]
<1> DEFINE form == CompressedForm[i.opcode]
           f == form.rd[1]
           w == form.rd[2]
           r == i.rd - form.rd[3]
           v == i.imm
<1>1. i.opcode \in CompressedOpcode
  BY CompressedForms DEF IsCompressed
<1>2. /\ \A j \in 0 .. 1 : instructionWord[0 + j] = BitOf(form.quadrant, 0 + j)
      /\ \A j \in 0 .. 2 : instructionWord[13 + j] = BitOf(form.funct3, 0 + j)
      /\ \A j \in 0 .. w - 1 : instructionWord[f + j] = BitOf(r, 0 + j)
      /\ \A k \in DOMAIN form.imm : instructionWord[form.imm[k]] = BitOf(v, k)
  BY <1>1, EncodedCompressed
<1>3. /\ form.quadrant \in 0 .. 3 /\ form.funct3 \in 0 .. 7 /\ v \in Int
      /\ f \in Nat /\ w \in 0 .. 21 /\ r \in 0 .. TwoTo[w] - 1
  <2>1. v \in Int
    BY DEF IsCompressed
  <2>2. CASE i.opcode = "C_ADDI4SPN"
    <3>1. i.rd \in 8 .. 15
      BY <2>2 DEF IsCompressed
    <3>2. /\ form.quadrant = 0 /\ form.funct3 = 0
          /\ form.rd[1] = 2 /\ form.rd[2] = 3 /\ form.rd[3] = 8
      BY <2>2, StackForm
    <3> HIDE DEF form
    <3> QED
      BY <2>1, <3>1, <3>2, PowerValues, SMT
  <2>3. CASE i.opcode \in {"C_ADDIW", "C_SLLI"}
    <3>1. i.rd \in 0 .. 31
      BY <2>3 DEF IsCompressed
    <3>2. /\ form.quadrant \in 0 .. 3 /\ form.funct3 \in 0 .. 7
          /\ form.rd[1] = 7 /\ form.rd[2] = 5 /\ form.rd[3] = 0
      BY <2>3, SplitForm
    <3> HIDE DEF form
    <3> QED
      BY <2>1, <3>1, <3>2, PowerValues, SMT
  <2> QED
    BY <1>1, <2>2, <2>3 DEF CompressedOpcode
<1> HIDE DEF form, f, w, r, v
<1>4. Bits(0, 2) = form.quadrant
  <2>1. form.quadrant \in 0 .. TwoTo[2] - 1
    BY <1>3, PowerValues, SMT
  <2>2. \A j \in 0 .. 2 - 1 : instructionWord[0 + j] = BitOf(form.quadrant, 0 + j)
    BY <1>2
  <2> QED
    BY <2>1, <2>2, BitsOfSmall
<1>5. Bits(13, 3) = form.funct3
  <2>1. form.funct3 \in 0 .. TwoTo[3] - 1
    BY <1>3, PowerValues, SMT
  <2>2. \A j \in 0 .. 3 - 1 : instructionWord[13 + j] = BitOf(form.funct3, 0 + j)
    BY <1>2
  <2> QED
    BY <2>1, <2>2, BitsOfSmall
<1>6. Bits(f, w) = r
  BY <1>2, <1>3, BitsOfSmall
<1>7. ASSUME NEW from \in 0 .. 9, NEW shift \in 0 .. 12, NEW width \in 0 .. 6,
             \A j \in 0 .. width - 1 : /\ from + j \in DOMAIN form.imm
                                       /\ form.imm[from + j] = shift + j
      PROVE  Bits(shift, width) = (v \div TwoTo[from]) % TwoTo[width]
  <2>1. \A k \in 0 .. width - 1 : instructionWord[shift + k] = BitOf(v, from + k)
    BY <1>2, <1>7
  <2>2. /\ from \in 0 .. 21 /\ width \in 0 .. 21 /\ from + width <= 21 /\ shift \in Nat
    OBVIOUS
  <2> QED
    BY <1>3, <2>1, <2>2, BitsOf
<1> QED
  BY <1>4, <1>5, <1>6, <1>7 DEF form, f, w, r, v

(* The fields and the immediate fill the word. *)
LEMMA FieldsCover ==
  ASSUME NEW type \in Types, NEW b \in 7 .. 31,
         ~ \E k \in DOMAIN ImmediateBits(type) : ImmediateBits(type)[k] = b
  PROVE  \E f \in Fields : HasField(type, f) /\ b - First(f) \in 0 .. Width(f) - 1
<1> DEFINE Ours(f) == f \in Fields /\ HasField(type, f) /\ b - First(f) \in 0 .. Width(f) - 1
<1>1. /\ b \in 7 .. 11 /\ HasField(type, "rd") => Ours("rd")
      /\ b \in 12 .. 14 /\ HasField(type, "funct3") => Ours("funct3")
      /\ b \in 15 .. 19 /\ HasField(type, "rs1") => Ours("rs1")
      /\ b \in 20 .. 24 /\ HasField(type, "rs2") => Ours("rs2")
      /\ b \in 25 .. 31 /\ HasField(type, "funct7") => Ours("funct7")
  BY FieldPlaces DEF Fields
<1>2. CASE type = "R"
  <2>1. \A f \in Fields : HasField(type, f)
    BY <1>2 DEF HasField, Fields
  <2> HIDE DEF Ours
  <2>2. Ours("rd") \/ Ours("funct3") \/ Ours("rs1") \/ Ours("rs2") \/ Ours("funct7")
    BY <1>1, <2>1 DEF Fields
  <2> QED
    BY <2>2 DEF Ours
<1>3. CASE type = "I"
  <2>1. b - 20 \notin 0 .. 11
    <3>1. ImmediateBits(type) = [k \in 0 .. 11 |-> 20 + k]
      BY <1>3 DEF ImmediateBits
    <3>2. b - 20 \in 0 .. 11 => ImmediateBits(type)[b - 20] = b
      BY <3>1
    <3> QED
      BY <3>1, <3>2
  <2>2. HasField(type, "rd") /\ HasField(type, "funct3") /\ HasField(type, "rs1")
    BY <1>3 DEF HasField
  <2> HIDE DEF Ours
  <2>3. Ours("rd") \/ Ours("funct3") \/ Ours("rs1")
    BY <1>1, <2>1, <2>2
  <2> QED
    BY <2>3 DEF Ours
<1>4. CASE type \in {"S", "B"}
  <2>1. b \in 12 .. 24
    <3>1. CASE type = "S"
      <4>1. \A k \in 0 .. 11 : b # IF k < 5 THEN 7 + k ELSE 20 + k
        BY <3>1 DEF ImmediateBits
      <4>2. b \in 7 .. 11 => b - 7 \in 0 .. 11
        OBVIOUS
      <4>3. b \in 25 .. 31 => b - 20 \in 0 .. 11
        OBVIOUS
      <4> QED
        BY <4>1, <4>2, <4>3
    <3>2. CASE type = "B"
      <4>1. /\ DOMAIN ImmediateBits(type) = 1 .. 12
            /\ \A k \in 1 .. 4 : ImmediateBits(type)[k] = 7 + k
            /\ \A k \in 5 .. 10 : ImmediateBits(type)[k] = 20 + k
            /\ ImmediateBits(type)[11] = 7 /\ ImmediateBits(type)[12] = 31
        BY <3>2 DEF ImmediateBits
      <4>2. b \in 8 .. 11 => b - 7 \in 1 .. 4
        OBVIOUS
      <4>3. b \in 25 .. 30 => b - 20 \in 5 .. 10
        OBVIOUS
      <4> QED
        BY <4>1, <4>2, <4>3
    <3> QED
      BY <1>4, <3>1, <3>2
  <2>2. HasField(type, "funct3") /\ HasField(type, "rs1") /\ HasField(type, "rs2")
    BY <1>4 DEF HasField
  <2> HIDE DEF Ours
  <2>3. Ours("funct3") \/ Ours("rs1") \/ Ours("rs2")
    BY <1>1, <2>1, <2>2
  <2> QED
    BY <2>3 DEF Ours
<1>5. CASE type \in {"U", "J"}
  <2>1. b \in 7 .. 11
    <3>1. CASE type = "U"
      <4>1. ImmediateBits(type) = [k \in 0 .. 19 |-> 12 + k]
        BY <3>1 DEF ImmediateBits
      <4>2. b - 12 \in 0 .. 19 => ImmediateBits(type)[b - 12] = b
        BY <4>1
      <4>3. b - 12 \notin 0 .. 19
        BY <4>1, <4>2
      <4> QED
        BY <4>3
    <3>2. CASE type = "J"
      <4>1. /\ \A k \in 1 .. 10 : b # 20 + k
            /\ \A k \in 12 .. 19 : b # k
            /\ b # 20 /\ b # 31
        BY <3>2 DEF ImmediateBits
      <4>2. b \in 21 .. 30 => b - 20 \in 1 .. 10
        OBVIOUS
      <4> QED
        BY <4>1, <4>2
    <3> QED
      BY <1>5, <3>1, <3>2
  <2>2. HasField(type, "rd")
    BY <1>5 DEF HasField
  <2>3. Ours("rd")
    BY <1>1, <2>1, <2>2
  <2> QED
    BY <2>3
<1> QED
  BY <1>2, <1>3, <1>4, <1>5 DEF Types

LEMMA InstructionBits ==
  ASSUME NEW i, IsInstruction(i), NEW b \in 0 .. 31
  PROVE  EncodeInstruction(i)[b] \in {0, 1}
<1> DEFINE type == InstructionType(i.opcode)
<1>1. type \in Types /\ i.imm \in Int /\ i.opcode \in KnownOpcode
  BY InstructionParts, TypeOfOpcode
<1>2. CASE b < 7
  <2>1. OpcodeNumber[i.opcode] \in Int
    BY <1>1 DEF KnownOpcode, OpcodeNumber
  <2> QED
    BY <1>2, <2>1, EncodedOpcode, BitOfType
<1>3. CASE \E k \in DOMAIN ImmediateBits(type) : ImmediateBits(type)[k] = b
  <2>1. PICK k \in DOMAIN ImmediateBits(type) : ImmediateBits(type)[k] = b
    BY <1>3
  <2>2. EncodeInstruction(i)[b] = BitOf(i.imm, k)
    BY <1>1, <2>1, EncodedImmediate
  <2>3. k \in 0 .. 21
    <3> HIDE DEF type
    <3> QED
      BY <1>1, <2>1 DEF Types, ImmediateBits
  <2> QED
    BY <1>1, <2>2, <2>3, BitOfType
<1>4. CASE b >= 7 /\ ~ \E k \in DOMAIN ImmediateBits(type) : ImmediateBits(type)[k] = b
  <2>1. PICK f \in Fields : HasField(type, f) /\ b - First(f) \in 0 .. Width(f) - 1
    <3>1. b \in 7 .. 31
      BY <1>4
    <3> HIDE DEF type
    <3> QED
      BY <1>1, <1>4, <3>1, FieldsCover
  <2> DEFINE j == b - First(f)
  <2>2. First(f) + j = b /\ j \in 0 .. 21
    BY <2>1, FieldPlaces DEF Fields
  <2>3. EncodeInstruction(i)[First(f) + j] = BitOf(i[f], j)
    BY <1>1, <2>1, EncodedField
  <2>4. i[f] \in Int
    BY InstructionParts DEF Fields
  <2> HIDE DEF j
  <2> QED
    BY <2>2, <2>3, <2>4, BitOfType
<1> QED
  BY <1>2, <1>3, <1>4

LEMMA CompressedBits ==
  ASSUME NEW i, IsCompressed(i), NEW b \in 0 .. 31
  PROVE  EncodeCompressed(i)[b] \in {0, 1}
<1> DEFINE form == CompressedForm[i.opcode]
           Place == CHOOSE k \in DOMAIN form.imm : form.imm[k] = b
<1>1. i.imm \in Int /\ i.rd \in Int /\ i.next \in {0, 1}
  BY DEF IsCompressed
<1>2. /\ form.quadrant \in Int /\ form.funct3 \in Int /\ form.rd[3] \in Int
      /\ form.rd[2] \in 0 .. 5 /\ form.rd[1] \in Int /\ DOMAIN form.imm \subseteq 0 .. 21
      /\ b \in 2 .. 12 /\ b - form.rd[1] \notin 0 .. form.rd[2] - 1
           => \E k \in DOMAIN form.imm : form.imm[k] = b
  <2>1. CASE i.opcode = "C_ADDI4SPN"
    <3>1. /\ form.quadrant = 0 /\ form.funct3 = 0
          /\ form.rd[1] = 2 /\ form.rd[2] = 3 /\ form.rd[3] = 8
          /\ DOMAIN form.imm = 2 .. 9
          /\ form.imm[2] = 6 /\ form.imm[3] = 5 /\ form.imm[4] = 11 /\ form.imm[5] = 12
          /\ form.imm[6] = 7 /\ form.imm[7] = 8 /\ form.imm[8] = 9 /\ form.imm[9] = 10
      BY <2>1, StackForm
    <3> HIDE DEF form
    <3>2. b \in 2 .. 12 /\ b - 2 \notin 0 .. 2 => b \in {5, 6, 7, 8, 9, 10, 11, 12}
      OBVIOUS
    <3> QED
      BY <3>1, <3>2
  <2>2. CASE i.opcode \in {"C_ADDIW", "C_SLLI"}
    <3>1. /\ form.quadrant \in Int /\ form.funct3 \in Int
          /\ form.rd[1] = 7 /\ form.rd[2] = 5 /\ form.rd[3] = 0
          /\ DOMAIN form.imm = 0 .. 5
          /\ form.imm[0] = 2 /\ form.imm[1] = 3 /\ form.imm[2] = 4 /\ form.imm[3] = 5
          /\ form.imm[4] = 6 /\ form.imm[5] = 12
      BY <2>2, SplitForm
    <3> HIDE DEF form
    <3>2. b \in 2 .. 12 /\ b - 7 \notin 0 .. 4 => b \in {2, 3, 4, 5, 6, 12}
      OBVIOUS
    <3> QED
      BY <3>1, <3>2
  <2> QED
    BY <2>1, <2>2, CompressedForms DEF IsCompressed, CompressedOpcode
<1>3. EncodeCompressed(i)[b] =
        (CASE b < 2  -> BitOf(form.quadrant, b)
           [] b > 15 -> i.next
           [] b \in 13 .. 15 -> BitOf(form.funct3, b - 13)
           [] b - form.rd[1] \in 0 .. form.rd[2] - 1 -> BitOf(i.rd - form.rd[3], b - form.rd[1])
           [] OTHER -> BitOf(i.imm, Place))
  BY DEF EncodeCompressed
<1>4. \A j \in 0 .. form.rd[2] - 1 : form.rd[1] + j \in 2 .. 12
  BY CompressedPlaces, CompressedForms DEF IsCompressed
<1>5. (\E k \in DOMAIN form.imm : form.imm[k] = b) => Place \in DOMAIN form.imm
  OBVIOUS
<1> HIDE DEF form, Place
<1>6. CASE b < 2
  <2>1. b - form.rd[1] \notin 0 .. form.rd[2] - 1 /\ b \in 0 .. 21
    BY <1>2, <1>4, <1>6
  <2>2. EncodeCompressed(i)[b] = BitOf(form.quadrant, b)
    BY <1>3, <1>6, <2>1
  <2> QED
    BY <1>2, <2>1, <2>2, BitOfType
<1>7. CASE b > 15
  <2>1. b - form.rd[1] \notin 0 .. form.rd[2] - 1
    BY <1>2, <1>4, <1>7
  <2> QED
    BY <1>1, <1>3, <1>7, <2>1
<1>8. CASE b \in 13 .. 15
  <2>1. b - form.rd[1] \notin 0 .. form.rd[2] - 1 /\ b - 13 \in 0 .. 21
    <3>1. b \notin 2 .. 12 /\ b - 13 \in 0 .. 21
      BY <1>8
    <3> QED
      BY <1>2, <1>4, <3>1
  <2>2. EncodeCompressed(i)[b] = BitOf(form.funct3, b - 13)
    BY <1>3, <1>8, <2>1
  <2> QED
    BY <1>2, <2>1, <2>2, BitOfType
<1>9. CASE b \in 2 .. 12 /\ b - form.rd[1] \in 0 .. form.rd[2] - 1
  <2>1. b - form.rd[1] \in 0 .. 21 /\ i.rd - form.rd[3] \in Int
    BY <1>1, <1>2, <1>9
  <2>2. EncodeCompressed(i)[b] = BitOf(i.rd - form.rd[3], b - form.rd[1])
    BY <1>3, <1>9
  <2> QED
    BY <2>1, <2>2, BitOfType
<1>10. CASE b \in 2 .. 12 /\ b - form.rd[1] \notin 0 .. form.rd[2] - 1
  <2>1. Place \in 0 .. 21
    BY <1>2, <1>5, <1>10
  <2>2. EncodeCompressed(i)[b] = BitOf(i.imm, Place)
    BY <1>3, <1>10
  <2> QED
    BY <1>1, <2>1, <2>2, BitOfType
<1> QED
  BY <1>6, <1>7, <1>8, <1>9, <1>10

LEMMA WordBits ==
  ASSUME WordInv, isSet, NEW b \in 0 .. 31
  PROVE  instructionWord[b] \in {0, 1}
<1>1. IsInstruction(source) \/ IsCompressed(source) \/ IsOther(source)
  BY AssemblyAssumption DEF WordInv
<1>2. instructionWord = Encode(source)
  BY DEF WordInv
<1>3. CASE IsInstruction(source)
  <2>1. source.opcode \in KnownOpcode
    BY <1>3, InstructionParts
  <2> QED
    BY <1>3, <2>1, WordOfInstruction, InstructionBits
<1>4. CASE IsCompressed(source)
  <2>1. source.opcode \in CompressedOpcode /\ source.opcode \notin KnownOpcode
    BY <1>4, CompressedForms DEF IsCompressed, CompressedOpcode, KnownOpcode
  <2>2. instructionWord = EncodeCompressed(source)
    BY <1>2, <2>1, CompressedForms DEF Encode
  <2> QED
    BY <1>4, <2>2, CompressedBits
<1>5. CASE IsOther(source)
  <2>1. instructionWord[b] = IF b < 16 THEN BitOf(source.low, b) ELSE source.next
    BY <1>2, <1>5 DEF IsOther, Encode
  <2>2. source.low \in Int /\ source.next \in {0, 1}
    BY <1>5 DEF IsOther
  <2>3. b < 16 => b \in 0 .. 21
    OBVIOUS
  <2> QED
    BY <2>1, <2>2, <2>3, BitOfType
<1> QED
  BY <1>1, <1>3, <1>4, <1>5

(* The values of funct3 and funct7, whatever the word. *)
LEMMA FunctRange ==
  ASSUME WordInv, isSet
  PROVE  GetFunct3 \in 0 .. 7 /\ GetFunct7 \in 0 .. 127
<1>1. \A k \in 0 .. 3 - 1 : instructionWord[12 + k] \in {0, 1}
  BY WordBits
<1>2. \A k \in 0 .. 7 - 1 : instructionWord[25 + k] \in {0, 1}
  BY WordBits
<1>3. Bits(12, 3) \in 0 .. TwoTo[3] - 1 /\ Bits(25, 7) \in 0 .. TwoTo[7] - 1
  BY <1>1, <1>2, BitsRange
<1> QED
  BY <1>3, PowerValues, SMT DEF GetFunct3, GetFunct7

(* An opcode the decoder knows is that of a word of 32 bits. *)
LEMMA QuadrantOfOpcode ==
  ASSUME WordInv, isSet, GetOpcode \in KnownOpcode
  PROVE  Bits(0, 2) = 3
<1>1. \A b \in 0 .. 6 : instructionWord[b] \in {0, 1}
  BY WordBits
<1>2. Bits(0, 7) \in {OpcodeNumber[o] : o \in KnownOpcode}
  BY DEF GetOpcode, KnownOpcode
<1>3. \A o \in KnownOpcode : OpcodeNumber[o] \in Int /\ OpcodeNumber[o] % 4 = 3
  BY DEF KnownOpcode, OpcodeNumber
<1> DEFINE B(b) == instructionWord[b]
<1>4. Bits(0, 2) = B(0) + B(1) * 2
  <2>1. PICK sum : /\ sum[0] = 0
                   /\ \A n \in 0 .. 2 - 1 :
                        sum[n + 1] = sum[n] + instructionWord[0 + n] * TwoTo[n]
                   /\ Bits(0, 2) = sum[2]
    BY BitsSum
  <2>2. sum[1] = 0 + B(0) * TwoTo[0] /\ sum[2] = sum[1] + B(1) * TwoTo[1]
    BY <2>1
  <2> QED
    BY <1>1, <2>1, <2>2, PowerValues, SMT
<1>5. Bits(0, 7) = B(0) + B(1) * 2 + 4 * (B(2) + B(3) * 2 + B(4) * 4 + B(5) * 8 + B(6) * 16)
  <2>1. PICK sum : /\ sum[0] = 0
                   /\ \A n \in 0 .. 7 - 1 :
                        sum[n + 1] = sum[n] + instructionWord[0 + n] * TwoTo[n]
                   /\ Bits(0, 7) = sum[7]
    BY BitsSum
  <2>2. /\ sum[1] = 0 + B(0) * TwoTo[0] /\ sum[2] = sum[1] + B(1) * TwoTo[1]
        /\ sum[3] = sum[2] + B(2) * TwoTo[2] /\ sum[4] = sum[3] + B(3) * TwoTo[3]
        /\ sum[5] = sum[4] + B(4) * TwoTo[4] /\ sum[6] = sum[5] + B(5) * TwoTo[5]
        /\ sum[7] = sum[6] + B(6) * TwoTo[6]
    BY <2>1
  <2> QED
    BY <1>1, <2>1, <2>2, PowerValues, SMT
<1>6. B(0) + B(1) * 2 \in 0 .. 3 /\ B(2) + B(3) * 2 + B(4) * 4 + B(5) * 8 + B(6) * 16 \in Int
  BY <1>1
<1> DEFINE x == B(0) + B(1) * 2
           y == B(2) + B(3) * 2 + B(4) * 4 + B(5) * 8 + B(6) * 16
<1>7. Bits(0, 7) = x + 4 * y /\ x \in 0 .. 3 /\ y \in Int /\ Bits(0, 2) = x
  BY <1>4, <1>5, <1>6
<1> HIDE DEF x, y
<1>8. (x + 4 * y) % 4 = x
  BY <1>7
<1> QED
  BY <1>2, <1>3, <1>7, <1>8

(* The immediates put together again. *)
LEMMA PiecesOf10 ==
  ASSUME NEW v \in Int, 0 <= v, v < 1024, v % 4 = 0
  PROVE  ((v \div 16) % 4) * 16 + ((v \div 64) % 16) * 64
           + ((v \div 4) % 2) * 4 + ((v \div 8) % 2) * 8 = v
<1>1. ((v \div 4) % 2) * 4 + ((v \div 8) % 2) * 8 = v % 16
  BY SMT
<1>2. ((v \div 16) % 4) * 16 + (v % 16) = v % 64
  BY SMT
<1>3. ((v \div 64) % 16) * 64 + (v % 64) = v
  BY SMT
<1> QED
  BY <1>1, <1>2, <1>3, SMT

LEMMA PiecesOf6 ==
  ASSUME NEW v \in Int
  PROVE  ((v \div 32) % 2) * 32 + (v % 32) = v % 64
  BY SMT

(* What the formatter makes of each quadrant.                                *)
LEMMA FormattedFirst ==
  ASSUME Bits(0, 2) = 0, Bits(13, 3) = 0
  PROVE  FormatCompressed = Line("addi", <<Bits(2, 3) + 8, 2>>, StackImmediate)
  BY SMT DEF FormatCompressed

LEMMA FormattedSecond ==
  ASSUME Bits(0, 2) = 1, Bits(13, 3) = 1
  PROVE  FormatCompressed =
           SignExtended(Line("addiw", <<Bits(7, 5), Bits(7, 5)>>, SplitImmediate), 6)
  BY SMT DEF FormatCompressed

LEMMA FormattedThird ==
  ASSUME Bits(0, 2) = 2, Bits(13, 3) = 0
  PROVE  FormatCompressed = Line("slli", <<Bits(7, 5), Bits(7, 5)>>, SplitImmediate)
  BY SMT DEF FormatCompressed

LEMMA CompressedDecoded ==
  ASSUME NEW i, IsCompressed(i), instructionWord = EncodeCompressed(i)
  PROVE  FormatCompressed.registers[1] = i.rd /\ FormatCompressed.imm = i.imm
<1> DEFINE form == CompressedForm[i.opcode]
           v == i.imm
           IsPiece(from, shift, width) ==
             \A j \in 0 .. width - 1 : /\ from + j \in DOMAIN form.imm
                                      /\ form.imm[from + j] = shift + j
<1>1. /\ Bits(0, 2) = form.quadrant /\ Bits(13, 3) = form.funct3
      /\ Bits(form.rd[1], form.rd[2]) = i.rd - form.rd[3]
      /\ \A from \in 0 .. 9, shift \in 0 .. 12, width \in 0 .. 6 :
           IsPiece(from, shift, width)
           => Bits(shift, width) = (v \div TwoTo[from]) % TwoTo[width]
  BY CompressedPieces
<1>5. Bits(0, 2) = form.quadrant /\ Bits(13, 3) = form.funct3
  BY <1>1
<1>6. Bits(form.rd[1], form.rd[2]) = i.rd - form.rd[3]
  BY <1>1
<1>7. ASSUME NEW from \in 0 .. 9, NEW shift \in 0 .. 12, NEW width \in 0 .. 6,
             IsPiece(from, shift, width)
      PROVE  Bits(shift, width) = (v \div TwoTo[from]) % TwoTo[width]
  BY <1>1, <1>7
<1>2. v \in Int /\ v \div 1 = v
  BY DEF IsCompressed
<1>3. CASE i.opcode = "C_ADDI4SPN"
  <2>1. /\ form.quadrant = 0 /\ form.funct3 = 0
        /\ form.rd[1] = 2 /\ form.rd[2] = 3 /\ form.rd[3] = 8
        /\ DOMAIN form.imm = 2 .. 9
        /\ form.imm[2] = 6 /\ form.imm[3] = 5 /\ form.imm[4] = 11 /\ form.imm[5] = 12
        /\ form.imm[6] = 7 /\ form.imm[7] = 8 /\ form.imm[8] = 9 /\ form.imm[9] = 10
    BY <1>3, StackForm
  <2>2. 0 <= v /\ v < 1024 /\ v % 4 = 0 /\ i.rd \in 8 .. 15
    BY <1>3 DEF IsCompressed
  <2> HIDE DEF form, v
  <2>3. IsPiece(2, 6, 1) /\ IsPiece(3, 5, 1) /\ IsPiece(4, 11, 2)
    BY <2>1
  <2>4. IsPiece(6, 7, 4)
    <3> SUFFICES ASSUME NEW j \in 0 .. 4 - 1
                 PROVE  6 + j \in DOMAIN form.imm /\ form.imm[6 + j] = 7 + j
      OBVIOUS
    <3>1. 6 + j \in DOMAIN form.imm
      BY <2>1
    <3>2. 6 + j = 6 \/ 6 + j = 7 \/ 6 + j = 8 \/ 6 + j = 9
      OBVIOUS
    <3> QED
      BY <2>1, <3>1, <3>2
  <2> HIDE DEF IsPiece
  <2>5. /\ Bits(6, 1) = (v \div 4) % 2 /\ Bits(5, 1) = (v \div 8) % 2
        /\ Bits(11, 2) = (v \div 16) % 4 /\ Bits(7, 4) = (v \div 64) % 16
    <3>0. (2 \in 0 .. 9 /\ 3 \in 0 .. 9 /\ 4 \in 0 .. 9 /\ 6 \in 0 .. 9)
        /\ (6 \in 0 .. 12 /\ 5 \in 0 .. 12 /\ 11 \in 0 .. 12 /\ 7 \in 0 .. 12)
        /\ (1 \in 0 .. 6 /\ 2 \in 0 .. 6 /\ 4 \in 0 .. 6)
      OBVIOUS
    <3>1. Bits(6, 1) = (v \div TwoTo[2]) % TwoTo[1]
      BY <1>7, <2>3, <3>0, Zenon
    <3>2. Bits(5, 1) = (v \div TwoTo[3]) % TwoTo[1]
      BY <1>7, <2>3, <3>0, Zenon
    <3>3. Bits(11, 2) = (v \div TwoTo[4]) % TwoTo[2]
      BY <1>7, <2>3, <3>0, Zenon
    <3>4. Bits(7, 4) = (v \div TwoTo[6]) % TwoTo[4]
      BY <1>7, <2>4, <3>0, Zenon
    <3>5. /\ TwoTo[1] = 2 /\ TwoTo[2] = 4 /\ TwoTo[3] = 8 /\ TwoTo[4] = 16
          /\ TwoTo[6] = 64
      BY PowerValues, SMT
    <3> QED
      BY <3>1, <3>2, <3>3, <3>4, <3>5
  <2>6. StackImmediate = v
    <3>1. TwoTo[4] = 16 /\ TwoTo[6] = 64 /\ TwoTo[2] = 4 /\ TwoTo[3] = 8
      BY PowerValues, SMT
    <3>2. ((v \div 16) % 4) * 16 + ((v \div 64) % 16) * 64
            + ((v \div 4) % 2) * 4 + ((v \div 8) % 2) * 8 = v
      BY <1>2, <2>2, PiecesOf10
    <3>3. StackImmediate = ((v \div 16) % 4) * 16 + ((v \div 64) % 16) * 64
                             + ((v \div 4) % 2) * 4 + ((v \div 8) % 2) * 8
      BY <2>5, <3>1, Zenon DEF StackImmediate
    <3> QED
      BY <3>2, <3>3
  <2>7. Bits(2, 3) + 8 = i.rd
    BY <1>6, <2>1, <2>2
  <2>8. FormatCompressed = Line("addi", <<Bits(2, 3) + 8, 2>>, StackImmediate)
    <3>1. Bits(0, 2) = 0 /\ Bits(13, 3) = 0
      BY <1>5, <2>1
    <3> QED
      BY <3>1, FormattedFirst
  <2> QED
    BY <2>6, <2>7, <2>8 DEF Line, v
<1>4. CASE i.opcode \in {"C_ADDIW", "C_SLLI"}
  <2>1. /\ form.quadrant = (IF i.opcode = "C_SLLI" THEN 2 ELSE 1)
        /\ form.funct3 = (IF i.opcode = "C_SLLI" THEN 0 ELSE 1)
        /\ form.rd[1] = 7 /\ form.rd[2] = 5 /\ form.rd[3] = 0
        /\ DOMAIN form.imm = 0 .. 5
        /\ form.imm[0] = 2 /\ form.imm[1] = 3 /\ form.imm[2] = 4 /\ form.imm[3] = 5
        /\ form.imm[4] = 6 /\ form.imm[5] = 12
    BY <1>4, SplitForm
  <2>2. /\ i.opcode = "C_ADDIW" => -32 <= v /\ v < 32
        /\ i.opcode = "C_SLLI" => 0 <= v /\ v < 64
        /\ i.rd \in 0 .. 31
    BY <1>4 DEF IsCompressed
  <2> HIDE DEF form, v
  <2>3. IsPiece(5, 12, 1)
    BY <2>1
  <2>4. IsPiece(0, 2, 5)
    <3> SUFFICES ASSUME NEW j \in 0 .. 5 - 1
                 PROVE  0 + j \in DOMAIN form.imm /\ form.imm[0 + j] = 2 + j
      OBVIOUS
    <3>1. 0 + j \in DOMAIN form.imm
      BY <2>1
    <3>2. 0 + j = 0 \/ 0 + j = 1 \/ 0 + j = 2 \/ 0 + j = 3 \/ 0 + j = 4
      OBVIOUS
    <3> QED
      BY <2>1, <3>1, <3>2
  <2> HIDE DEF IsPiece
  <2>5. Bits(12, 1) = (v \div 32) % 2 /\ Bits(2, 5) = v % 32
    <3>0. /\ 5 \in 0 .. 9 /\ 12 \in 0 .. 12 /\ 1 \in 0 .. 6
          /\ 0 \in 0 .. 9 /\ 2 \in 0 .. 12 /\ 5 \in 0 .. 6
      OBVIOUS
    <3>1. Bits(12, 1) = (v \div TwoTo[5]) % TwoTo[1]
      BY <1>7, <2>3, <3>0, Zenon
    <3>2. Bits(2, 5) = (v \div TwoTo[0]) % TwoTo[5]
      BY <1>7, <2>4, <3>0, Zenon
    <3>3. TwoTo[0] = 1 /\ TwoTo[1] = 2 /\ TwoTo[5] = 32
      BY PowerValues, SMT
    <3> QED
      BY <1>2, <3>1, <3>2, <3>3
  <2>6. SplitImmediate = v % 64
    <3>1. TwoTo[5] = 32
      BY PowerValues, SMT
    <3>2. ((v \div 32) % 2) * 32 + (v % 32) = v % 64
      BY <1>2, PiecesOf6
    <3> QED
      BY <2>5, <3>1, <3>2, Zenon DEF SplitImmediate
  <2>7. Bits(7, 5) = i.rd
    BY <1>6, <2>1, <2>2
  <2>8. CASE i.opcode = "C_ADDIW"
    <3>1. FormatCompressed = SignExtended(Line("addiw", <<Bits(7, 5), Bits(7, 5)>>, SplitImmediate), 6)
      <4>1. Bits(0, 2) = 1 /\ Bits(13, 3) = 1
        BY <1>5, <2>1, <2>8
      <4> QED
        BY <4>1, FormattedSecond
    <3>2. SignExtend(SplitImmediate, 6) = v
      <4>1. TwoTo[5] = 32 /\ TwoTo[6] = 64
        BY PowerValues, SMT
      <4>2. (IF v % 64 >= 32 THEN (v % 64) - 64 ELSE v % 64) = v
        BY <1>2, <2>2, <2>8
      <4> QED
        BY <2>6, <4>1, <4>2 DEF SignExtend
    <3>3. /\ FormatCompressed.imm = v
          /\ FormatCompressed.registers = <<Bits(7, 5), Bits(7, 5)>>
      BY <3>1, <3>2 DEF SignExtended, Line
    <3> QED
      BY <2>7, <3>3 DEF v
  <2>9. CASE i.opcode = "C_SLLI"
    <3>1. FormatCompressed = Line("slli", <<Bits(7, 5), Bits(7, 5)>>, SplitImmediate)
      <4>1. Bits(0, 2) = 2 /\ Bits(13, 3) = 0
        BY <1>5, <2>1, <2>9
      <4> QED
        BY <4>1, FormattedThird
    <3>2. v % 64 = v
      BY <1>2, <2>2, <2>9
    <3> QED
      BY <2>6, <2>7, <3>1, <3>2 DEF Line, v
  <2> QED
    BY <1>4, <2>8, <2>9
<1> QED
  BY <1>3, <1>4, CompressedForms DEF IsCompressed, CompressedOpcode

(* The quadrant of an instruction of 32 bits. *)
LEMMA QuadrantOfInstruction ==
  ASSUME NEW i, IsInstruction(i), instructionWord = EncodeInstruction(i)
  PROVE  Bits(0, 2) = 3
<1> DEFINE v == OpcodeNumber[i.opcode]
<1>1. v \in Int /\ v % 4 = 3
  BY InstructionParts DEF KnownOpcode, OpcodeNumber
<1>2. \A j \in 0 .. 2 - 1 : instructionWord[0 + j] = BitOf(v, 0 + j)
  BY EncodedOpcode
<1> HIDE DEF v
<1>3. Bits(0, 2) = v % TwoTo[2]
  <2>1. v \in Int
    BY <1>1
  <2> QED
    BY <1>2, <2>1, LowBits
<1> QED
  BY <1>1, <1>3, PowerValues, SMT

(* A word of 16 bits that is not one of them is illegal to the formatter. *)
LEMMA OtherIllegal ==
  ASSUME NEW i, IsOther(i), instructionWord = Encode(i)
  PROVE  FormatCompressed = Illegal
<1> DEFINE v == i.low
<1>1. v \in Int /\ v \div 1 = v
  BY DEF IsOther
<1>2. \A b \in 0 .. 15 : instructionWord[b] = BitOf(v, b)
  BY DEF IsOther, Encode
<1>3. \A o \in CompressedOpcode :
        v % 4 # CompressedForm[o].quadrant \/ (v \div 8192) % 8 # CompressedForm[o].funct3
  BY CompressedForms DEF IsOther
<1> HIDE DEF v
<1>4. Bits(0, 2) = v % 4
  <2>1. \A j \in 0 .. 2 - 1 : instructionWord[0 + j] = BitOf(v, 0 + j)
    BY <1>2
  <2>2. Bits(0, 2) = v % TwoTo[2]
    BY <1>1, <2>1, LowBits
  <2> QED
    BY <1>1, <2>2, PowerValues, SMT
<1>5. Bits(13, 3) = (v \div 8192) % 8
  <2>1. \A j \in 0 .. 3 - 1 : instructionWord[13 + j] = BitOf(v, 13 + j)
    BY <1>2
  <2>2. 13 \in 0 .. 21 /\ 13 \in Nat /\ 3 \in 0 .. 21 /\ 13 + 3 <= 21
    OBVIOUS
  <2>3. Bits(13, 3) = (v \div TwoTo[13]) % TwoTo[3]
    BY <1>1, <2>1, <2>2, BitsOf, Zenon
  <2> QED
    BY <1>1, <2>3, PowerValues, SMT
<1>6. /\ ~(Bits(0, 2) = 0 /\ Bits(13, 3) = 0) /\ ~(Bits(0, 2) = 1 /\ Bits(13, 3) = 1)
      /\ ~(Bits(0, 2) = 2 /\ Bits(13, 3) = 0)
  <2>1. CompressedForm["C_ADDI4SPN"].quadrant = 0 /\ CompressedForm["C_ADDI4SPN"].funct3 = 0
    BY StackForm
  <2>2. CompressedForm["C_ADDIW"].quadrant = 1 /\ CompressedForm["C_ADDIW"].funct3 = 1
    BY SplitForm
  <2>3. CompressedForm["C_SLLI"].quadrant = 2 /\ CompressedForm["C_SLLI"].funct3 = 0
    BY SplitForm
  <2> QED
    BY <1>3, <1>4, <1>5, <2>1, <2>2, <2>3 DEF CompressedOpcode
<1> QED
  BY <1>6 DEF FormatCompressed

(* The formatter gives back the register and the immediate of the compressed  *)
(* instructions it knows, whatever they are and whatever follows them, and    *)
(* takes no other word of 16 bits for one: inst-formatter.cc.                 *)
THEOREM CompressedPrinted == Spec => []CompressedAsEncoded
<1>1. WordInv => CompressedAsEncoded
  <2> SUFFICES ASSUME WordInv, isSet, Bits(0, 2) # 3 PROVE CompressedAsEncoded
    BY DEF CompressedAsEncoded
  <2>1. IsInstruction(source) \/ IsCompressed(source) \/ IsOther(source)
    BY AssemblyAssumption DEF WordInv
  <2>2. instructionWord = Encode(source)
    BY DEF WordInv
  <2>3. Printed = FormatCompressed
    BY QuadrantOfOpcode DEF Printed, KnownOpcode
  <2>4. ASSUME IsInstruction(source) PROVE FALSE
    <3>1. source.opcode \in KnownOpcode
      BY <2>4, InstructionParts
    <3> QED
      BY <3>1, WordOfInstruction, QuadrantOfInstruction
  <2>5. CASE IsCompressed(source)
    <3>1. source.opcode \in CompressedOpcode /\ source.opcode \notin KnownOpcode
      BY <2>5, CompressedForms DEF IsCompressed, CompressedOpcode, KnownOpcode
    <3>2. instructionWord = EncodeCompressed(source)
      BY <2>2, <3>1, CompressedForms DEF Encode
    <3>3. FormatCompressed.registers[1] = source.rd /\ FormatCompressed.imm = source.imm
      BY <2>5, <3>2, CompressedDecoded
    <3> QED
      BY <2>3, <3>1, <3>3, CompressedForms DEF CompressedAsEncoded
  <2>6. CASE IsOther(source)
    <3>1. source.opcode \notin DOMAIN CompressedForm
      BY <2>6 DEF IsOther
    <3>2. FormatCompressed = Illegal
      BY <2>2, <2>6, OtherIllegal
    <3> QED
      BY <2>3, <3>1, <3>2 DEF CompressedAsEncoded
  <2> QED
    BY <2>1, <2>4, <2>5, <2>6
<1> QED
  BY <1>1, Decoding, PTL

----------------------------------------------------------------------------
(* The operations of the immediate forms.                                    *)

(* A table selects one operation. *)
IsTable(operations) ==
  \A a, b \in 0 .. 127 : \A op1, op2 \in ALUOp :
    <<a, b, op1>> \in operations /\ <<a, b, op2>> \in operations => op1 = op2

LEMMA SelectedOfTable ==
  ASSUME NEW operations, IsTable(operations), NEW i,
         i.funct3 \in 0 .. 127, i.funct7 \in 0 .. 127
  PROVE  /\ \A op \in ALUOp :
              <<i.funct3, i.funct7, op>> \in operations => Selected(operations, i) = op
         /\ (\A op \in ALUOp : <<i.funct3, i.funct7, op>> \notin operations)
              => Selected(operations, i) = "NOP"
<1> DEFINE At(op) == <<i.funct3, i.funct7, op>> \in operations
           chosen == CHOOSE op \in ALUOp : At(op)
<1>1. Selected(operations, i) = IF \E op \in ALUOp : At(op) THEN chosen ELSE "NOP"
  BY DEF Selected
<1>2. \A op1, op2 \in ALUOp : At(op1) /\ At(op2) => op1 = op2
  BY DEF IsTable
<1>3. ASSUME NEW op \in ALUOp, At(op) PROVE chosen = op
  <2> HIDE DEF At
  <2>1. chosen \in ALUOp /\ At(chosen)
    BY <1>3
  <2> QED
    BY <1>2, <1>3, <2>1
<1> HIDE DEF chosen
<1> QED
  BY <1>1, <1>3

(* Two tables that agree at two instructions select the same there. *)
LEMMA SameSelected ==
  ASSUME NEW s, NEW t, IsTable(s), IsTable(t), NEW i, NEW j,
         i.funct3 \in 0 .. 127, i.funct7 \in 0 .. 127,
         j.funct3 \in 0 .. 127, j.funct7 \in 0 .. 127,
         \A op \in ALUOp : <<i.funct3, i.funct7, op>> \in s <=> <<j.funct3, j.funct7, op>> \in t
  PROVE  Selected(s, i) = Selected(t, j)
<1>1. CASE \E op \in ALUOp : <<i.funct3, i.funct7, op>> \in s
  <2>1. PICK op \in ALUOp : <<i.funct3, i.funct7, op>> \in s
    BY <1>1
  <2>2. Selected(s, i) = op
    BY <2>1, SelectedOfTable
  <2>3. Selected(t, j) = op
    BY <2>1, SelectedOfTable
  <2> QED
    BY <2>2, <2>3
<1>2. CASE ~ \E op \in ALUOp : <<i.funct3, i.funct7, op>> \in s
  <2>1. Selected(s, i) = "NOP"
    BY <1>2, SelectedOfTable
  <2>2. Selected(t, j) = "NOP"
    BY <1>2, SelectedOfTable
  <2> QED
    BY <2>1, <2>2
<1> QED
  BY <1>1, <1>2

LEMMA OpImmTable ==
  ASSUME NEW f3, NEW b \in 0 .. 127, NEW op
  PROVE  <<f3, b, op>> \in OpImmOperations
           <=> <<f3, IF f3 \in {1, 5} THEN b ELSE 0, op>> \in OpOperations
<1>1. CASE f3 \in {1, 5}
  <2>1. <<f3, b, op>> \in OpImmOperations <=> <<f3, b, op>> \in OpOperations
    BY <1>1 DEF OpImmOperations
  <2> QED
    BY <1>1, <2>1
<1>2. CASE f3 \notin {1, 5}
  <2>1. ASSUME <<f3, 0, op>> \in OpOperations
        PROVE  <<f3, b, op>> \in OpImmOperations
    <3> DEFINE e == <<f3, 0, op>>
    <3>1. e \in {o \in OpOperations : o[1] \notin {1, 5} /\ o[2] = 0}
      BY <1>2, <2>1
    <3>2. e[1] = f3 /\ e[3] = op
      OBVIOUS
    <3> HIDE DEF e
    <3> QED
      BY <3>1, <3>2 DEF OpImmOperations
  <2>2. ASSUME <<f3, b, op>> \in OpImmOperations
        PROVE  <<f3, 0, op>> \in OpOperations
    <3> DEFINE entry == <<f3, b, op>>
           register == {o \in OpOperations : o[1] \notin {1, 5} /\ o[2] = 0}
    <3>1. entry[1] \notin {1, 5}
      BY <1>2
    <3>2. entry \in OpImmOperations
      BY <2>2
    <3> HIDE DEF entry
    <3>3. entry \notin {e \in OpOperations : e[1] \in {1, 5}}
      BY <3>1
    <3> DEFINE shifts == {e \in OpOperations : e[1] \in {1, 5}}
               others == {<<e[1], f7, e[3]>> : e \in register, f7 \in 0 .. 127}
    <3>4. OpImmOperations = shifts \cup others
      BY DEF OpImmOperations
    <3>5. entry \notin shifts
      BY <3>3
    <3> HIDE DEF shifts, others
    <3>6. entry \in others
      BY <3>2, <3>4, <3>5
    <3> HIDE DEF register
    <3>7. PICK e \in register, f7 \in 0 .. 127 : entry = <<e[1], f7, e[3]>>
      BY <3>6 DEF others
    <3>8. e \in OpOperations /\ e[2] = 0
      BY DEF register
    <3>9. f3 = e[1] /\ op = e[3]
      BY <3>7 DEF entry
    <3>10. e = <<e[1], e[2], e[3]>>
      BY <3>8 DEF OpOperations
    <3> QED
      BY <3>8, <3>9, <3>10
  <2> QED
    BY <1>2, <2>1, <2>2
<1> QED
  BY <1>1, <1>2

LEMMA OpImm32Table ==
  ASSUME NEW f3, NEW f7 \in 0 .. 127, NEW op
  PROVE  <<f3, f7, op>> \in OpImm32Operations
           <=> <<f3, IF f3 \in {1, 5} THEN f7 ELSE 0, op>> \in Op32Operations
<1>1. CASE f3 \in {1, 5}
  <2>1. <<f3, f7, op>> \in OpImm32Operations <=> <<f3, f7, op>> \in Op32Operations
    BY <1>1 DEF OpImm32Operations
  <2> QED
    BY <1>1, <2>1
<1>2. CASE f3 \notin {1, 5}
  <2>1. <<f3, f7, op>> \in OpImm32Operations <=> f3 = 0 /\ op = "ADDW"
    BY <1>2 DEF OpImm32Operations
  <2>2. <<f3, 0, op>> \in Op32Operations <=> f3 = 0 /\ op = "ADDW"
    BY <1>2 DEF Op32Operations
  <2> QED
    BY <1>2, <2>1, <2>2
<1> QED
  BY <1>1, <1>2

LEMMA Tables ==
  /\ IsTable(OpOperations) /\ IsTable(Op32Operations)
  /\ IsTable(OpImmOperations) /\ IsTable(OpImm32Operations)
<1>1. IsTable(OpOperations) /\ IsTable(Op32Operations)
  <2>1. IsTable(OpOperations)
    BY DEF IsTable, OpOperations
  <2>2. IsTable(Op32Operations)
    BY DEF IsTable, Op32Operations
  <2> QED
    BY <2>1, <2>2
<1>2. IsTable(OpImmOperations)
  <2> SUFFICES ASSUME NEW a \in 0 .. 127, NEW b \in 0 .. 127, NEW op1 \in ALUOp, NEW op2 \in ALUOp,
                      <<a, b, op1>> \in OpImmOperations, <<a, b, op2>> \in OpImmOperations
               PROVE  op1 = op2
    BY DEF IsTable
  <2> DEFINE c == IF a \in {1, 5} THEN b ELSE 0
  <2>1. <<a, c, op1>> \in OpOperations /\ <<a, c, op2>> \in OpOperations
    BY OpImmTable
  <2>2. c \in 0 .. 127
    OBVIOUS
  <2> HIDE DEF c
  <2> QED
    BY <1>1, <2>1, <2>2 DEF IsTable
<1>3. IsTable(OpImm32Operations)
  <2> SUFFICES ASSUME NEW a \in 0 .. 127, NEW b \in 0 .. 127, NEW op1 \in ALUOp, NEW op2 \in ALUOp,
                      <<a, b, op1>> \in OpImm32Operations, <<a, b, op2>> \in OpImm32Operations
               PROVE  op1 = op2
    BY DEF IsTable
  <2> DEFINE c == IF a \in {1, 5} THEN b ELSE 0
  <2>1. <<a, c, op1>> \in Op32Operations /\ <<a, c, op2>> \in Op32Operations
    BY OpImm32Table
  <2>2. c \in 0 .. 127
    OBVIOUS
  <2> HIDE DEF c
  <2> QED
    BY <1>1, <2>1, <2>2 DEF IsTable
<1> QED
  BY <1>1, <1>2, <1>3

(* Whatever its immediate, an instruction with one does the operation of its  *)
(* register form with funct7 = 0, a shift that with its own funct7:           *)
(* ControlSignals::setFromInstruction on what the decoder extracts.           *)
THEOREM ImmediateForms == Spec => []ImmediateFormsAgree
<1>1. WordInv => ImmediateFormsAgree
  <2> SUFFICES ASSUME WordInv, isSet, source.opcode \in {"OP_IMM", "OP_IMM_32"}
               PROVE  ImmediateFormsAgree
    BY DEF ImmediateFormsAgree
  <2> DEFINE i == Decoded
             f7 == IF IsShift(i) THEN i.funct7 ELSE 0
             register == [i EXCEPT !.opcode = IF i.opcode = "OP_IMM" THEN "OP" ELSE "OP_32",
                                   !.funct7 = IF IsShift(i) THEN @ ELSE 0]
  <2>1. IsInstruction(source) /\ instructionWord = EncodeInstruction(source)
    BY WordOfInstruction DEF KnownOpcode
  <2>2. i.opcode = source.opcode
    BY <2>1, OpcodeDecoded DEF Decoded
  <2>3. i.funct3 \in 0 .. 7 /\ i.funct7 \in 0 .. 127
    BY FunctRange DEF Decoded
  <2>4. /\ register.opcode = IF i.opcode = "OP_IMM" THEN "OP" ELSE "OP_32"
        /\ register.funct3 = i.funct3 /\ register.funct7 = f7
    BY DEF Decoded
  <2>5. /\ SetFromInstruction(i).aluOp = AluOperation(i)
        /\ SetFromInstruction(register).aluOp = AluOperation(register)
    BY DEF SetFromInstruction
  <2>6. IsShift(i) <=> i.funct3 \in {1, 5}
    BY <2>2 DEF IsShift
  <2>7. f7 \in 0 .. 127 /\ f7 = IF i.funct3 \in {1, 5} THEN i.funct7 ELSE 0
    BY <2>3, <2>6
  <2>8. (SetFromInstruction(i).aluOp = SetFromInstruction(register).aluOp) => ImmediateFormsAgree
    BY DEF ImmediateFormsAgree
  <2> HIDE DEF i, f7, register
  <2>9. i.funct3 \in 0 .. 127 /\ register.funct3 \in 0 .. 127 /\ register.funct7 \in 0 .. 127
    BY <2>3, <2>4, <2>7
  <2>10. CASE source.opcode = "OP_IMM"
    <3>1. AluOperation(i) = Selected(OpImmOperations, i)
      BY <2>2, <2>10 DEF AluOperation
    <3>2. AluOperation(register) = Selected(OpOperations, register)
      BY <2>2, <2>4, <2>10 DEF AluOperation
    <3>3. ASSUME NEW op \in ALUOp
          PROVE  <<i.funct3, i.funct7, op>> \in OpImmOperations
                 <=> <<register.funct3, register.funct7, op>> \in OpOperations
      <4>1. <<i.funct3, i.funct7, op>> \in OpImmOperations
            <=> <<i.funct3, IF i.funct3 \in {1, 5} THEN i.funct7 ELSE 0, op>> \in OpOperations
        BY <2>3, OpImmTable
      <4>2. register.funct7 = IF i.funct3 \in {1, 5} THEN i.funct7 ELSE 0
        BY <2>4, <2>7
      <4> QED
        BY <2>4, <4>1, <4>2
    <3>4. Selected(OpImmOperations, i) = Selected(OpOperations, register)
      BY <2>3, <2>9, <3>3, Tables, SameSelected
    <3> QED
      BY <2>5, <2>8, <3>1, <3>2, <3>4
  <2>11. CASE source.opcode = "OP_IMM_32"
    <3>1. AluOperation(i) = Selected(OpImm32Operations, i)
      BY <2>2, <2>11 DEF AluOperation
    <3>2. AluOperation(register) = Selected(Op32Operations, register)
      BY <2>2, <2>4, <2>11 DEF AluOperation
    <3>3. ASSUME NEW op \in ALUOp
          PROVE  <<i.funct3, i.funct7, op>> \in OpImm32Operations
                 <=> <<register.funct3, register.funct7, op>> \in Op32Operations
      <4>1. <<i.funct3, i.funct7, op>> \in OpImm32Operations
            <=> <<i.funct3, IF i.funct3 \in {1, 5} THEN i.funct7 ELSE 0, op>> \in Op32Operations
        BY <2>3, OpImm32Table
      <4>2. register.funct7 = IF i.funct3 \in {1, 5} THEN i.funct7 ELSE 0
        BY <2>4, <2>7
      <4> QED
        BY <2>4, <4>1, <4>2
    <3>4. Selected(OpImm32Operations, i) = Selected(Op32Operations, register)
      BY <2>3, <2>9, <3>3, Tables, SameSelected
    <3> QED
      BY <2>5, <2>8, <3>1, <3>2, <3>4
  <2> QED
    BY <2>10, <2>11
<1> QED
  BY <1>1, Decoding, PTL

----------------------------------------------------------------------------
(* The printer and the control unit.                                         *)

(* The mnemonics printed for a word, and what a line says then. *)
NamedBy(p) == IF p = Illegal THEN {} ELSE {p.mnemonic}

LEMMA SelectNames ==
  ASSUME NEW mnemonics, NEW registers, NEW imm,
         mnemonics = {} \/ \E m : mnemonics = {m} /\ m # "illegal instruction"
  PROVE  /\ NamedBy(Select(mnemonics, registers, imm)) = mnemonics
         /\ mnemonics = {} => Select(mnemonics, registers, imm) = Illegal
         /\ mnemonics # {} => /\ Select(mnemonics, registers, imm).imm = imm
                             /\ Select(mnemonics, registers, imm).mnemonic \in mnemonics
<1>1. CASE mnemonics = {}
  BY <1>1 DEF Select, NamedBy
<1>2. CASE \E m : mnemonics = {m} /\ m # "illegal instruction"
  <2>1. PICK m : mnemonics = {m} /\ m # "illegal instruction"
    BY <1>2
  <2>2. Select(mnemonics, registers, imm) = Line(m, registers, imm)
    BY <2>1 DEF Select
  <2>3. Line(m, registers, imm) # Illegal /\ Line(m, registers, imm).mnemonic = m
    BY <2>1 DEF Line, Illegal
  <2>4. Line(m, registers, imm).imm = imm
    BY DEF Line
  <2> QED
    BY <2>1, <2>2, <2>3, <2>4 DEF NamedBy
<1> QED
  BY <1>1, <1>2

(* A table of mnemonics names the operations of another. *)
Names(mnemonics, operations, form, f3, f7) ==
  /\ \A op \in ALUOp : <<f3, f7, op>> \in operations =>
       /\ op \in DOMAIN form /\ form[op] # "illegal instruction"
       /\ \A m : <<f3, f7, m>> \in mnemonics <=> m = form[op]
  /\ (\A op \in ALUOp : <<f3, f7, op>> \notin operations) => \A m : <<f3, f7, m>> \notin mnemonics
  /\ "NOP" \notin DOMAIN form
  /\ \A e \in mnemonics : e = <<e[1], e[2], e[3]>>

LEMMA TableNames ==
  ASSUME NEW mnemonics, NEW operations, NEW form, IsTable(operations), NEW i,
         i.funct3 = GetFunct3, i.funct7 = GetFunct7,
         GetFunct3 \in 0 .. 7, GetFunct7 \in 0 .. 127,
         Names(mnemonics, operations, form, GetFunct3, GetFunct7)
  PROVE  LET op == Selected(operations, i) IN
           /\ ByFunct(mnemonics) = IF op \in DOMAIN form THEN {form[op]} ELSE {}
           /\ op \in DOMAIN form => form[op] # "illegal instruction"
           /\ op \in DOMAIN form => <<GetFunct3, GetFunct7, op>> \in operations /\ op \in ALUOp
<1> DEFINE f3 == GetFunct3
           f7 == GetFunct7
           op == Selected(operations, i)
<1>1. \A m : m \in ByFunct(mnemonics) <=> <<f3, f7, m>> \in mnemonics
  <2>1. ASSUME NEW m, m \in ByFunct(mnemonics) PROVE <<f3, f7, m>> \in mnemonics
    <3>1. PICK e \in mnemonics : e[1] = f3 /\ e[2] = f7 /\ m = e[3]
      BY <2>1 DEF ByFunct
    <3> QED
      BY <3>1 DEF Names
  <2>2. ASSUME NEW m, <<f3, f7, m>> \in mnemonics PROVE m \in ByFunct(mnemonics)
    <3> DEFINE e == <<f3, f7, m>>
    <3>1. e \in mnemonics /\ e[1] = f3 /\ e[2] = f7 /\ e[3] = m
      BY <2>2
    <3> HIDE DEF e
    <3> QED
      BY <3>1 DEF ByFunct
  <2> QED
    BY <2>1, <2>2
<1>2. i.funct3 \in 0 .. 127 /\ i.funct7 \in 0 .. 127
  OBVIOUS
<1>3. CASE \E o \in ALUOp : <<f3, f7, o>> \in operations
  <2>1. PICK o \in ALUOp : <<f3, f7, o>> \in operations
    BY <1>3
  <2>2. op = o
    BY <1>2, <2>1, SelectedOfTable
  <2> HIDE DEF op, f3, f7
  <2>3. o \in DOMAIN form /\ form[o] # "illegal instruction" /\ \A m : <<f3, f7, m>> \in mnemonics <=> m = form[o]
    BY <2>1 DEF Names, f3, f7
  <2>4. ByFunct(mnemonics) = {form[o]}
    <3>1. \A m : m \in ByFunct(mnemonics) <=> m = form[o]
      BY <1>1, <2>3
    <3> DEFINE names == ByFunct(mnemonics)
               name == form[o]
    <3>2. \A m : m \in names <=> m = name
      BY <3>1
    <3> HIDE DEF names, name
    <3>3. names = {name}
      BY <3>2
    <3> QED
      BY <3>3 DEF names, name
  <2> QED
    BY <2>1, <2>2, <2>3, <2>4 DEF op, f3, f7
<1>4. CASE ~ \E o \in ALUOp : <<f3, f7, o>> \in operations
  <2>1. op = "NOP"
    BY <1>2, <1>4, SelectedOfTable
  <2> HIDE DEF op, f3, f7
  <2>2. op \notin DOMAIN form /\ \A m : <<f3, f7, m>> \notin mnemonics
    BY <1>4, <2>1 DEF Names, f3, f7
  <2>3. ByFunct(mnemonics) = {}
    BY <1>1, <2>2
  <2> QED
    BY <2>2, <2>3 DEF op
<1> QED
  BY <1>3, <1>4

LEMMA OpNames ==
  ASSUME NEW f3 \in 0 .. 7, NEW f7 \in 0 .. 127
  PROVE  Names(OpMnemonics, OpOperations, RegisterForm, f3, f7)
  BY DEF Names, OpMnemonics, OpOperations, RegisterForm, ALUOp

LEMMA Op32Names ==
  ASSUME NEW f3 \in 0 .. 7, NEW f7 \in 0 .. 127
  PROVE  Names(Op32Mnemonics, Op32Operations, RegisterForm, f3, f7)
  BY DEF Names, Op32Mnemonics, Op32Operations, RegisterForm, ALUOp

LEMMA OpImmNames ==
  ASSUME NEW f3 \in 0 .. 7, NEW f7 \in 0 .. 127
  PROVE  Names(OpImmMnemonics, OpImmOperations, ImmediateForm, f3, f7)
<1>1. \A m : <<f3, f7, m>> \in OpImmMnemonics <=>
        \/ <<f3, m>> \in {<<0, "addi">>, <<2, "slti">>, <<3, "sltiu">>, <<4, "xori">>,
                         <<6, "ori">>, <<7, "andi">>}
        \/ <<f3, f7, m>> \in {<<1, 0, "slli">>, <<5, 0, "srli">>, <<5, 32, "srai">>}
  BY DEF OpImmMnemonics, AnyFunct7
<1>2. \A op \in ALUOp : <<f3, f7, op>> \in OpImmOperations <=>
        \/ <<f3, op>> \in {<<0, "ADD">>, <<2, "SLT">>, <<3, "SLTU">>, <<4, "XOR">>,
                          <<6, "OR">>, <<7, "AND">>}
        \/ <<f3, f7, op>> \in {<<1, 0, "SLL">>, <<5, 0, "SRL">>, <<5, 32, "SRA">>}
  <2> SUFFICES ASSUME NEW op \in ALUOp
               PROVE  <<f3, f7, op>> \in OpImmOperations <=>
                        \/ <<f3, op>> \in {<<0, "ADD">>, <<2, "SLT">>, <<3, "SLTU">>,
                                          <<4, "XOR">>, <<6, "OR">>, <<7, "AND">>}
                        \/ <<f3, f7, op>> \in {<<1, 0, "SLL">>, <<5, 0, "SRL">>,
                                              <<5, 32, "SRA">>}
    OBVIOUS
  <2>1. CASE f3 \in {1, 5}
    <3>1. <<f3, f7, op>> \in OpImmOperations <=> <<f3, f7, op>> \in OpOperations
      <4> DEFINE c == IF f3 \in {1, 5} THEN f7 ELSE 0
      <4>1. <<f3, f7, op>> \in OpImmOperations <=> <<f3, c, op>> \in OpOperations
        BY OpImmTable
      <4>2. c = f7
        BY <2>1
      <4> QED
        BY <4>1, <4>2
    <3> QED
      BY <2>1, <3>1 DEF OpOperations
  <2>2. CASE f3 \notin {1, 5}
    <3>1. <<f3, f7, op>> \in OpImmOperations <=> <<f3, 0, op>> \in OpOperations
      <4> DEFINE c == IF f3 \in {1, 5} THEN f7 ELSE 0
      <4>1. <<f3, f7, op>> \in OpImmOperations <=> <<f3, c, op>> \in OpOperations
        BY OpImmTable
      <4>2. c = 0
        BY <2>2
      <4> QED
        BY <4>1, <4>2
    <3> QED
      BY <2>2, <3>1 DEF OpOperations
  <2> QED
    BY <2>1, <2>2
<1>3. \A e \in OpImmMnemonics : e = <<e[1], e[2], e[3]>>
  BY DEF OpImmMnemonics, AnyFunct7
<1>4. "NOP" \notin DOMAIN ImmediateForm
  BY DEF ImmediateForm
<1>5. ASSUME NEW op \in ALUOp, <<f3, f7, op>> \in OpImmOperations
      PROVE  /\ op \in DOMAIN ImmediateForm /\ ImmediateForm[op] # "illegal instruction"
             /\ \A m : <<f3, f7, m>> \in OpImmMnemonics <=> m = ImmediateForm[op]
  <2> DEFINE form == ImmediateForm[op]
  <2>1. \/ f3 = 0 /\ op = "ADD"
        \/ f3 = 2 /\ op = "SLT"
        \/ f3 = 3 /\ op = "SLTU"
        \/ f3 = 4 /\ op = "XOR"
        \/ f3 = 6 /\ op = "OR"
        \/ f3 = 7 /\ op = "AND"
        \/ f3 = 1 /\ f7 = 0 /\ op = "SLL"
        \/ f3 = 5 /\ f7 = 0 /\ op = "SRL"
        \/ f3 = 5 /\ f7 = 32 /\ op = "SRA"
    BY <1>2, <1>5
  <2>2. op \in DOMAIN ImmediateForm
    BY <2>1 DEF ImmediateForm
  <2>3. \/ f3 = 0 /\ form = "addi"
        \/ f3 = 2 /\ form = "slti"
        \/ f3 = 3 /\ form = "sltiu"
        \/ f3 = 4 /\ form = "xori"
        \/ f3 = 6 /\ form = "ori"
        \/ f3 = 7 /\ form = "andi"
        \/ f3 = 1 /\ f7 = 0 /\ form = "slli"
        \/ f3 = 5 /\ f7 = 0 /\ form = "srli"
        \/ f3 = 5 /\ f7 = 32 /\ form = "srai"
    BY <2>1 DEF ImmediateForm
  <2> HIDE DEF form
  <2>4. \A m : <<f3, f7, m>> \in OpImmMnemonics <=> m = form
    BY <1>1, <2>3
  <2> QED
    BY <2>2, <2>3, <2>4 DEF form
<1>6. ASSUME \A op \in ALUOp : <<f3, f7, op>> \notin OpImmOperations
      PROVE  \A m : <<f3, f7, m>> \notin OpImmMnemonics
  <2>1. /\ "ADD" \in ALUOp /\ "SLT" \in ALUOp /\ "SLTU" \in ALUOp /\ "XOR" \in ALUOp
        /\ "OR" \in ALUOp /\ "AND" \in ALUOp /\ "SLL" \in ALUOp /\ "SRL" \in ALUOp
        /\ "SRA" \in ALUOp
    BY DEF ALUOp
  <2> QED
    BY <1>1, <1>2, <1>6, <2>1
<1> QED
  BY <1>3, <1>4, <1>5, <1>6 DEF Names

LEMMA OpImm32Names ==
  ASSUME NEW f3 \in 0 .. 7, NEW f7 \in 0 .. 127
  PROVE  Names(OpImm32Mnemonics, OpImm32Operations, ImmediateForm, f3, f7)
<1>1. \A m : <<f3, f7, m>> \in OpImm32Mnemonics <=>
        \/ <<f3, m>> = <<0, "addiw">>
        \/ <<f3, f7, m>> \in {<<1, 0, "slliw">>, <<5, 0, "srliw">>, <<5, 32, "sraiw">>}
  BY DEF OpImm32Mnemonics, AnyFunct7
<1>2. \A op \in ALUOp : <<f3, f7, op>> \in OpImm32Operations <=>
        \/ <<f3, op>> = <<0, "ADDW">>
        \/ <<f3, f7, op>> \in {<<1, 0, "SLLW">>, <<5, 0, "SRLW">>, <<5, 32, "SRAW">>}
  <2> SUFFICES ASSUME NEW op \in ALUOp
               PROVE  <<f3, f7, op>> \in OpImm32Operations <=>
                        \/ <<f3, op>> = <<0, "ADDW">>
                        \/ <<f3, f7, op>> \in {<<1, 0, "SLLW">>, <<5, 0, "SRLW">>,
                                              <<5, 32, "SRAW">>}
    OBVIOUS
  <2>1. CASE f3 \in {1, 5}
    <3>1. <<f3, f7, op>> \in OpImm32Operations <=> <<f3, f7, op>> \in Op32Operations
      <4> DEFINE c == IF f3 \in {1, 5} THEN f7 ELSE 0
      <4>1. <<f3, f7, op>> \in OpImm32Operations <=> <<f3, c, op>> \in Op32Operations
        BY OpImm32Table
      <4>2. c = f7
        BY <2>1
      <4> QED
        BY <4>1, <4>2
    <3> QED
      BY <2>1, <3>1 DEF Op32Operations
  <2>2. CASE f3 \notin {1, 5}
    <3>1. <<f3, f7, op>> \in OpImm32Operations <=> <<f3, 0, op>> \in Op32Operations
      <4> DEFINE c == IF f3 \in {1, 5} THEN f7 ELSE 0
      <4>1. <<f3, f7, op>> \in OpImm32Operations <=> <<f3, c, op>> \in Op32Operations
        BY OpImm32Table
      <4>2. c = 0
        BY <2>2
      <4> QED
        BY <4>1, <4>2
    <3> QED
      BY <2>2, <3>1 DEF Op32Operations
  <2> QED
    BY <2>1, <2>2
<1>3. \A e \in OpImm32Mnemonics : e = <<e[1], e[2], e[3]>>
  BY DEF OpImm32Mnemonics, AnyFunct7
<1>4. "NOP" \notin DOMAIN ImmediateForm
  BY DEF ImmediateForm
<1>5. ASSUME NEW op \in ALUOp, <<f3, f7, op>> \in OpImm32Operations
      PROVE  /\ op \in DOMAIN ImmediateForm /\ ImmediateForm[op] # "illegal instruction"
             /\ \A m : <<f3, f7, m>> \in OpImm32Mnemonics <=> m = ImmediateForm[op]
  <2> DEFINE form == ImmediateForm[op]
  <2>1. \/ f3 = 0 /\ op = "ADDW"
        \/ f3 = 1 /\ f7 = 0 /\ op = "SLLW"
        \/ f3 = 5 /\ f7 = 0 /\ op = "SRLW"
        \/ f3 = 5 /\ f7 = 32 /\ op = "SRAW"
    BY <1>2, <1>5
  <2>2. op \in DOMAIN ImmediateForm
    BY <2>1 DEF ImmediateForm
  <2>3. \/ f3 = 0 /\ form = "addiw"
        \/ f3 = 1 /\ f7 = 0 /\ form = "slliw"
        \/ f3 = 5 /\ f7 = 0 /\ form = "srliw"
        \/ f3 = 5 /\ f7 = 32 /\ form = "sraiw"
    BY <2>1 DEF ImmediateForm
  <2> HIDE DEF form
  <2>4. \A m : <<f3, f7, m>> \in OpImm32Mnemonics <=> m = form
    BY <1>1, <2>3
  <2> QED
    BY <2>2, <2>3, <2>4 DEF form
<1>6. ASSUME \A op \in ALUOp : <<f3, f7, op>> \notin OpImm32Operations
      PROVE  \A m : <<f3, f7, m>> \notin OpImm32Mnemonics
  <2>1. "ADDW" \in ALUOp /\ "SLLW" \in ALUOp /\ "SRLW" \in ALUOp /\ "SRAW" \in ALUOp
    BY DEF ALUOp
  <2> QED
    BY <1>1, <1>2, <1>6, <2>1
<1> QED
  BY <1>3, <1>4, <1>5, <1>6 DEF Names

(* Loads, stores and branches. *)
LEMMA ByFunct3Of ==
  ASSUME NEW f3 \in Nat, f3 = GetFunct3, NEW mnemonics
  PROVE  ByFunct3(mnemonics) = IF f3 + 1 \in DOMAIN mnemonics THEN {mnemonics[f3 + 1]} ELSE {}
  BY DEF ByFunct3

LEMMA LoadNames ==
  ASSUME NEW f3 \in 0 .. 7, f3 = GetFunct3, NEW i, i.opcode = "LOAD", i.funct3 = f3
  PROVE  LET s     == SetFromInstruction(i)
             names == ByFunct3(LoadMnemonics)
         IN /\ names = {m \in DOMAIN Loads : Loads[m][1] = s.memSize
                                              /\ (s.memSize # 8 => Loads[m][2] = s.memSignExtend)}
            /\ names = {} \/ \E m : names = {m} /\ m # "illegal instruction"
<1> DEFINE s == SetFromInstruction(i)
           size == s.memSize
           signed == s.memSignExtend
           Fits(m) == Loads[m][1] = size /\ (size # 8 => Loads[m][2] = signed)
           names == ByFunct3(LoadMnemonics)
<1> SUFFICES /\ names = {m \in DOMAIN Loads : Fits(m)}
             /\ names = {} \/ \E m : names = {m} /\ m # "illegal instruction"
  OBVIOUS
<1>1. size = IF f3 < 7 THEN <<1, 2, 4, 8, 1, 2, 4>>[f3 + 1] ELSE 0
  BY DEF SetFromInstruction, AccessSize
<1>2. signed \in BOOLEAN /\ (signed <=> f3 < 3)
  BY DEF SetFromInstruction
<1>3. names = IF f3 < 7 THEN {LoadMnemonics[f3 + 1]} ELSE {}
  <2>1. f3 + 1 \in DOMAIN LoadMnemonics <=> f3 < 7
    BY DEF LoadMnemonics
  <2> QED
    BY <2>1, ByFunct3Of
<1>4. /\ DOMAIN Loads = {"lb", "lh", "lw", "ld", "lbu", "lhu", "lwu"}
      /\ Loads["lb"][1] = 1 /\ Loads["lb"][2] = TRUE
      /\ Loads["lh"][1] = 2 /\ Loads["lh"][2] = TRUE
      /\ Loads["lw"][1] = 4 /\ Loads["lw"][2] = TRUE
      /\ Loads["ld"][1] = 8 /\ Loads["ld"][2] = FALSE
      /\ Loads["lbu"][1] = 1 /\ Loads["lbu"][2] = FALSE
      /\ Loads["lhu"][1] = 2 /\ Loads["lhu"][2] = FALSE
      /\ Loads["lwu"][1] = 4 /\ Loads["lwu"][2] = FALSE
  BY DEF Loads
<1>5. CASE f3 = 7
  <2>1. names = {} /\ size = 0
    BY <1>1, <1>3, <1>5
  <2> HIDE DEF names, size, signed
  <2>2. \A m \in DOMAIN Loads : ~Fits(m)
    BY <1>4, <2>1
  <2>3. names = {m \in DOMAIN Loads : Fits(m)}
    BY <2>1, <2>2
  <2> QED
    BY <2>1, <2>3
<1>6. CASE f3 \in 0 .. 6
  <2> DEFINE name == LoadMnemonics[f3 + 1]
  <2>1. names = {name}
    BY <1>3, <1>6
  <2>2. name = <<"lb", "lh", "lw", "ld", "lbu", "lhu", "lwu">>[f3 + 1]
    BY DEF LoadMnemonics
  <2>3. size = <<1, 2, 4, 8, 1, 2, 4>>[f3 + 1]
    BY <1>1, <1>6
  <2> HIDE DEF name, size, signed, names
  <2>4. \/ name = "lb" /\ size = 1 /\ signed
        \/ name = "lh" /\ size = 2 /\ signed
        \/ name = "lw" /\ size = 4 /\ signed
        \/ name = "ld" /\ size = 8 /\ ~signed
        \/ name = "lbu" /\ size = 1 /\ ~signed
        \/ name = "lhu" /\ size = 2 /\ ~signed
        \/ name = "lwu" /\ size = 4 /\ ~signed
    <3>1. f3 \in {0, 1, 2, 3, 4, 5, 6}
      BY <1>6
    <3>2. CASE f3 = 0 BY <1>2, <2>2, <2>3, <3>2
    <3>3. CASE f3 = 1 BY <1>2, <2>2, <2>3, <3>3
    <3>4. CASE f3 = 2 BY <1>2, <2>2, <2>3, <3>4
    <3>5. CASE f3 = 3 BY <1>2, <2>2, <2>3, <3>5
    <3>6. CASE f3 = 4 BY <1>2, <2>2, <2>3, <3>6
    <3>7. CASE f3 = 5 BY <1>2, <2>2, <2>3, <3>7
    <3>8. CASE f3 = 6 BY <1>2, <2>2, <2>3, <3>8
    <3> QED
      BY <3>1, <3>2, <3>3, <3>4, <3>5, <3>6, <3>7, <3>8
  <2>5. name \in DOMAIN Loads /\ name # "illegal instruction"
    BY <1>4, <2>4
  <2>6. ASSUME NEW m \in DOMAIN Loads PROVE Fits(m) <=> m = name
    <3> DEFINE bytes == Loads[m][1]
               extends == Loads[m][2]
    <3>1. \/ m = "lb" /\ bytes = 1 /\ extends
          \/ m = "lh" /\ bytes = 2 /\ extends
          \/ m = "lw" /\ bytes = 4 /\ extends
          \/ m = "ld" /\ bytes = 8 /\ ~extends
          \/ m = "lbu" /\ bytes = 1 /\ ~extends
          \/ m = "lhu" /\ bytes = 2 /\ ~extends
          \/ m = "lwu" /\ bytes = 4 /\ ~extends
      BY <1>4, <2>6
    <3>2. extends \in BOOLEAN
      BY <1>4, <2>6
    <3> DEFINE same == extends = signed
    <3>3. same \in BOOLEAN /\ (same <=> (extends <=> signed))
      <4> HIDE DEF extends
      <4> QED
        BY <1>2, <3>2
    <3> HIDE DEF bytes, extends, same
    <3>4. bytes = size /\ (size # 8 => same) <=> m = name
      BY <2>4, <3>1, <3>3
    <3> QED
      BY <3>4 DEF bytes, extends, same
  <2>7. names = {m \in DOMAIN Loads : Fits(m)}
    BY <2>1, <2>5, <2>6
  <2> QED
    BY <2>1, <2>5, <2>7
<1>7. f3 = 7 \/ f3 \in 0 .. 6
  OBVIOUS
<1> HIDE DEF Fits, names
<1> QED
  BY <1>5, <1>6, <1>7

LEMMA StoreNames ==
  ASSUME NEW f3 \in 0 .. 7, f3 = GetFunct3, NEW i, i.opcode = "STORE", i.funct3 = f3
  PROVE  LET s     == SetFromInstruction(i)
             names == ByFunct3(StoreMnemonics)
         IN /\ names = {m \in DOMAIN Stores : Stores[m] = s.memSize}
            /\ names = {} \/ \E m : names = {m} /\ m # "illegal instruction"
<1> DEFINE s == SetFromInstruction(i)
           size == s.memSize
           names == ByFunct3(StoreMnemonics)
<1> SUFFICES /\ names = {m \in DOMAIN Stores : Stores[m] = size}
             /\ names = {} \/ \E m : names = {m} /\ m # "illegal instruction"
  OBVIOUS
<1>1. size = IF f3 < 4 THEN <<1, 2, 4, 8>>[f3 + 1] ELSE 0
  BY DEF SetFromInstruction, AccessSize
<1>2. names = IF f3 < 4 THEN {StoreMnemonics[f3 + 1]} ELSE {}
  <2>1. f3 + 1 \in DOMAIN StoreMnemonics <=> f3 < 4
    BY DEF StoreMnemonics
  <2> QED
    BY <2>1, ByFunct3Of
<1>3. /\ DOMAIN Stores = {"sb", "sh", "sw", "sd"}
      /\ Stores["sb"] = 1 /\ Stores["sh"] = 2 /\ Stores["sw"] = 4 /\ Stores["sd"] = 8
  BY DEF Stores
<1>4. CASE f3 \in 4 .. 7
  <2>1. names = {} /\ size = 0
    BY <1>1, <1>2, <1>4
  <2> HIDE DEF names, size
  <2>2. names = {m \in DOMAIN Stores : Stores[m] = size}
    BY <1>3, <2>1
  <2> QED
    BY <2>1, <2>2
<1>5. CASE f3 \in 0 .. 3
  <2> DEFINE name == StoreMnemonics[f3 + 1]
  <2>1. names = {name}
    BY <1>2, <1>5
  <2>2. name = <<"sb", "sh", "sw", "sd">>[f3 + 1]
    BY DEF StoreMnemonics
  <2>3. size = <<1, 2, 4, 8>>[f3 + 1]
    BY <1>1, <1>5
  <2> HIDE DEF name, size, names
  <2>4. \/ name = "sb" /\ size = 1
        \/ name = "sh" /\ size = 2
        \/ name = "sw" /\ size = 4
        \/ name = "sd" /\ size = 8
    <3>1. f3 \in {0, 1, 2, 3}
      BY <1>5
    <3>2. CASE f3 = 0 BY <2>2, <2>3, <3>2
    <3>3. CASE f3 = 1 BY <2>2, <2>3, <3>3
    <3>4. CASE f3 = 2 BY <2>2, <2>3, <3>4
    <3>5. CASE f3 = 3 BY <2>2, <2>3, <3>5
    <3> QED
      BY <3>1, <3>2, <3>3, <3>4, <3>5
  <2>5. name # "illegal instruction"
    BY <2>4
  <2>6. names = {m \in DOMAIN Stores : Stores[m] = size}
    BY <1>3, <2>1, <2>4
  <2> QED
    BY <2>1, <2>5, <2>6
<1>6. f3 \in 4 .. 7 \/ f3 \in 0 .. 3
  OBVIOUS
<1> HIDE DEF names, size
<1> QED
  BY <1>4, <1>5, <1>6

LEMMA BranchNames ==
  ASSUME GetFunct3 \in 0 .. 7, NEW a \in Small!Word, NEW b \in Small!Word
  PROVE  Condition(FormatBranch.mnemonic, a, b) = Small!EvaluateBranch(GetFunct3, a, b)
<1> DEFINE f3 == GetFunct3
           names == {e[2] : e \in {c \in BranchMnemonics : c[1] = f3}}
           regs == <<GetRS1, GetRS2>>
           imm == GetImmediateB
           Agree == Condition(FormatBranch.mnemonic, a, b) = Small!EvaluateBranch(f3, a, b)
<1> SUFFICES Agree
  OBVIOUS
<1>1. FormatBranch = Select(names, regs, imm)
  BY DEF FormatBranch
<1>2. f3 \in 0 .. 7
  OBVIOUS
<1>3. \A m : m \in names <=> <<f3, m>> \in BranchMnemonics
  <2>1. ASSUME NEW m, m \in names PROVE <<f3, m>> \in BranchMnemonics
    <3>1. PICK c \in BranchMnemonics : c[1] = f3 /\ m = c[2]
      BY <2>1
    <3>2. c = <<c[1], c[2]>>
      BY DEF BranchMnemonics
    <3> QED
      BY <3>1, <3>2
  <2>2. ASSUME NEW m, <<f3, m>> \in BranchMnemonics PROVE m \in names
    <3> DEFINE c == <<f3, m>>
    <3>1. c \in BranchMnemonics /\ c[1] = f3 /\ c[2] = m
      BY <2>2
    <3> HIDE DEF c
    <3> QED
      BY <3>1
  <2> QED
    BY <2>1, <2>2
<1>4. FormatBranch.mnemonic =
        (IF names = {} THEN "illegal instruction" ELSE CHOOSE m \in names : TRUE)
  <2> HIDE DEF names, regs, imm, f3
  <2>1. CASE names = {}
    BY <1>1, <2>1 DEF Select, Line, Illegal
  <2>2. CASE names # {}
    <3> DEFINE m == CHOOSE m \in names : TRUE
    <3>1. FormatBranch = Line(m, regs, imm)
      BY <1>1, <2>2 DEF Select
    <3> HIDE DEF m
    <3>2. FormatBranch.mnemonic = m
      BY <3>1 DEF Line
    <3> QED
      BY <2>2, <3>2 DEF m
  <2> QED
    BY <2>1, <2>2
<1> HIDE DEF f3, names
<1>5. \/ f3 = 0 /\ FormatBranch.mnemonic = "beq"
      \/ f3 = 1 /\ FormatBranch.mnemonic = "bne"
      \/ f3 = 4 /\ FormatBranch.mnemonic = "blt"
      \/ f3 = 5 /\ FormatBranch.mnemonic = "bge"
      \/ f3 = 6 /\ FormatBranch.mnemonic = "bltu"
      \/ f3 = 7 /\ FormatBranch.mnemonic = "bgeu"
      \/ f3 \in {2, 3}
  <2>1. CASE f3 \in {2, 3}
    BY <2>1
  <2>2. ASSUME NEW m, <<f3, m>> \in BranchMnemonics PROVE FormatBranch.mnemonic = m
    <3>1. \A n : <<f3, n>> \in BranchMnemonics <=> n = m
      BY <2>2 DEF BranchMnemonics
    <3>2. names = {m}
      BY <1>3, <3>1
    <3> QED
      BY <1>4, <3>2
  <2>3. CASE f3 \notin {2, 3}
    <3>1. /\ <<0, "beq">> \in BranchMnemonics /\ <<1, "bne">> \in BranchMnemonics
          /\ <<4, "blt">> \in BranchMnemonics /\ <<5, "bge">> \in BranchMnemonics
          /\ <<6, "bltu">> \in BranchMnemonics /\ <<7, "bgeu">> \in BranchMnemonics
      BY DEF BranchMnemonics
    <3>2. f3 \in {0, 1, 4, 5, 6, 7}
      BY <1>2, <2>3
    <3> QED
      BY <2>2, <3>1, <3>2
  <2> QED
    BY <2>1, <2>3
<1>6. \A f \in 0 .. 7 : Small!EvaluateBranch(f, a, b) \in BOOLEAN
  BY DEF Small!EvaluateBranch
<1>7. CASE f3 = 0
  <2>1. Condition("beq", a, b) = (a = b)
    BY DEF Condition
  <2>2. Small!EvaluateBranch(0, a, b) <=> a = b
    BY DEF Small!EvaluateBranch
  <2>3. Small!EvaluateBranch(0, a, b) = (a = b)
    BY <1>6, <2>2
  <2> QED
    BY <1>5, <1>7, <2>1, <2>3
<1>8. CASE f3 = 1
  <2>1. Condition("bne", a, b) = (a # b)
    BY DEF Condition
  <2>2. Small!EvaluateBranch(1, a, b) <=> a # b
    BY DEF Small!EvaluateBranch
  <2>3. Small!EvaluateBranch(1, a, b) = (a # b)
    BY <1>6, <2>2
  <2> QED
    BY <1>5, <1>8, <2>1, <2>3
<1>9. CASE f3 = 4
  <2>1. Condition("blt", a, b) = (Small!Signed(a) < Small!Signed(b))
    BY DEF Condition
  <2>2. Small!EvaluateBranch(4, a, b) <=> Small!Signed(a) < Small!Signed(b)
    BY DEF Small!EvaluateBranch
  <2>3. Small!EvaluateBranch(4, a, b) = (Small!Signed(a) < Small!Signed(b))
    BY <1>6, <2>2
  <2> QED
    BY <1>5, <1>9, <2>1, <2>3
<1>10. CASE f3 = 5
  <2>1. Condition("bge", a, b) = (Small!Signed(a) >= Small!Signed(b))
    BY DEF Condition
  <2>2. Small!EvaluateBranch(5, a, b) <=> Small!Signed(a) >= Small!Signed(b)
    BY DEF Small!EvaluateBranch
  <2>3. Small!EvaluateBranch(5, a, b) = (Small!Signed(a) >= Small!Signed(b))
    BY <1>6, <2>2
  <2> QED
    BY <1>5, <1>10, <2>1, <2>3
<1>11. CASE f3 = 6
  <2>1. Condition("bltu", a, b) = (a < b)
    BY DEF Condition
  <2>2. Small!EvaluateBranch(6, a, b) <=> a < b
    BY DEF Small!EvaluateBranch
  <2>3. Small!EvaluateBranch(6, a, b) = (a < b)
    BY <1>6, <2>2
  <2> QED
    BY <1>5, <1>11, <2>1, <2>3
<1>12. CASE f3 = 7
  <2>1. Condition("bgeu", a, b) = (a >= b)
    BY DEF Condition
  <2>2. Small!EvaluateBranch(7, a, b) <=> a >= b
    BY DEF Small!EvaluateBranch
  <2>3. Small!EvaluateBranch(7, a, b) = (a >= b)
    BY <1>6, <2>2
  <2> QED
    BY <1>5, <1>12, <2>1, <2>3
<1>13. CASE f3 \in {2, 3}
  <2>1. Condition("illegal instruction", a, b) = FALSE
    BY DEF Condition
  <2>2. ~Small!EvaluateBranch(f3, a, b)
    BY <1>13 DEF Small!EvaluateBranch
  <2>3. Small!EvaluateBranch(f3, a, b) = FALSE
    BY <1>2, <1>6, <2>2
  <2>4. FormatBranch.mnemonic = "illegal instruction"
    <3>1. names = {}
      BY <1>3, <1>13 DEF BranchMnemonics
    <3> QED
      BY <1>4, <3>1
  <2> QED
    BY <2>1, <2>3, <2>4
<1>14. f3 \in {0, 1, 4, 5, 6, 7} \/ f3 \in {2, 3}
  BY <1>2
<1> HIDE DEF Agree
<1> QED
  BY <1>14, <1>7, <1>8, <1>9, <1>10, <1>11, <1>12, <1>13

(* The registers' form and the immediate form of an operation. *)
LEMMA OperationPrinted ==
  ASSUME WordInv, isSet, GetFunct3 \in 0 .. 7, GetFunct7 \in 0 .. 127
  PROVE  LET s == SetFromInstruction(Decoded)
             p == Printed
             Forms(form) == IF s.aluOp \in DOMAIN form THEN {form[s.aluOp]} ELSE {}
         IN /\ GetOpcode \in {"OP", "OP_32"} => NamedBy(p) = Forms(RegisterForm)
            /\ GetOpcode \in {"OP_IMM", "OP_IMM_32"} =>
                 /\ NamedBy(p) = Forms(ImmediateForm)
                 /\ NamedBy(p) # {} => p.imm = ShiftOr(IF GetOpcode = "OP_IMM" THEN 64 ELSE 32)
<1> DEFINE i == Decoded
           op == SetFromInstruction(i).aluOp
           regs3 == <<GetRD, GetRS1, GetRS2>>
           regs2 == <<GetRD, GetRS1>>
           Forms(form) == IF op \in DOMAIN form THEN {form[op]} ELSE {}
<1>1. i.opcode = GetOpcode /\ i.funct3 = GetFunct3 /\ i.funct7 = GetFunct7
  BY DEF Decoded
<1>2. ASSUME NEW mnemonics, NEW operations, NEW form, IsTable(operations),
             Names(mnemonics, operations, form, GetFunct3, GetFunct7),
             op = Selected(operations, i), NEW registers, NEW imm
      PROVE  /\ NamedBy(Select(ByFunct(mnemonics), registers, imm)) = Forms(form)
             /\ Forms(form) # {} => Select(ByFunct(mnemonics), registers, imm).imm = imm
  <2>1. /\ ByFunct(mnemonics) = Forms(form)
        /\ op \in DOMAIN form => form[op] # "illegal instruction"
    <3> DEFINE sel == Selected(operations, i)
    <3>1. op = sel
      BY <1>2
    <3>2. /\ ByFunct(mnemonics) = IF sel \in DOMAIN form THEN {form[sel]} ELSE {}
          /\ sel \in DOMAIN form => form[sel] # "illegal instruction"
      <4> HIDE DEF i, op
      <4> QED
        BY <1>1, <1>2, TableNames
    <3> HIDE DEF op, sel, i
    <3> QED
      BY <3>1, <3>2
  <2> DEFINE names == Forms(form)
  <2>2. names = {} \/ \E m : names = {m} /\ m # "illegal instruction"
    BY <2>1
  <2> HIDE DEF names
  <2>3. /\ NamedBy(Select(names, registers, imm)) = names
        /\ names # {} => Select(names, registers, imm).imm = imm
    BY <2>2, SelectNames
  <2> QED
    BY <2>1, <2>3 DEF names
<1>3. Bits(0, 2) = 3 \/ GetOpcode \notin KnownOpcode
  BY QuadrantOfOpcode
<1>4. CASE GetOpcode = "OP"
  <2>1. Printed = Select(ByFunct(OpMnemonics), regs3, 0)
    BY <1>3, <1>4 DEF Printed, FormatOpType, KnownOpcode
  <2>2. op = Selected(OpOperations, i)
    BY <1>1, <1>4 DEF SetFromInstruction, AluOperation
  <2>3. NamedBy(Printed) = Forms(RegisterForm)
    <3> HIDE DEF op, i, regs3, Forms
    <3> QED
      BY <1>2, <2>1, <2>2, OpNames, Tables
  <2> QED
    BY <1>4, <2>3
<1>5. CASE GetOpcode = "OP_32"
  <2>1. Printed = Select(ByFunct(Op32Mnemonics), regs3, 0)
    BY <1>3, <1>5 DEF Printed, FormatOp32Type, KnownOpcode
  <2>2. op = Selected(Op32Operations, i)
    BY <1>1, <1>5 DEF SetFromInstruction, AluOperation
  <2>3. NamedBy(Printed) = Forms(RegisterForm)
    <3> HIDE DEF op, i, regs3, Forms
    <3> QED
      BY <1>2, <2>1, <2>2, Op32Names, Tables
  <2> QED
    BY <1>5, <2>3
<1>6. CASE GetOpcode = "OP_IMM"
  <2> DEFINE imm == ShiftOr(64)
  <2>1. Printed = Select(ByFunct(OpImmMnemonics), regs2, imm)
    BY <1>3, <1>6 DEF Printed, FormatOpImm, KnownOpcode
  <2>2. op = Selected(OpImmOperations, i)
    BY <1>1, <1>6 DEF SetFromInstruction, AluOperation
  <2>3. /\ NamedBy(Printed) = Forms(ImmediateForm)
        /\ Forms(ImmediateForm) # {} => Printed.imm = imm
    <3> HIDE DEF op, i, regs2, imm, Forms
    <3> QED
      BY <1>2, <2>1, <2>2, OpImmNames, Tables
  <2> QED
    BY <1>6, <2>3
<1>7. CASE GetOpcode = "OP_IMM_32"
  <2> DEFINE imm == ShiftOr(32)
  <2>1. Printed = Select(ByFunct(OpImm32Mnemonics), regs2, imm)
    BY <1>3, <1>7 DEF Printed, FormatOpImm32, KnownOpcode
  <2>2. op = Selected(OpImm32Operations, i)
    BY <1>1, <1>7 DEF SetFromInstruction, AluOperation
  <2>3. /\ NamedBy(Printed) = Forms(ImmediateForm)
        /\ Forms(ImmediateForm) # {} => Printed.imm = imm
    <3> HIDE DEF op, i, regs2, imm, Forms
    <3> QED
      BY <1>2, <2>1, <2>2, OpImm32Names, Tables
  <2> QED
    BY <1>7, <2>3
<1> HIDE DEF Forms, op, i
<1> QED
  BY <1>4, <1>5, <1>6, <1>7

(* Only the shifts of words take their places modulo 32. *)
LEMMA ShiftOfWords ==
  ASSUME GetFunct3 \in {1, 5}, GetFunct7 \in 0 .. 127, GetOpcode \in {"OP_IMM", "OP_IMM_32"},
         SetFromInstruction(Decoded).aluOp \in DOMAIN ImmediateForm
  PROVE  SetFromInstruction(Decoded).aluOp \in {"SLLW", "SRLW", "SRAW"}
           <=> GetOpcode = "OP_IMM_32"
<1> DEFINE i == Decoded
           op == SetFromInstruction(i).aluOp
           f3 == GetFunct3
           f7 == GetFunct7
<1>1. i.opcode = GetOpcode /\ i.funct3 = f3 /\ i.funct7 = f7
  BY DEF Decoded
<1>2. f3 \in 0 .. 127 /\ f3 \in 0 .. 7
  OBVIOUS
<1>3. ASSUME NEW operations, IsTable(operations), op = Selected(operations, i)
      PROVE  \E o \in ALUOp : op = o /\ <<f3, f7, o>> \in operations
  <2>1. op # "NOP"
    BY DEF ImmediateForm
  <2> HIDE DEF op, i, f3, f7
  <2>2. /\ i.funct3 \in 0 .. 127 /\ i.funct7 \in 0 .. 127
    BY <1>1, <1>2 DEF f7
  <2>3. PICK o \in ALUOp : <<i.funct3, i.funct7, o>> \in operations
    BY <1>3, <2>1, <2>2, SelectedOfTable
  <2>4. op = o
    BY <1>3, <2>2, <2>3, SelectedOfTable
  <2> QED
    BY <1>1, <2>3, <2>4
<1>4. CASE GetOpcode = "OP_IMM"
  <2>1. op = Selected(OpImmOperations, i)
    BY <1>1, <1>4 DEF SetFromInstruction, AluOperation
  <2>2. PICK o \in ALUOp : op = o /\ <<f3, f7, o>> \in OpImmOperations
    BY <1>3, <2>1, Tables
  <2>3. <<f3, f7, o>> \in OpOperations
    <3> DEFINE c == IF f3 \in {1, 5} THEN f7 ELSE 0
    <3>1. <<f3, c, o>> \in OpOperations
      BY <2>2, OpImmTable
    <3> QED
      BY <3>1
  <2>4. o \notin {"SLLW", "SRLW", "SRAW"}
    BY <2>3 DEF OpOperations
  <2> QED
    BY <1>4, <2>2, <2>4
<1>5. CASE GetOpcode = "OP_IMM_32"
  <2>1. op = Selected(OpImm32Operations, i)
    BY <1>1, <1>5 DEF SetFromInstruction, AluOperation
  <2>2. PICK o \in ALUOp : op = o /\ <<f3, f7, o>> \in OpImm32Operations
    BY <1>3, <2>1, Tables
  <2>3. <<f3, f7, o>> \in Op32Operations
    <3> DEFINE c == IF f3 \in {1, 5} THEN f7 ELSE 0
    <3>1. <<f3, c, o>> \in Op32Operations
      BY <2>2, OpImm32Table
    <3> QED
      BY <3>1
  <2>4. o \in {"SLLW", "SRLW", "SRAW"}
    BY <2>3 DEF Op32Operations
  <2> QED
    BY <1>5, <2>2, <2>4
<1> QED
  BY <1>4, <1>5

(* What the printer says of a word is what the pipeline does with it: the      *)
(* mnemonic, the immediate, the places of a shift and the condition of a       *)
(* branch of inst-formatter.cc against the control signals of stages.cc and    *)
(* the ALU of alu.cc.                                                          *)
THEOREM PrinterNamesWhatRuns == Spec => []PrintsWhatRuns
<1>1. WordInv => PrintsWhatRuns
  <2> DEFINE i == Decoded
             s == SetFromInstruction(i)
             p == Printed
             op == s.aluOp
             Forms(form) == IF op \in DOMAIN form THEN {form[op]} ELSE {}
             Agrees ==
               CASE i.opcode \in {"OP", "OP_32"} -> NamedBy(p) = Forms(RegisterForm)
                 [] i.opcode \in {"OP_IMM", "OP_IMM_32"} ->
                      /\ NamedBy(p) = Forms(ImmediateForm)
                      /\ NamedBy(p) # {} => p.imm = IF IsShift(i) THEN Places(op, i.imm) ELSE i.imm
                 [] i.opcode = "LOAD" ->
                      NamedBy(p) = {m \in DOMAIN Loads :
                                      Loads[m][1] = s.memSize
                                        /\ (s.memSize # 8 => Loads[m][2] = s.memSignExtend)}
                 [] i.opcode = "STORE" ->
                      NamedBy(p) = {m \in DOMAIN Stores : Stores[m] = s.memSize}
                 [] i.opcode = "BRANCH" ->
                      \A a, b \in Small!Word :
                        Condition(p.mnemonic, a, b) = Small!EvaluateBranch(i.funct3, a, b)
                 [] OTHER ->
                      /\ NamedBy(p) = {OpcodeForm[i.opcode]} /\ p.imm = i.imm
                      /\ s.jump = (p.mnemonic \in {"jal", "jalr"})
  <2> SUFFICES ASSUME WordInv, isSet, GetOpcode \in KnownOpcode PROVE Agrees
    BY DEF PrintsWhatRuns, NamedBy
  <2>1. Bits(0, 2) = 3
    BY QuadrantOfOpcode
  <2>2. GetFunct3 \in 0 .. 7 /\ GetFunct7 \in 0 .. 127
    BY FunctRange
  <2>3. i.opcode = GetOpcode /\ i.funct3 = GetFunct3 /\ i.funct7 = GetFunct7
          /\ i.imm = GetImmediate
    BY DEF Decoded
  <2>4. CASE GetOpcode \in {"OP", "OP_32"}
    <3>1. NamedBy(p) = Forms(RegisterForm)
      BY <2>2, <2>4, OperationPrinted
    <3> QED
      BY <2>3, <2>4, <3>1
  <2>5. CASE GetOpcode \in {"OP_IMM", "OP_IMM_32"}
    <3>1. /\ NamedBy(p) = Forms(ImmediateForm)
          /\ NamedBy(p) # {} => p.imm = ShiftOr(IF GetOpcode = "OP_IMM" THEN 64 ELSE 32)
      BY <2>2, <2>5, OperationPrinted
    <3>2. i.imm = GetImmediateI
      BY <2>3, <2>5 DEF GetImmediate, InstructionType
    <3>3. ASSUME NamedBy(p) # {}
          PROVE  p.imm = IF IsShift(i) THEN Places(op, i.imm) ELSE i.imm
      <4>1. op \in DOMAIN ImmediateForm
        BY <3>1, <3>3
      <4>2. IsShift(i) <=> GetFunct3 \in {1, 5}
        BY <2>3, <2>5 DEF IsShift
      <4>3. GetFunct3 \in {1, 5} => (op \in {"SLLW", "SRLW", "SRAW"} <=> GetOpcode = "OP_IMM_32")
        BY <2>2, <2>5, <4>1, ShiftOfWords
      <4> HIDE DEF op, p, i
      <4> QED
        BY <2>5, <3>1, <3>2, <3>3, <4>2, <4>3 DEF ShiftOr, Places
    <3> QED
      BY <2>3, <2>5, <3>1, <3>3
  <2>6. CASE GetOpcode = "LOAD"
    <3> DEFINE names == ByFunct3(LoadMnemonics)
               Fits(m) == /\ Loads[m][1] = s.memSize
                          /\ (s.memSize # 8 => Loads[m][2] = s.memSignExtend)
    <3>1. /\ names = {m \in DOMAIN Loads : Fits(m)}
          /\ names = {} \/ \E m : names = {m} /\ m # "illegal instruction"
      <4> HIDE DEF i
      <4> QED
        BY <2>2, <2>3, <2>6, LoadNames
    <3>2. p = Select(names, <<GetRD, GetRS1>>, GetImmediateI)
      BY <2>1, <2>6 DEF Printed
    <3>3. NamedBy(p) = names
      <4> DEFINE registers == <<GetRD, GetRS1>>
                 imm == GetImmediateI
      <4>1. names = {} \/ \E m : names = {m} /\ m # "illegal instruction"
        BY <3>1
      <4> HIDE DEF names, registers, imm
      <4>2. NamedBy(Select(names, registers, imm)) = names
        BY <4>1, SelectNames
      <4> QED
        BY <3>2, <4>2 DEF registers, imm
    <3> QED
      BY <2>3, <2>6, <3>1, <3>3
  <2>7. CASE GetOpcode = "STORE"
    <3> DEFINE names == ByFunct3(StoreMnemonics)
    <3>1. /\ names = {m \in DOMAIN Stores : Stores[m] = s.memSize}
          /\ names = {} \/ \E m : names = {m} /\ m # "illegal instruction"
      <4> HIDE DEF i
      <4> QED
        BY <2>2, <2>3, <2>7, StoreNames
    <3>2. p = Select(names, <<GetRS2, GetRS1>>, GetImmediateS)
      BY <2>1, <2>7 DEF Printed
    <3>3. NamedBy(p) = names
      <4> DEFINE registers == <<GetRS2, GetRS1>>
                 imm == GetImmediateS
      <4>1. names = {} \/ \E m : names = {m} /\ m # "illegal instruction"
        BY <3>1
      <4> HIDE DEF names, registers, imm
      <4>2. NamedBy(Select(names, registers, imm)) = names
        BY <4>1, SelectNames
      <4> QED
        BY <3>2, <4>2 DEF registers, imm
    <3> QED
      BY <2>3, <2>7, <3>1, <3>3
  <2>8. CASE GetOpcode = "BRANCH"
    <3>1. p = FormatBranch
      BY <2>1, <2>8 DEF Printed
    <3>2. \A a, b \in Small!Word :
            Condition(p.mnemonic, a, b) = Small!EvaluateBranch(i.funct3, a, b)
      <4> HIDE DEF p, i
      <4> QED
        BY <2>2, <2>3, <3>1, BranchNames
    <3> QED
      BY <2>3, <2>8, <3>2
  <2>9. CASE GetOpcode \in {"JALR", "JAL", "LUI", "AUIPC"}
    <3>1. s.jump = (GetOpcode \in {"JAL", "JALR"})
      BY <2>3 DEF SetFromInstruction
    <3>2. p.imm = GetImmediate
      BY <2>1, <2>9 DEF Printed, Line, GetImmediate, InstructionType
    <3>3. (p.mnemonic \in {"jal", "jalr"}) = (GetOpcode \in {"JAL", "JALR"})
      BY <2>1, <2>9 DEF Printed, Line
    <3>4. NamedBy(p) = {OpcodeForm[GetOpcode]}
      <4> DEFINE m == OpcodeForm[GetOpcode]
      <4>1. m \in {"jalr", "jal", "lui", "auipc"}
        BY <2>9 DEF OpcodeForm
      <4>2. p.mnemonic = m
        BY <2>1, <2>9 DEF Printed, Line, OpcodeForm
      <4>3. Illegal.mnemonic \notin {"jalr", "jal", "lui", "auipc"}
        BY DEF Illegal, Line
      <4>4. p # Illegal
        <5> HIDE DEF p, m
        <5> QED
          BY <4>1, <4>2, <4>3
      <4> QED
        BY <4>2, <4>4 DEF NamedBy
    <3> QED
      BY <2>3, <2>9, <3>1, <3>2, <3>3, <3>4
  <2> HIDE DEF Agrees
  <2> QED
    BY <2>4, <2>5, <2>6, <2>7, <2>8, <2>9 DEF KnownOpcode
<1> QED
  BY <1>1, Decoding, PTL
=============================================================================
