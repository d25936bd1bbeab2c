------------------------------ MODULE AluProofs ------------------------------
(***************************************************************************)
(* The ALU computes what the instruction set says of its result, for every  *)
(* width of a register up to 64 bits and all operands.                      *)
(***************************************************************************)
EXTENDS AluReference, NumberProofs

----------------------------------------------------------------------------
(* The widths and their powers.                                              *)

LEMMA Widths ==
  /\ Width \in 4 .. 64 /\ HalfWidth \in 2 .. 32 /\ Width = 2 * HalfWidth
  /\ Width \in 0 .. 64 /\ HalfWidth \in 0 .. 64
  BY WidthAssumption DEF HalfWidth

LEMMA Powers ==
  /\ TwoTo[Width] \in Nat \ {0} /\ TwoTo[HalfWidth] \in Nat \ {0}
  /\ TwoTo[0] = 1 /\ TwoTo[1] = 2 /\ 2 <= TwoTo[Width]
<1>1. TwoTo[Width] \in Nat \ {0} /\ TwoTo[HalfWidth] \in Nat \ {0}
  BY Widths, TwoToType, Zenon
<1>2. TwoTo[0] = 1 /\ TwoTo[1] = 2
  <2>1. 0 \in 0 .. 63 /\ 0 + 1 = 1
    OBVIOUS
  <2> QED
    BY <2>1, TwoToType
<1>3. TwoTo[1] <= TwoTo[Width]
  <2>1. 1 \in 0 .. 64 /\ Width \in 1 .. 64
    BY Widths
  <2> QED
    BY <2>1, TwoToGrows, Zenon
<1> QED
  BY <1>1, <1>2, <1>3

(* A result is a number of Width bits. *)
LEMMA TruncateType ==
  ASSUME NEW v \in Int
  PROVE  Truncate(v, Width) \in Words
<1> DEFINE p == TwoTo[Width]
<1>1. p \in Nat \ {0}
  BY Powers
<1> HIDE DEF p
<1>2. v % p \in 0 .. p - 1
  BY <1>1, DivMod
<1> QED
  BY <1>2 DEF Truncate, Words, p

(* Truncating leaves a number of that many bits as it is. *)
LEMMA TruncateWord ==
  ASSUME NEW v \in Words
  PROVE  Truncate(v, Width) = v
<1> DEFINE p == TwoTo[Width]
<1>1. p \in Nat \ {0} /\ v \in 0 .. p - 1
  BY Powers DEF Words
<1> HIDE DEF p
<1>2. v % p = v
  BY <1>1
<1> QED
  BY <1>2 DEF Truncate, p

(* Truncating keeps the bits it does not cut off. *)
LEMMA BitOfTruncate ==
  ASSUME NEW n \in 0 .. 64, NEW i \in 0 .. n - 1, NEW v \in Int
  PROVE  BitOf(Truncate(v, n), i) = BitOf(v, i)
  BY BitOfRemainder, Zenon DEF Truncate

LEMMA WordsAreNumbers ==
  ASSUME NEW v \in Words
  PROVE  v \in Int /\ v \in -TwoTo[Width] .. TwoTo[Width] - 1 /\ ~(v < 0)
  BY Powers DEF Words

----------------------------------------------------------------------------
(* Casts to signed numbers.                                                  *)

(* A cast brings the number into the signed range by a multiple of the power. *)
LEMMA AsSignedIs ==
  ASSUME NEW n \in 1 .. 64, NEW v \in Int
  PROVE  /\ AsSigned(v, n) \in -TwoTo[n - 1] .. TwoTo[n - 1] - 1
         /\ \E c \in Int : AsSigned(v, n) = v + c * TwoTo[n]
<1> DEFINE p == TwoTo[n]
           m == TwoTo[n - 1]
           u == v % p
<1>1. p \in Nat \ {0} /\ m \in Nat \ {0} /\ p = 2 * m
  <2>1. n \in 0 .. 64 /\ n - 1 \in 0 .. 63 /\ n - 1 \in 0 .. 64 /\ (n - 1) + 1 = n
    OBVIOUS
  <2>2. p \in Nat \ {0} /\ m \in Nat \ {0}
    BY <2>1, TwoToType, Zenon
  <2>3. TwoTo[(n - 1) + 1] = 2 * TwoTo[n - 1]
    BY <2>1, TwoToType, Zenon
  <2> QED
    BY <2>1, <2>2, <2>3
<1>2. AsSigned(v, n) = IF u < m THEN u ELSE u - p
  BY DEF AsSigned, Truncate
<1> HIDE DEF p, m
<1>3. u \in 0 .. p - 1
  BY <1>1, DivMod
<1>4. PICK c \in Int : u = v + c * p
  BY <1>1, Remainder
<1> HIDE DEF u
<1>5. AsSigned(v, n) \in -m .. m - 1
  BY <1>1, <1>2, <1>3
<1>6. \E d \in Int : AsSigned(v, n) = v + d * p
  <2>1. CASE u < m
    BY <1>2, <1>4, <2>1
  <2>2. CASE ~(u < m)
    <3>1. c - 1 \in Int /\ (c - 1) * p = c * p - p /\ c * p \in Int
      BY <1>1
    <3>2. AsSigned(v, n) = v + (c - 1) * p
      BY <1>1, <1>2, <1>4, <2>2, <3>1
    <3> QED
      BY <3>1, <3>2
  <2> QED
    BY <2>1, <2>2
<1> QED
  BY <1>5, <1>6 DEF p, m

(* So it keeps the bits, and continues the highest of them upwards. *)
LEMMA BitOfAsSigned ==
  ASSUME NEW n \in 1 .. 64, NEW v \in Int
  PROVE  /\ AsSigned(v, n) \in Int
         /\ \A i \in 0 .. n - 1 : BitOf(AsSigned(v, n), i) = BitOf(v, i)
         /\ BitOf(v, n - 1) = IF AsSigned(v, n) < 0 THEN 1 ELSE 0
         /\ \A i \in n - 1 .. 64 : BitOf(AsSigned(v, n), i) = BitOf(v, n - 1)
<1> DEFINE s == AsSigned(v, n)
<1>1. n \in 0 .. 64 /\ n - 1 \in 0 .. 64 /\ n - 1 \in 0 .. n - 1 /\ n - 1 \in n - 1 .. 64
  OBVIOUS
<1>2. s \in -TwoTo[n - 1] .. TwoTo[n - 1] - 1
  BY AsSignedIs
<1>3. PICK c \in Int : s = v + c * TwoTo[n]
  BY AsSignedIs
<1> HIDE DEF s
<1>4. s \in Int
  <2>1. TwoTo[n - 1] \in Nat \ {0}
    BY <1>1, TwoToType, Zenon
  <2> QED
    BY <1>2, <2>1
<1>5. \A i \in 0 .. n - 1 : BitOf(s, i) = BitOf(v, i)
  BY <1>1, <1>3, BitOfCarry
<1>6. \A i \in n - 1 .. 64 : BitOf(s, i) = IF s < 0 THEN 1 ELSE 0
  BY <1>1, <1>2, BitOfHigh, Zenon
<1>7. BitOf(v, n - 1) = IF s < 0 THEN 1 ELSE 0
  BY <1>1, <1>5, <1>6
<1> QED
  BY <1>4, <1>5, <1>6, <1>7 DEF s

(* The cast of a word to a signed one. *)
LEMMA SignedWord ==
  ASSUME NEW v \in Words
  PROVE  AsSigned(v, Width) = IF AsSigned(v, Width) < 0 THEN v - TwoTo[Width] ELSE v
<1> DEFINE p == TwoTo[Width]
           m == TwoTo[Width - 1]
<1>1. AsSigned(v, Width) = IF v < m THEN v ELSE v - p
  BY TruncateWord DEF AsSigned
<1>2. p \in Nat \ {0} /\ v \in 0 .. p - 1
  BY Powers DEF Words
<1> HIDE DEF p, m
<1> QED
  BY <1>1, <1>2 DEF p

(* What a word operation returns: the lower half of the exact result and its  *)
(* sign above. *)
LEMMA WordResult ==
  ASSUME NEW e \in Int, NEW bits,
         \A i \in 0 .. HalfWidth - 1 : BitOf(e, i) = bits[i]
  PROVE  HasBits(Truncate(AsSigned(e, HalfWidth), Width), SignExtendedHalf(bits))
<1> DEFINE s == AsSigned(e, HalfWidth)
           H == HalfWidth
<1>1. H \in 1 .. 64 /\ Width \in 0 .. 64 /\ Width = 2 * H
  BY Widths
<1>2. /\ s \in Int
      /\ \A i \in 0 .. H - 1 : BitOf(s, i) = BitOf(e, i)
      /\ \A i \in H - 1 .. 64 : BitOf(s, i) = BitOf(e, H - 1)
  BY <1>1, BitOfAsSigned
<1> HIDE DEF s
<1> SUFFICES ASSUME NEW i \in 0 .. Width - 1
             PROVE  BitOf(Truncate(s, Width), i) = bits[IF i < H THEN i ELSE H - 1]
  BY DEF HasBits, SignExtendedHalf, s
<1>3. BitOf(Truncate(s, Width), i) = BitOf(s, i)
  BY <1>1, <1>2, BitOfTruncate
<1>4. CASE i < H
  <2>1. i \in 0 .. H - 1
    BY <1>1, <1>4
  <2> QED
    BY <1>2, <1>3, <1>4, <2>1
<1>5. CASE ~(i < H)
  <2>1. i \in H - 1 .. 64 /\ H - 1 \in 0 .. H - 1
    BY <1>1, <1>5
  <2> QED
    BY <1>2, <1>3, <1>5, <2>1
<1> QED
  BY <1>4, <1>5

----------------------------------------------------------------------------
(* The operations, for operands of registers.                                *)

Operands == A \in Words /\ B \in Words

LEMMA OperandNumbers ==
  ASSUME Operands
  PROVE  /\ A \in Int /\ B \in Int /\ ~(A < 0)
         /\ A \in -TwoTo[Width] .. TwoTo[Width] - 1
         /\ \A i \in 0 .. Width - 1 : BitOf(A, i) \in {0, 1} /\ BitOf(B, i) \in {0, 1}
<1>1. A \in Int /\ B \in Int /\ ~(A < 0) /\ A \in -TwoTo[Width] .. TwoTo[Width] - 1
  BY WordsAreNumbers DEF Operands
<1>2. \A i \in 0 .. Width - 1 : i \in 0 .. 64
  BY Widths
<1> QED
  BY <1>1, <1>2, BitOfType

LEMMA Amounts ==
  ASSUME Operands
  PROVE  /\ ShiftAmount(B, Width) = Amount /\ Amount \in 0 .. Width - 1
         /\ ShiftAmount(B, HalfWidth) = HalfAmount /\ HalfAmount \in 0 .. HalfWidth - 1
<1>1. B \in Int
  BY OperandNumbers
<1>2. Width \in Nat \ {0} /\ HalfWidth \in Nat \ {0}
  BY Widths
<1>3. B % Width \in 0 .. Width - 1 /\ B % HalfWidth \in 0 .. HalfWidth - 1
  BY <1>1, <1>2, DivMod, Zenon
<1> QED
  BY <1>3 DEF ShiftAmount, Amount, HalfAmount

LEMMA NoOperation ==
  ASSUME Operands, op = "NOP"
  PROVE  ComputesReference
<1>1. GetResult = Truncate(0, Width)
  BY DEF GetResult, Result
<1>2. 0 \in Words
  BY Powers DEF Words
<1>3. GetResult = 0
  BY <1>1, <1>2, TruncateWord
<1> QED
  BY <1>2, <1>3 DEF ComputesReference, IsReference

(* Adding and subtracting are each other's inverse, modulo the power. *)
LEMMA Sums ==
  ASSUME Operands, op \in {"ADD", "SUB"}
  PROVE  ComputesReference
<1> DEFINE p == TwoTo[Width]
<1>1. p \in Nat \ {0} /\ A \in Int /\ B \in Int
  BY Powers, OperandNumbers
<1>2. A \in 0 .. p - 1 /\ B \in 0 .. p - 1
  BY DEF Operands, Words
<1> HIDE DEF p
<1>3. A % p = A /\ B % p = B
  BY <1>1, <1>2
<1>4. CASE op = "ADD"
  <2> DEFINE r == (A + B) % p
  <2>1. GetResult = Truncate(A + B, Width)
    BY <1>4 DEF GetResult, Result
  <2>2. PICK c \in Int : r = (A + B) + c * p
    <3>1. A + B \in Int
      BY <1>1
    <3> QED
      BY <1>1, <3>1, Remainder
  <2> HIDE DEF r
  <2>3. r - A = B + c * p
    <3>1. c * p \in Int
      BY <1>1
    <3> QED
      BY <1>1, <2>2, <3>1
  <2>4. (r - A) % p = B
    BY <1>1, <1>3, <2>3, DivCarry
  <2>5. GetResult \in Words
    BY <1>1, <2>1, TruncateType
  <2>6. GetResult = r
    BY <2>1 DEF Truncate, r, p
  <2> QED
    BY <1>4, <2>4, <2>5, <2>6 DEF ComputesReference, IsReference, p
<1>5. CASE op = "SUB"
  <2> DEFINE r == (A - B) % p
  <2>1. GetResult = Truncate(A - B, Width)
    BY <1>5 DEF GetResult, Result
  <2>2. PICK c \in Int : r = (A - B) + c * p
    <3>1. A - B \in Int
      BY <1>1
    <3> QED
      BY <1>1, <3>1, Remainder
  <2> HIDE DEF r
  <2>3. r + B = A + c * p
    <3>1. c * p \in Int
      BY <1>1
    <3> QED
      BY <1>1, <2>2, <3>1
  <2>4. (r + B) % p = A
    BY <1>1, <1>3, <2>3, DivCarry
  <2>5. GetResult \in Words
    BY <1>1, <2>1, TruncateType
  <2>6. GetResult = r
    BY <2>1 DEF Truncate, r, p
  <2> QED
    BY <1>5, <2>4, <2>5, <2>6 DEF ComputesReference, IsReference, p
<1> QED
  BY <1>4, <1>5

(* A bit of the result depends on the two bits at its place only. *)
LEMMA BitwiseOperations ==
  ASSUME Operands, op \in {"XOR", "OR", "AND"}
  PROVE  ComputesReference
<1> DEFINE counts == CASE op = "XOR" -> {1} [] op = "OR" -> {1, 2} [] op = "AND" -> {2}
           bits == [i \in 0 .. Width - 1 |->
                      IF BitOf(A, i) + BitOf(B, i) \in counts THEN 1 ELSE 0]
           r == FromBits(bits, Width)
<1>1. \A i \in 0 .. Width - 1 : BitOf(A, i) \in {0, 1} /\ BitOf(B, i) \in {0, 1}
  BY OperandNumbers
<1>2. GetResult = Truncate(r, Width)
  <2>1. r = BitByBit(A, B, counts)
    BY DEF BitByBit
  <2> HIDE DEF r
  <2>2. CASE op = "XOR"
    BY <2>1, <2>2 DEF GetResult, Result
  <2>3. CASE op = "OR"
    BY <2>1, <2>3 DEF GetResult, Result
  <2>4. CASE op = "AND"
    BY <2>1, <2>4 DEF GetResult, Result
  <2> QED
    BY <2>2, <2>3, <2>4
<1>3. \A i \in 0 .. Width - 1 : bits[i] \in {0, 1}
  OBVIOUS
<1>4. r \in Words /\ \A i \in 0 .. Width - 1 : BitOf(r, i) = bits[i]
  <2> HIDE DEF bits
  <2>1. r \in Words
    BY <1>3, Widths, FromBitsRange DEF Words
  <2>2. \A i \in 0 .. Width - 1 : BitOf(r, i) = bits[i]
    BY <1>3, Widths, BitOfFromBits
  <2> QED
    BY <2>1, <2>2
<1> HIDE DEF r
<1>5. GetResult = r
  BY <1>2, <1>4, TruncateWord
<1>6. CASE op = "XOR"
  <2>1. \A i \in 0 .. Width - 1 : bits[i] = 1 <=> BitOf(A, i) # BitOf(B, i)
    BY <1>1, <1>6
  <2> HIDE DEF bits
  <2>2. SetBits(r) = (SetBits(A) \cup SetBits(B)) \ (SetBits(A) \cap SetBits(B))
    BY <1>1, <1>4, <2>1 DEF SetBits
  <2> QED
    BY <1>4, <1>5, <1>6, <2>2 DEF ComputesReference, IsReference
<1>7. CASE op = "OR"
  <2>1. \A i \in 0 .. Width - 1 : bits[i] = 1 <=> BitOf(A, i) = 1 \/ BitOf(B, i) = 1
    BY <1>1, <1>7
  <2> HIDE DEF bits
  <2>2. SetBits(r) = SetBits(A) \cup SetBits(B)
    BY <1>1, <1>4, <2>1 DEF SetBits
  <2> QED
    BY <1>4, <1>5, <1>7, <2>2 DEF ComputesReference, IsReference
<1>8. CASE op = "AND"
  <2>1. \A i \in 0 .. Width - 1 : bits[i] = 1 <=> BitOf(A, i) = 1 /\ BitOf(B, i) = 1
    BY <1>1, <1>8
  <2> HIDE DEF bits
  <2>2. SetBits(r) = SetBits(A) \cap SetBits(B)
    BY <1>1, <1>4, <2>1 DEF SetBits
  <2> QED
    BY <1>4, <1>5, <1>8, <2>2 DEF ComputesReference, IsReference
<1> QED
  BY <1>6, <1>7, <1>8

(* Shifts move the bits of A, and the sign comes in from above for SRA. *)
LEMMA Shifts ==
  ASSUME Operands, op \in {"SLL", "SRL", "SRA"}
  PROVE  ComputesReference
<1> DEFINE amount == Amount
           p == TwoTo[amount]
<1>1. /\ ShiftAmount(B, Width) = amount /\ amount \in 0 .. Width - 1
      /\ A \in Int /\ ~(A < 0) /\ A \in -TwoTo[Width] .. TwoTo[Width] - 1
  BY Amounts, OperandNumbers
<1> HIDE DEF amount
<1>2. /\ amount \in 0 .. 64 /\ amount \in 0 .. Width /\ amount \in 0 .. Width - 1
      /\ Width \in 0 .. 64 /\ Width \in 1 .. 64 /\ Width - 1 \in 0 .. 64
      /\ \A i \in 0 .. Width - 1 : i \in 0 .. 63 /\ i \in 0 .. 64
  BY <1>1, Widths
<1>3. p \in Nat \ {0}
  BY <1>2, TwoToType, Zenon
<1>4. CASE op = "SLL"
  <2> DEFINE e == A * p
  <2>1. GetResult = Truncate(e, Width)
    BY <1>1, <1>4 DEF GetResult, Result
  <2>2. e \in Int
    BY <1>1, <1>3
  <2>3. ASSUME NEW i \in 0 .. Width - 1
        PROVE  BitOf(e, i) = IF i >= amount THEN BitOf(A, i - amount) ELSE 0
    BY <1>1, <1>2, BitOfProduct, Zenon
  <2> HIDE DEF e
  <2>4. \A i \in 0 .. Width - 1 : BitOf(GetResult, i) = BitOf(e, i)
    BY <1>2, <2>1, <2>2, BitOfTruncate
  <2>5. HasBits(GetResult, ShiftedLeft(Width, amount))
    BY <2>3, <2>4 DEF HasBits, ShiftedLeft
  <2>6. GetResult \in Words
    BY <2>1, <2>2, TruncateType
  <2> QED
    BY <1>4, <2>5, <2>6 DEF ComputesReference, IsReference, amount
<1>5. CASE op = "SRL"
  <2> DEFINE e == A \div p
  <2>1. GetResult = Truncate(e, Width)
    BY <1>1, <1>5 DEF GetResult, Result
  <2>2. e \in Int
    BY <1>1, <1>3, DivMod
  <2>3. ASSUME NEW i \in 0 .. Width - 1
        PROVE  BitOf(e, i) = IF i + amount < Width THEN BitOf(A, i + amount) ELSE 0
    <3>1. BitOf(A \div TwoTo[amount], i) =
            IF i + amount < Width THEN BitOf(A, i + amount) ELSE IF A < 0 THEN 1 ELSE 0
      BY <1>1, <1>2, BitOfShifted, Zenon
    <3> QED
      BY <1>1, <3>1
  <2> HIDE DEF e
  <2>4. \A i \in 0 .. Width - 1 : BitOf(GetResult, i) = BitOf(e, i)
    BY <1>2, <2>1, <2>2, BitOfTruncate
  <2>5. HasBits(GetResult, ShiftedRight(Width, amount, 0))
    BY <2>3, <2>4 DEF HasBits, ShiftedRight
  <2>6. GetResult \in Words
    BY <2>1, <2>2, TruncateType
  <2> QED
    BY <1>5, <2>5, <2>6 DEF ComputesReference, IsReference, amount
<1>6. CASE op = "SRA"
  <2> DEFINE v == AsSigned(A, Width)
             e == v \div p
  <2>1. GetResult = Truncate(e, Width)
    BY <1>1, <1>6 DEF GetResult, Result
  <2>2. /\ v \in Int /\ v \in -TwoTo[Width - 1] .. TwoTo[Width - 1] - 1
        /\ \A i \in 0 .. Width - 1 : BitOf(v, i) = BitOf(A, i)
        /\ BitOf(A, Width - 1) = IF v < 0 THEN 1 ELSE 0
    BY <1>1, <1>2, AsSignedIs, BitOfAsSigned
  <2> HIDE DEF v
  <2>3. e \in Int
    BY <1>3, <2>2, DivMod
  <2>4. ASSUME NEW i \in 0 .. Width - 1
        PROVE  BitOf(e, i) =
                 IF i + amount < Width THEN BitOf(A, i + amount) ELSE BitOf(A, Width - 1)
    <3>1. amount \in 0 .. Width - 1 /\ Width - 1 \in 0 .. 64 /\ i \in 0 .. 64
      BY <1>2
    <3>2. BitOf(v \div TwoTo[amount], i) =
            IF i + amount < Width - 1 THEN BitOf(v, i + amount) ELSE IF v < 0 THEN 1 ELSE 0
      BY <2>2, <3>1, BitOfShifted, Zenon
    <3>3. CASE i + amount < Width - 1
      <4>1. i + amount \in 0 .. Width - 1 /\ i + amount < Width
        BY <3>1, <3>3
      <4> QED
        BY <2>2, <3>2, <3>3, <4>1
    <3>4. CASE ~(i + amount < Width - 1)
      <4>1. i + amount < Width => i + amount = Width - 1
        BY <3>1, <3>4
      <4> QED
        BY <2>2, <3>2, <3>4, <4>1
    <3> QED
      BY <3>3, <3>4
  <2> HIDE DEF e
  <2>5. \A i \in 0 .. Width - 1 : BitOf(GetResult, i) = BitOf(e, i)
    BY <1>2, <2>1, <2>3, BitOfTruncate
  <2>6. HasBits(GetResult, ShiftedRight(Width, amount, Sign(Width)))
    BY <2>4, <2>5 DEF HasBits, ShiftedRight, Sign
  <2>7. GetResult \in Words
    BY <2>1, <2>3, TruncateType
  <2> QED
    BY <1>6, <2>6, <2>7 DEF ComputesReference, IsReference, amount
<1> QED
  BY <1>4, <1>5, <1>6

----------------------------------------------------------------------------
(* The comparisons.                                                          *)

(* Different operands differ in a bit, and one of those is the highest. *)
LEMMA HighestDiffering ==
  ASSUME Operands, A # B
  PROVE  \E i \in Differing : \A j \in Differing : j <= i
<1>1. Differing # {}
  <2> SUFFICES ASSUME Differing = {} PROVE FALSE
    OBVIOUS
  <2>1. \A j \in 0 .. Width - 1 : BitOf(A, j) = BitOf(B, j)
    BY DEF Differing
  <2>2. Width \in 0 .. 64 /\ 0 \in 0 .. Width
    BY Widths
  <2>3. A \in 0 .. TwoTo[Width] - 1 /\ B \in 0 .. TwoTo[Width] - 1
    BY DEF Operands, Words
  <2>4. A \div TwoTo[0] = B \div TwoTo[0]
    BY <2>1, <2>2, <2>3, EqualBits
  <2>5. A \div 1 = A /\ B \div 1 = B
    BY OperandNumbers
  <2> QED
    BY <2>4, <2>5, Powers
<1> DEFINE Above == {(Width - 1) - i : i \in Differing}
<1>2. Above \in SUBSET Nat /\ Above # {}
  BY <1>1, Widths DEF Differing
<1> HIDE DEF Above
<1>3. PICK k \in Above : \A l \in Above : k <= l
  BY <1>2, LeastNumber
<1>4. PICK i \in Differing : k = (Width - 1) - i
  BY <1>3 DEF Above
<1>5. ASSUME NEW j \in Differing PROVE j <= i
  <2>1. (Width - 1) - j \in Above
    BY DEF Above
  <2>2. i \in Int /\ j \in Int /\ Width \in Int
    BY Widths DEF Differing
  <2> QED
    BY <1>3, <1>4, <2>1, <2>2
<1> QED
  BY <1>4, <1>5

(* It decides the comparison. *)
LEMMA Decides ==
  ASSUME Operands, NEW i \in Differing, \A j \in Differing : j <= i
  PROVE  /\ BitOf(A, i) \in {0, 1} /\ BitOf(B, i) = 1 - BitOf(A, i)
         /\ A < B <=> BitOf(A, i) = 0
<1>1. i \in 0 .. Width - 1 /\ BitOf(A, i) # BitOf(B, i) /\ Width \in 0 .. 64
  BY Widths DEF Differing
<1>2. \A j \in i + 1 .. Width - 1 : BitOf(A, j) = BitOf(B, j) /\ BitOf(B, j) = BitOf(A, j)
  <2>1. ASSUME NEW j \in i + 1 .. Width - 1 PROVE j \in 0 .. Width - 1 /\ ~(j <= i)
    BY <1>1
  <2> QED
    BY <2>1 DEF Differing
<1>3. A \in 0 .. TwoTo[Width] - 1 /\ B \in 0 .. TwoTo[Width] - 1
  BY DEF Operands, Words
<1>4. BitOf(A, i) \in {0, 1} /\ BitOf(B, i) \in {0, 1}
  BY <1>1, OperandNumbers
<1>5. BitOf(A, i) = 0 /\ BitOf(B, i) = 1 => A < B
  BY <1>1, <1>2, <1>3, LessByBit
<1>6. BitOf(B, i) = 0 /\ BitOf(A, i) = 1 => B < A
  BY <1>1, <1>2, <1>3, LessByBit
<1>7. ~(A < B /\ B < A)
  BY OperandNumbers
<1> QED
  BY <1>1, <1>4, <1>5, <1>6, <1>7

(* The comparisons are those of the numbers and of the signed numbers. *)
LEMMA Comparisons ==
  ASSUME Operands, op \in {"SLT", "SLTU"}
  PROVE  ComputesReference
<1>1. A \in Int /\ B \in Int
  BY OperandNumbers
<1>2. 0 \in Words /\ 1 \in Words
  BY Powers DEF Words
<1>3. CASE op = "SLTU"
  <2>1. A < B <=> Below(FALSE)
    <3>1. CASE A = B
      BY <1>1, <3>1 DEF Below, Differing
    <3>2. CASE A # B
      <4>1. PICK i \in Differing : \A j \in Differing : j <= i
        BY <3>2, HighestDiffering
      <4>2. A < B <=> BitOf(A, i) = 0
        BY <4>1, Decides
      <4>3. Below(FALSE) <=> BitOf(A, i) = 0
        <5>1. \A j \in Differing : (\A k \in Differing : k <= j) => j = i
          BY <4>1 DEF Differing
        <5> QED
          BY <4>1, <5>1 DEF Below
      <4> QED
        BY <4>2, <4>3
    <3> QED
      BY <3>1, <3>2
  <2>2. GetResult = Truncate(IF A < B THEN 1 ELSE 0, Width)
    BY <1>3 DEF GetResult, Result
  <2>3. GetResult = IF A < B THEN 1 ELSE 0
    BY <1>2, <2>2, TruncateWord
  <2> QED
    BY <1>2, <1>3, <2>1, <2>3 DEF ComputesReference, IsReference
<1>4. CASE op = "SLT"
  <2> DEFINE a == AsSigned(A, Width)
             b == AsSigned(B, Width)
  <2>1. a < b <=> Below(TRUE)
    <3>1. CASE A = B
      <4>1. Width \in 1 .. 64
        BY Widths
      <4>2. a \in Int /\ a = b
        BY <1>1, <3>1, <4>1, BitOfAsSigned
      <4>3. Differing = {}
        BY <3>1 DEF Differing
      <4> HIDE DEF a, b
      <4> QED
        BY <4>2, <4>3 DEF Below
    <3>2. CASE A # B
      <4>1. PICK i \in Differing : \A j \in Differing : j <= i
        BY <3>2, HighestDiffering
      <4>2. BitOf(A, i) \in {0, 1} /\ BitOf(B, i) = 1 - BitOf(A, i)
            /\ (A < B <=> BitOf(A, i) = 0)
        BY <4>1, Decides
      <4>3. Below(TRUE) <=> BitOf(A, i) = (IF i = Width - 1 THEN 1 ELSE 0)
        <5>1. \A j \in Differing : (\A k \in Differing : k <= j) => j = i
          BY <4>1 DEF Differing
        <5> QED
          BY <4>1, <5>1 DEF Below
      <4>4. i \in 0 .. Width - 1 /\ Width \in 4 .. 64
        BY Widths DEF Differing
      <4>5. /\ a \in Int /\ BitOf(A, Width - 1) = IF a < 0 THEN 1 ELSE 0
            /\ b \in Int /\ BitOf(B, Width - 1) = IF b < 0 THEN 1 ELSE 0
        <5>1. Width \in 1 .. 64
          BY <4>4
        <5> QED
          BY <1>1, <5>1, BitOfAsSigned
      <4>6. /\ a = IF a < 0 THEN A - TwoTo[Width] ELSE A
            /\ b = IF b < 0 THEN B - TwoTo[Width] ELSE B
        BY SignedWord DEF Operands
      <4> HIDE DEF a, b
      <4>7. CASE i = Width - 1
        <5>1. /\ BitOf(A, i) = IF a < 0 THEN 1 ELSE 0
              /\ BitOf(B, i) = IF b < 0 THEN 1 ELSE 0
          BY <4>5, <4>7
        <5>2. a < b <=> BitOf(A, i) = 1
          BY <4>2, <4>5, <5>1
        <5> QED
          BY <4>3, <4>7, <5>2
      <4>8. CASE i # Width - 1
        <5>1. BitOf(A, Width - 1) = BitOf(B, Width - 1)
          <6>1. Width - 1 \in 0 .. Width - 1 /\ ~(Width - 1 <= i)
            BY <4>4, <4>8
          <6> QED
            BY <4>1, <6>1 DEF Differing
        <5>2. a < 0 <=> b < 0
          BY <4>5, <5>1
        <5>3. TwoTo[Width] \in Int
          BY Powers
        <5>4. a < b <=> A < B
          BY <1>1, <4>6, <5>2, <5>3
        <5> QED
          BY <4>2, <4>3, <4>8, <5>4
      <4> QED
        BY <4>7, <4>8
    <3> HIDE DEF a, b
    <3> QED
      BY <3>1, <3>2
  <2>2. GetResult = Truncate(IF a < b THEN 1 ELSE 0, Width)
    BY <1>4 DEF GetResult, Result
  <2> HIDE DEF a, b
  <2>3. GetResult = IF a < b THEN 1 ELSE 0
    BY <1>2, <2>2, TruncateWord
  <2> QED
    BY <1>2, <1>4, <2>1, <2>3 DEF ComputesReference, IsReference
<1> QED
  BY <1>3, <1>4

----------------------------------------------------------------------------
(* The word operations.                                                      *)

(* The lower halves of the operands. *)
LEMMA Halves ==
  ASSUME Operands
  PROVE  /\ AsSigned(A, HalfWidth) \in Int /\ AsSigned(B, HalfWidth) \in Int
         /\ \E c \in Int : AsSigned(A, HalfWidth) = A + c * TwoTo[HalfWidth]
         /\ \E c \in Int : AsSigned(B, HalfWidth) = B + c * TwoTo[HalfWidth]
<1>1. A \in Int /\ B \in Int /\ HalfWidth \in 1 .. 64
  BY OperandNumbers, Widths
<1> QED
  BY <1>1, AsSignedIs, BitOfAsSigned

(* Sums of the lower halves have the lower bits of the sums. *)
LEMMA WordSums ==
  ASSUME Operands, op \in {"ADDW", "SUBW"}
  PROVE  ComputesReference
<1> DEFINE p == TwoTo[HalfWidth]
           a == AsSigned(A, HalfWidth)
           b == AsSigned(B, HalfWidth)
<1>1. p \in Nat \ {0} /\ A \in Int /\ B \in Int /\ a \in Int /\ b \in Int
  BY Powers, OperandNumbers, Halves
<1>2. PICK c \in Int : a = A + c * p
  BY Halves
<1>3. PICK d \in Int : b = B + d * p
  BY Halves
<1>4. HalfWidth \in 0 .. 64 /\ HalfWidth \in 1 .. 64
  BY Widths
<1>5. c * p \in Int /\ d * p \in Int
  BY <1>1
<1>6. CASE op = "ADDW"
  <2>1. GetResult = Truncate(AsSigned(a + b, HalfWidth), Width)
    BY <1>6 DEF GetResult, Result
  <2> HIDE DEF a, b
  <2> DEFINE e == a + b
             k == c + d
             v == A + B
  <2>2. e \in Int /\ k \in Int /\ v \in Int /\ k * p = c * p + d * p
    BY <1>1
  <2>3. e = v + k * p
    BY <1>1, <1>2, <1>3, <1>5, <2>2
  <2> HIDE DEF e, k, v
  <2>4. ASSUME NEW i \in 0 .. HalfWidth - 1 PROVE BitOf(e, i) = BitOf(v, i)
    <3>1. BitOf(v + k * TwoTo[HalfWidth], i) = BitOf(v, i)
      BY <1>4, <2>2, BitOfCarry, Zenon
    <3> QED
      BY <2>3, <3>1
  <2>5. \A i \in 0 .. HalfWidth - 1 : BitOf(e, i) = HalfBits(A + B)[i]
    BY <2>4 DEF HalfBits, v
  <2>6. HasBits(GetResult, SignExtendedHalf(HalfBits(A + B)))
    BY <2>1, <2>2, <2>5, WordResult DEF e
  <2>7. GetResult \in Words
    BY <1>4, <2>1, <2>2, BitOfAsSigned, TruncateType DEF e
  <2> QED
    BY <1>6, <2>6, <2>7 DEF ComputesReference, IsReference
<1>7. CASE op = "SUBW"
  <2>1. GetResult = Truncate(AsSigned(a - b, HalfWidth), Width)
    BY <1>7 DEF GetResult, Result
  <2> HIDE DEF a, b
  <2> DEFINE e == a - b
             k == c - d
             v == A - B
  <2>2. e \in Int /\ k \in Int /\ v \in Int /\ k * p = c * p - d * p
    BY <1>1
  <2>3. e = v + k * p
    BY <1>1, <1>2, <1>3, <1>5, <2>2
  <2> HIDE DEF e, k, v
  <2>4. ASSUME NEW i \in 0 .. HalfWidth - 1 PROVE BitOf(e, i) = BitOf(v, i)
    <3>1. BitOf(v + k * TwoTo[HalfWidth], i) = BitOf(v, i)
      BY <1>4, <2>2, BitOfCarry, Zenon
    <3> QED
      BY <2>3, <3>1
  <2>5. \A i \in 0 .. HalfWidth - 1 : BitOf(e, i) = HalfBits(A - B)[i]
    BY <2>4 DEF HalfBits, v
  <2>6. HasBits(GetResult, SignExtendedHalf(HalfBits(A - B)))
    BY <2>1, <2>2, <2>5, WordResult DEF e
  <2>7. GetResult \in Words
    BY <1>4, <2>1, <2>2, BitOfAsSigned, TruncateType DEF e
  <2> QED
    BY <1>7, <2>6, <2>7 DEF ComputesReference, IsReference
<1> QED
  BY <1>6, <1>7

(* Shifts of the lower half. *)
LEMMA WordShifts ==
  ASSUME Operands, op \in {"SLLW", "SRLW", "SRAW"}
  PROVE  ComputesReference
<1> DEFINE amount == HalfAmount
           H == HalfWidth
           p == TwoTo[amount]
           u == Truncate(A, H)
<1>1. ShiftAmount(B, H) = amount /\ amount \in 0 .. H - 1 /\ A \in Int
  BY Amounts, OperandNumbers
<1> HIDE DEF amount
<1>2. /\ H \in 1 .. 64 /\ H \in 0 .. 64 /\ H - 1 \in 0 .. 64 /\ Width = 2 * H
      /\ amount \in 0 .. 64 /\ amount \in 0 .. H
      /\ \A i \in 0 .. H - 1 : i \in 0 .. 63 /\ i \in 0 .. 64
      /\ \A i \in 0 .. Width - 1 : i \in 0 .. 64
  BY <1>1, Widths
<1>3. p \in Nat \ {0} /\ TwoTo[H] \in Nat \ {0}
  BY <1>2, TwoToType, Zenon
<1>4. /\ u \in 0 .. TwoTo[H] - 1 /\ u \in -TwoTo[H] .. TwoTo[H] - 1 /\ u \in Int /\ ~(u < 0)
      /\ \A i \in 0 .. H - 1 : BitOf(u, i) = BitOf(A, i)
  <2> DEFINE m == TwoTo[H]
  <2>1. m \in Nat \ {0} /\ u = A % m
    BY <1>3 DEF Truncate
  <2> HIDE DEF m, u
  <2>2. u \in 0 .. m - 1
    BY <1>1, <2>1, DivMod
  <2>3. u \in -m .. m - 1 /\ u \in Int /\ ~(u < 0)
    BY <2>1, <2>2
  <2>4. \A i \in 0 .. H - 1 : BitOf(Truncate(A, H), i) = BitOf(A, i)
    BY <1>1, <1>2, BitOfTruncate
  <2> QED
    BY <2>2, <2>3, <2>4 DEF m, u
<1>5. CASE op = "SLLW"
  <2> DEFINE e == u * p
  <2>1. GetResult = Truncate(AsSigned(e, H), Width)
    BY <1>1, <1>5 DEF GetResult, Result
  <2> HIDE DEF u
  <2>2. e \in Int
    BY <1>3, <1>4
  <2>3. ASSUME NEW i \in 0 .. H - 1
        PROVE  BitOf(e, i) = IF i >= amount THEN BitOf(A, i - amount) ELSE 0
    <3>1. BitOf(u * TwoTo[amount], i) = IF i >= amount THEN BitOf(u, i - amount) ELSE 0
      BY <1>2, <1>4, BitOfProduct, Zenon
    <3>2. i >= amount => i - amount \in 0 .. H - 1
      BY <1>2
    <3> QED
      BY <1>4, <3>1, <3>2
  <2> HIDE DEF e
  <2>4. \A i \in 0 .. H - 1 : BitOf(e, i) = ShiftedLeft(H, amount)[i]
    BY <2>3 DEF ShiftedLeft
  <2>5. HasBits(GetResult, SignExtendedHalf(ShiftedLeft(H, amount)))
    BY <2>1, <2>2, <2>4, WordResult
  <2>6. GetResult \in Words
    BY <1>2, <2>1, <2>2, BitOfAsSigned, TruncateType
  <2> QED
    BY <1>5, <2>5, <2>6 DEF ComputesReference, IsReference, amount
<1>6. CASE op = "SRLW"
  <2> DEFINE e == u \div p
  <2>1. GetResult = Truncate(AsSigned(e, H), Width)
    BY <1>1, <1>6 DEF GetResult, Result
  <2> HIDE DEF u
  <2>2. e \in Int
    BY <1>3, <1>4, DivMod
  <2>3. ASSUME NEW i \in 0 .. H - 1
        PROVE  BitOf(e, i) = IF i + amount < H THEN BitOf(A, i + amount) ELSE 0
    <3>1. BitOf(u \div TwoTo[amount], i) =
            IF i + amount < H THEN BitOf(u, i + amount) ELSE IF u < 0 THEN 1 ELSE 0
      BY <1>2, <1>4, BitOfShifted, Zenon
    <3>2. i + amount < H => i + amount \in 0 .. H - 1
      BY <1>2
    <3> QED
      BY <1>4, <3>1, <3>2
  <2> HIDE DEF e
  <2>4. \A i \in 0 .. H - 1 : BitOf(e, i) = ShiftedRight(H, amount, 0)[i]
    BY <2>3 DEF ShiftedRight
  <2>5. HasBits(GetResult, SignExtendedHalf(ShiftedRight(H, amount, 0)))
    BY <2>1, <2>2, <2>4, WordResult
  <2>6. GetResult \in Words
    BY <1>2, <2>1, <2>2, BitOfAsSigned, TruncateType
  <2> QED
    BY <1>6, <2>5, <2>6 DEF ComputesReference, IsReference, amount
<1>7. CASE op = "SRAW"
  <2> DEFINE v == AsSigned(A, H)
             e == v \div p
             bits == ShiftedRight(H, amount, Sign(H))
  <2>1. GetResult = Truncate(e, Width)
    BY <1>1, <1>7 DEF GetResult, Result
  <2>2. /\ v \in Int /\ v \in -TwoTo[H - 1] .. TwoTo[H - 1] - 1
        /\ \A i \in 0 .. H - 1 : BitOf(v, i) = BitOf(A, i)
        /\ BitOf(A, H - 1) = IF v < 0 THEN 1 ELSE 0
    BY <1>1, <1>2, AsSignedIs, BitOfAsSigned
  <2> HIDE DEF v
  <2>3. e \in Int
    BY <1>3, <2>2, DivMod
  <2>4. ASSUME NEW i \in 0 .. Width - 1
        PROVE  BitOf(e, i) =
                 IF i + amount < H THEN BitOf(A, i + amount) ELSE BitOf(A, H - 1)
    <3>1. amount \in 0 .. H - 1 /\ H - 1 \in 0 .. 64 /\ i \in 0 .. 64
      BY <1>1, <1>2
    <3>2. BitOf(v \div TwoTo[amount], i) =
            IF i + amount < H - 1 THEN BitOf(v, i + amount) ELSE IF v < 0 THEN 1 ELSE 0
      BY <2>2, <3>1, BitOfShifted, Zenon
    <3>3. CASE i + amount < H - 1
      <4>1. i + amount \in 0 .. H - 1 /\ i + amount < H
        BY <3>1, <3>3
      <4> QED
        BY <2>2, <3>2, <3>3, <4>1
    <3>4. CASE ~(i + amount < H - 1)
      <4>1. i + amount < H => i + amount = H - 1
        BY <3>1, <3>4
      <4> QED
        BY <2>2, <3>2, <3>4, <4>1
    <3> QED
      BY <3>3, <3>4
  <2> HIDE DEF e
  <2>5. \A i \in 0 .. Width - 1 : BitOf(GetResult, i) = BitOf(e, i)
    <3>1. Width \in 0 .. 64
      BY Widths
    <3> QED
      BY <2>1, <2>3, <3>1, BitOfTruncate
  <2>6. ASSUME NEW i \in 0 .. Width - 1
        PROVE  BitOf(GetResult, i) = bits[IF i < H THEN i ELSE H - 1]
    <3>1. \A j \in 0 .. H - 1 :
            bits[j] = IF j + amount < H THEN BitOf(A, j + amount) ELSE BitOf(A, H - 1)
      BY DEF ShiftedRight, Sign
    <3> HIDE DEF bits
    <3>2. BitOf(GetResult, i) =
            IF i + amount < H THEN BitOf(A, i + amount) ELSE BitOf(A, H - 1)
      BY <2>4, <2>5
    <3>3. CASE i < H
      <4>1. i \in 0 .. H - 1
        BY <1>2, <3>3
      <4> QED
        BY <3>1, <3>2, <3>3, <4>1
    <3>4. CASE ~(i < H)
      <4>1. ~(i + amount < H) /\ H - 1 \in 0 .. H - 1
        BY <1>2, <3>4
      <4>2. (H - 1) + amount < H => (H - 1) + amount = H - 1
        BY <1>2
      <4>3. bits[H - 1] = BitOf(A, H - 1)
        BY <3>1, <4>1, <4>2
      <4> QED
        BY <3>2, <3>4, <4>1, <4>3
    <3> QED
      BY <3>3, <3>4
  <2>7. HasBits(GetResult, SignExtendedHalf(bits))
    <3> HIDE DEF bits
    <3> QED
      BY <2>6 DEF HasBits, SignExtendedHalf
  <2>8. GetResult \in Words
    BY <2>1, <2>3, TruncateType
  <2> QED
    BY <1>7, <2>7, <2>8 DEF ComputesReference, IsReference, amount
<1> QED
  BY <1>5, <1>6, <1>7

----------------------------------------------------------------------------
(* The ALU.                                                                  *)

(* Whatever the operands and the operation are set to, and in whatever order, *)
(* the ALU returns a word that is what the instruction set says of it.        *)
THEOREM AluComputesReference == Spec => []ComputesReference
<1> DEFINE IInv == Operands /\ op \in ALUOp
<1>1. Init => IInv
  <2>1. 0 \in Words
    BY Powers DEF Words
  <2> QED
    BY <2>1 DEF Init, Operands, ALUOp
<1>2. IInv /\ [Next]_vars => IInv'
  <2> SUFFICES ASSUME IInv, [Next]_vars PROVE IInv'
    OBVIOUS
  <2>1. ASSUME NEW a \in OperandsA, SetA(a) PROVE IInv'
    BY <2>1, OperandsAssumption DEF SetA, Operands
  <2>2. ASSUME NEW b \in OperandsB, SetB(b) PROVE IInv'
    BY <2>2, OperandsAssumption DEF SetB, Operands
  <2>3. ASSUME NEW operation \in ALUOp, SetOp(operation) PROVE IInv'
    BY <2>3 DEF SetOp, Operands
  <2>4. CASE UNCHANGED vars
    BY <2>4 DEF vars, Operands
  <2> QED
    BY <2>1, <2>2, <2>3, <2>4 DEF Next
<1>3. IInv => ComputesReference
  <2> SUFFICES ASSUME IInv PROVE ComputesReference
    OBVIOUS
  <2>1. \/ op = "NOP" \/ op \in {"ADD", "SUB"} \/ op \in {"XOR", "OR", "AND"}
        \/ op \in {"SLL", "SRL", "SRA"} \/ op \in {"SLT", "SLTU"}
        \/ op \in {"ADDW", "SUBW"} \/ op \in {"SLLW", "SRLW", "SRAW"}
    BY DEF ALUOp
  <2> QED
    BY <2>1, NoOperation, Sums, BitwiseOperations, Shifts, Comparisons, WordSums, WordShifts
<1> QED
  BY <1>1, <1>2, <1>3, PTL DEF Spec
============================================================================
