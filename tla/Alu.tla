-------------------------------- MODULE Alu --------------------------------
(***************************************************************************)
(* ALU::getResult (alu.cc), scaled: a register has Width bits (64 in        *)
(* arch.h), the word operations work on the lower half (32 bits), and a     *)
(* shift amount is the low log2(Width) bits of B.                           *)
(***************************************************************************)
EXTENDS Binary

CONSTANT Width   \* bits of a register, a power of two and at least 4

ASSUME WidthAssumption == Width \in {4, 8, 16, 32, 64}

HalfWidth == Width \div 2

(* static_cast to an unsigned and to a signed integer of some bits. *)
Truncate(v, bits) == v % TwoTo[bits]
AsSigned(v, bits) ==
  LET u == Truncate(v, bits) IN IF u < TwoTo[bits - 1] THEN u ELSE u - TwoTo[bits]

(* Mutant: the shift amount of RV32 for every operation. *)
ShiftAmountNarrow(b, bits) == b % HalfWidth

(* B & 0x3F, and B & 0x1F for the word operations. *)
ShiftAmount(b, bits) == b % bits

(* ^, | and &: a bit of the result is set for so many set bits of a and b. *)
BitByBit(a, b, counts) ==
  FromBits([i \in 0 .. Width - 1 |-> IF BitOf(a, i) + BitOf(b, i) \in counts THEN 1 ELSE 0],
           Width)

(* >> of a signed value rounds towards minus infinity, as \div does. *)
Result(op, a, b) ==
  LET full == ShiftAmount(b, Width)
      half == ShiftAmount(b, HalfWidth)
      exact ==
        CASE op = "NOP"  -> 0
          [] op = "ADD"  -> a + b
          [] op = "SUB"  -> a - b
          [] op = "SLL"  -> a * TwoTo[full]
          [] op = "SLT"  -> IF AsSigned(a, Width) < AsSigned(b, Width) THEN 1 ELSE 0
          [] op = "SLTU" -> IF a < b THEN 1 ELSE 0
          [] op = "XOR"  -> BitByBit(a, b, {1})
          [] op = "SRL"  -> a \div TwoTo[full]
          [] op = "SRA"  -> AsSigned(a, Width) \div TwoTo[full]
          [] op = "OR"   -> BitByBit(a, b, {1, 2})
          [] op = "AND"  -> BitByBit(a, b, {2})
          [] op = "ADDW" -> AsSigned(AsSigned(a, HalfWidth) + AsSigned(b, HalfWidth), HalfWidth)
          [] op = "SUBW" -> AsSigned(AsSigned(a, HalfWidth) - AsSigned(b, HalfWidth), HalfWidth)
          [] op = "SLLW" -> AsSigned(Truncate(a, HalfWidth) * TwoTo[half], HalfWidth)
          [] op = "SRLW" -> AsSigned(Truncate(a, HalfWidth) \div TwoTo[half], HalfWidth)
          [] op = "SRAW" -> AsSigned(a, HalfWidth) \div TwoTo[half]
  IN  Truncate(exact, Width)
============================================================================
