---------------------------- MODULE AluReference ----------------------------
(***************************************************************************)
(* The ALU as a component (alu.h): the execute stage sets the operation and *)
(* the operands one by one and asks for the result, which is compared with  *)
(* what the instruction set says of it bit by bit.                          *)
(***************************************************************************)
EXTENDS Alu, ControlUnit

CONSTANTS OperandsA, OperandsB   \* values the registers hold

Words == 0 .. TwoTo[Width] - 1

ASSUME OperandsAssumption == OperandsA \subseteq Words /\ OperandsB \subseteq Words

VARIABLES A, B, op   \* of ALU

vars == <<A, B, op>>

Init == A = 0 /\ B = 0 /\ op = "NOP"

SetA(a) == A' = a /\ UNCHANGED <<B, op>>

SetB(b) == B' = b /\ UNCHANGED <<A, op>>

SetOp(operation) == op' = operation /\ UNCHANGED <<A, B>>

Next ==
  \/ \E a \in OperandsA : SetA(a)
  \/ \E b \in OperandsB : SetB(b)
  \/ \E operation \in ALUOp : SetOp(operation)

GetResult == Result(op, A, B)

Spec == Init /\ [][Next]_vars

----------------------------------------------------------------------------
(* The reference: bit i of the result from the bits of the operands.        *)
HasBits(r, bits) == \A i \in 0 .. Width - 1 : BitOf(r, i) = bits[i]

SetBits(v) == {i \in 0 .. Width - 1 : BitOf(v, i) = 1}

(* A number of bits of A, shifted; the last is what fills from above. *)
ShiftedLeft(bits, amount) ==
  [i \in 0 .. bits - 1 |-> IF i >= amount THEN BitOf(A, i - amount) ELSE 0]
ShiftedRight(bits, amount, fill) ==
  [i \in 0 .. bits - 1 |-> IF i + amount < bits THEN BitOf(A, i + amount) ELSE fill]

(* The lower half, with its sign in all of the upper half. *)
SignExtendedHalf(bits) ==
  [i \in 0 .. Width - 1 |-> bits[IF i < HalfWidth THEN i ELSE HalfWidth - 1]]

HalfBits(v) == [i \in 0 .. HalfWidth - 1 |-> BitOf(v, i)]

(* The comparisons look at the highest bit in which the operands differ; it  *)
(* counts the other way round when it is the sign.                           *)
Differing == {i \in 0 .. Width - 1 : BitOf(A, i) # BitOf(B, i)}
Below(signed) ==
  \E i \in Differing :
    /\ \A j \in Differing : j <= i
    /\ BitOf(A, i) = IF signed /\ i = Width - 1 THEN 1 ELSE 0

Amount == B % Width
HalfAmount == B % HalfWidth

Sign(bits) == BitOf(A, bits - 1)

IsReference(r) ==
  CASE op = "NOP"  -> r = 0
    [] op = "ADD"  -> (r - A) % TwoTo[Width] = B
    [] op = "SUB"  -> (r + B) % TwoTo[Width] = A
    [] op = "SLL"  -> HasBits(r, ShiftedLeft(Width, Amount))
    [] op = "SRL"  -> HasBits(r, ShiftedRight(Width, Amount, 0))
    [] op = "SRA"  -> HasBits(r, ShiftedRight(Width, Amount, Sign(Width)))
    [] op = "SLT"  -> r = (IF Below(TRUE) THEN 1 ELSE 0)
    [] op = "SLTU" -> r = (IF Below(FALSE) THEN 1 ELSE 0)
    [] op = "XOR"  -> SetBits(r) = (SetBits(A) \cup SetBits(B)) \ (SetBits(A) \cap SetBits(B))
    [] op = "OR"   -> SetBits(r) = SetBits(A) \cup SetBits(B)
    [] op = "AND"  -> SetBits(r) = SetBits(A) \cap SetBits(B)
    [] op = "ADDW" -> HasBits(r, SignExtendedHalf(HalfBits(A + B)))
    [] op = "SUBW" -> HasBits(r, SignExtendedHalf(HalfBits(A - B)))
    [] op = "SLLW" -> HasBits(r, SignExtendedHalf(ShiftedLeft(HalfWidth, HalfAmount)))
    [] op = "SRLW" -> HasBits(r, SignExtendedHalf(ShiftedRight(HalfWidth, HalfAmount, 0)))
    [] op = "SRAW" -> HasBits(r, SignExtendedHalf(ShiftedRight(HalfWidth, HalfAmount,
                                                               Sign(HalfWidth))))

(* Every operation gives what the instruction set defines: the shift         *)
(* amounts, signs, carries and the extension of the word operations are      *)
(* right also where the code casts between widths and signs.                 *)
ComputesReference == GetResult \in Words /\ IsReference(GetResult)
============================================================================
