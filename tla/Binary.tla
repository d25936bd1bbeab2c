------------------------------- MODULE Binary -------------------------------
(***************************************************************************)
(* Numbers and their bits: what shifting by a number of places and masking  *)
(* a number of bits come to (alu.cc, inst-decoder.cc).  Bits are counted    *)
(* from the lowest, and a negative number has them as in two's complement.  *)
(***************************************************************************)
EXTENDS Integers

(* The powers of two, up to the number of values of a register. *)
TwoTo[n \in 0 .. 64] == IF n = 0 THEN 1 ELSE 2 * TwoTo[n - 1]

BitOf(value, k) == (value \div TwoTo[k]) % 2

(* The number that has some bits. *)
FromBits(bits, width) ==
  LET sum[k \in 0 .. width] == IF k = 0 THEN 0 ELSE sum[k - 1] + bits[k - 1] * TwoTo[k - 1]
  IN  sum[width]
============================================================================
