-------------------------------- MODULE MCAlu --------------------------------
(***************************************************************************)
(* Registers of eight bits, words of four.  A takes every value; B every     *)
(* shift amount, with and without bits above it, and the ends of both       *)
(* ranges.                                                                  *)
(***************************************************************************)
EXTENDS AluReference

MCOperandsA == Words
MCOperandsB == 0 .. 17 \cup {64, 100, 119, 120, 127, 128, 129, 136, 143, 200, 247, 248, 254, 255}
==============================================================================
