--------------------------- MODULE MCFramebuffer ---------------------------
(***************************************************************************)
(* The registers at 0, the palette of two colors behind them, the memory of *)
(* the window at 32: two bytes, or four with two bytes for a pixel.  The    *)
(* program accesses every register, a color, bytes alone and across the end *)
(* of the smaller memory, and what the device refuses.                      *)
(***************************************************************************)
EXTENDS Framebuffer

MCControlValues == [enable |-> {0, 1, 2}, mode |-> {0, 1, 3}, resx |-> {0, 2}, resy |-> {0, 1}]

MCAccesses ==
  {<<0, 4>>, <<4, 4>>, <<8, 4>>, <<12, 4>>, <<20, 4>>,
   <<32, 1>>, <<33, 2>>, <<32, 4>>, <<32, 8>>, <<2, 4>>, <<24, 1>>}
=============================================================================
