---------------------------- MODULE MCBlockQueue ----------------------------
(* Instance of BlockQueue for TLC: three blocks, more than fit on a page,  *)
(* and a second call for the first of them.                                *)
EXTENDS BlockQueue

CONSTANTS i1, i2, i3, i4, b1, b2, b3

MCInserts == {i1, i2, i3, i4}
MCBlocks == {b1, b2, b3}
MCBlockOf ==
  [i \in MCInserts |-> CASE i = i3 -> b2 [] i = i4 -> b3 [] OTHER -> b1]
=============================================================================
