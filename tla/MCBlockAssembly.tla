-------------------------- MODULE MCBlockAssembly --------------------------
(* Instance of BlockAssembly for TLC: the last call carries a transaction  *)
(* three times as long as the others.                                      *)
EXTENDS BlockAssembly

CONSTANTS c1, c2, c3, c4

MCCalls == {c1, c2, c3, c4}
MCSize == [c \in MCCalls |-> IF c = c4 THEN 3 ELSE 1]
=============================================================================
