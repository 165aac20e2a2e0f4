------------------------------- MODULE MCEncoders -------------------------------
(***************************************************************************)
(* Registers with every low value that the operand bytes treat as special, *)
(* with and without the high bit; displacements of no byte, one byte, with *)
(* both signs, and four.                                                   *)
(***************************************************************************)
EXTENDS Encoders

MCRegisters == 0..15
MCFields == {3, 4, 12}
MCDisplacements == {0, -8, 100000}
MCImmediates == {-5, 0, 100, 70000}
MCDistances == {-1000, -127, -126, 129, 130, 70000}
MCMasks == SUBSET {0, 3, 4, 5, 7}
==============================================================================
