----------------------------- MODULE MCMachineCode -----------------------------
(* MachineCode for TLC, with the list of calls that SplitTree makes. *)
EXTENDS MachineCode

\* Forward and backward.
MCSigns == {-1, 1}

Tree == INSTANCE SplitTree

MCCalls(s) == Tree!Elaborate[s]
MCCount(s) == Tree!TreeCount[s]

\* Where ffts_generate_luts puts the twiddle factors of level i: after 8 complex
\* numbers for level 0 and 12 * 2^j for each level j between.
MCWsIs(i) == IF i <= 0 THEN 0 ELSE 8 + 12 * (2^i - 2)
==============================================================================
