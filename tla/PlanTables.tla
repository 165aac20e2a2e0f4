------------------------------ MODULE PlanTables ------------------------------
(***************************************************************************)
(* The generated tables and the plans that use them: a quarter of the      *)
(* circle (TrigTable) becomes the twiddle factors of a plan for a power of *)
(* two (Luts), a half of it the tables A and B of a plan for real input    *)
(* (RealPlan).                                                             *)
(***************************************************************************)
EXTENDS RealPlan

CONSTANT LeafLog     \* log2(leaf_N)

VARIABLES lutBuild, s, level, points, stride, first, begin, ws, wsIs    \* of Luts

lutVars == <<lutBuild, s, level, points, stride, first, begin, ws, wsIs>>

Twiddles == INSTANCE Luts WITH
    build <- lutBuild, tmp <- table, i <- level, n <- points, j <- first, w <- begin

InitTables == Init1d /\ Twiddles!Init

RealPlans == Next1d /\ UNCHANGED lutVars

\* ffts_generate_luts, when the generator has filled its scratch table.
BeginTwiddles(b) ==
    /\ kind = "pow2" /\ pc = "done"
    /\ \E size \in 1..(log + 3) : Twiddles!Begin(size, b)
    /\ UNCHANGED <<vars, realVars>>

PickTwiddles == Twiddles!Next /\ UNCHANGED <<vars, realVars>>

NextTables ==
    \/ RealPlans
    \/ \E b \in Twiddles!LutBuilds : BeginTwiddles(b)
    \/ PickTwiddles

SpecTables == InitTables /\ [][NextTables]_<<vars, realVars, lutVars>>

-----------------------------------------------------------------------------
(* Properties.                                                             *)

\* The twiddle factors stay within the memory allocated for them, and a level begins
\* where the ones before it have ended (ffts.c:254-459).
WritesInWs == Twiddles!WritesInWs

\* The passes find the twiddle factors of their own sizes, picked from a table that
\* is just long enough (ffts.c:254-459).
TwiddlesFit == Twiddles!TwiddlesFit
==============================================================================
