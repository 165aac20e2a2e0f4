------------------------------- MODULE ChirpPlan -------------------------------
(***************************************************************************)
(* A plan for a size that is no power of two, from single angles to its    *)
(* executions.  ffts_cexp_32f64f (TrigReduce) answers for one angle at a   *)
(* time; ffts_generate_cosine_sine_32f (CosSin) asks it for few of them    *)
(* and makes a table of 2 * N angles; ffts_chirp_z_init and the transform  *)
(* function (ChirpZ) work with what is in that table.                      *)
(*                                                                         *)
(* A behaviour is one call of ffts_cexp_32f by a client, or one table and  *)
(* the plan that needs it; a table of odd size is only made.               *)
(***************************************************************************)
EXTENDS TrigReduce

CONSTANT TableSizes     \* the tables that are made

ASSUME TableSizesAssumption == TableSizes \subseteq Dens /\ 1 \in Nums

VARIABLES
    size, loop, ti, tj, tk, len, mem, touched,      \* of CosSin
    values,                                         \* the angles in its z and x
    N, M, stage, at, squares, A, kernel, t1         \* of ChirpZ

reduceVars == vars
tableVars == <<size, loop, ti, tj, tk, len, mem, touched>>
chirpVars == <<N, M, stage, at, squares, A, kernel, t1>>
planVars == <<reduceVars, tableVars, values, chirpVars>>

Table == INSTANCE CosSin WITH pc <- loop, i <- ti, j <- tj, k <- tk

Chirp == INSTANCE ChirpZ WITH
    pc <- stage, i <- at, j <- squares,
    lut <- [c \in 0..(size - 1) |-> Table!FloatAt(c)]

\* The first angle of a table is its smallest one.
PlanInit ==
    /\ Init
    /\ Chirp!Init
    /\ values = {}
    /\ \/ Table!NoTable
       \/ Table!Begin(den) /\ den \in TableSizes /\ num = 1

\* The angle that an answer is the cosine and sine of.
Answer == IF Result % 512 = 0 THEN Result \div 512 ELSE 0

Answered == IF pc' = "done" THEN values' = values \cup {Answer'} ELSE UNCHANGED values

Reduction ==
    /\ Compute
    /\ Answered
    /\ UNCHANGED <<tableVars, chirpVars>>

Ask ==
    /\ pc = "done"
    /\ \E a \in Table!Wanted \ values :
        /\ \A b \in Table!Wanted \ values : a <= b
        /\ Call(a, size)
    /\ UNCHANGED <<tableVars, values, chirpVars>>

MakeTable ==
    /\ pc = "done"
    /\ Table!Wanted \subseteq values
    /\ Table!Next
    /\ values' = IF Table!Wanted = {} THEN values ELSE {}
    /\ UNCHANGED <<reduceVars, chirpVars>>

BeginPlan ==
    /\ loop = "done"
    /\ size % 2 = 0
    /\ Chirp!Begin(size \div 2)
    /\ UNCHANGED <<reduceVars, tableVars, values>>

WorkOnPlan == Chirp!Next /\ UNCHANGED <<reduceVars, tableVars, values>>

PlanNext == Reduction \/ Ask \/ MakeTable \/ BeginPlan \/ WorkOnPlan

\* All of this is one thread's sequential code.
PlanSpec == PlanInit /\ [][PlanNext]_planVars /\ WF_planVars(PlanNext)

-----------------------------------------------------------------------------
(* Properties.                                                             *)

\* No step of a table leaves it, although doubles take two of its cells each
\* (ffts_trig.c:426-719).
TableInBounds == Table!InTable

\* In the end every cell of a table holds the cosine and sine of its own angle, found
\* by additions from the few that were asked for (ffts_trig.c:426-719).
TableComplete == Table!TableComplete

\* Every table is finished, and so is every plan and each of its executions: the
\* loops that double a distance or count what lacks reach their ends
\* (ffts_trig.c:483, 507, 572, 626; ffts_chirp_z.c:112-225).
PlansGetReady ==
    size > 0 ~> loop = "done" /\ (size % 2 = 0 => stage = "ready")

\* The circular convolution is a Fourier transform of N points (ffts_chirp_z.c:122-225),
\* with the angles that were found in the table.
Convolves == Chirp!Convolves

\* The buffer that init and executions share leaks nothing into a transform
\* (ffts_chirp_z.c:122-162).
NoOldValues == Chirp!NoOldValues
==============================================================================
