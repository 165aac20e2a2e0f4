------------------------------- MODULE TrigTable -------------------------------
(***************************************************************************)
(* Buneman's generator of cosines and sines of successive angles           *)
(* (ffts_trig.c): ffts_generate_cosine_sine_pow2_32f and _64f, which fill  *)
(* a quarter of the circle, and ffts_generate_table_1d_real_32f, which     *)
(* fills half of it into the tables A and B of a real plan.                *)
(*                                                                         *)
(* A value is named by its angle, counted in steps of the table that is    *)
(* being filled.  The generator keeps one angle for each power of two in   *)
(* w; whenever it has stored w[l], it replaces it by the mean of two other *)
(* entries, which takes one multiplication by a tabulated half secant and  *)
(* is right only when the two differ by what that half secant is made for. *)
(***************************************************************************)
EXTENDS Integers

CONSTANTS
    Logs,   \* logarithms of the number of slots that are filled
    Kinds   \* subset of {"pow2", "real"}

ASSUME LogsAssumption == Logs \subseteq 1..28
ASSUME KindsAssumption == Kinds \subseteq {"pow2", "real"}

\* An angle nobody knows: not written, read outside a table, or a wrong mean.
Unknown == -1

\* Entries 0..LastAngle of cos_sin_pi_table are the angles pi * 2^(p - 33), entries
\* 0..LastSecant of half_secant are made for the same angles.
LastAngle == 32
LastSecant == 30

VARIABLES
    kind,       \* which generator
    log,        \* logarithm of the number of slots
    pc,         \* load, fill, middle, done
    i,          \* loop counter
    w,          \* the angles kept
    table       \* what the slots hold

vars == <<kind, log, pc, i, w, table>>

Top == 2^log

\* Where in cos_sin_pi_table the first step of this table is found.
Start == IF kind = "pow2" THEN 32 - log ELSE 33 - log

\* The initialization loop goes up to log_2, which is the logarithm of the slots in
\* one generator and of the points, twice as many, in the other one.
LastLoaded == IF kind = "pow2" THEN log ELSE log + 1

Init ==
    /\ kind \in Kinds
    /\ log \in Logs
    /\ pc = IF log = 1 THEN "middle" ELSE "load"
    /\ i = 1
    /\ w = [l \in 0..31 |-> Unknown]
    /\ table = [k \in 0..(2^log - 1) |-> IF k = 0 THEN 0 ELSE Unknown]

\* w is initialized from the lookup table.  For a real plan the last entry comes from
\* behind its end: whatever is there.
Load ==
    /\ pc = "load"
    /\ w' = [l \in 0..31 |->
                IF l <= LastLoaded /\ Start + l <= LastAngle THEN 2^l ELSE Unknown]
    /\ pc' = "fill"
    /\ UNCHANGED <<kind, log, i, table>>

\* ffts_ctzl
TrailingZeros(x) == CHOOSE l \in 0..31 : x % 2^l = 0 /\ (x \div 2^l) % 2 = 1

\* The bit above the lowest one of i is not skipped.
Partner_near(l) ==
    l + 1 + CHOOSE t \in 0..31 : /\ (i \div 2^(l + 1 + t)) % 2 = 0
                                 /\ \A u \in 0..(t - 1) : (i \div 2^(l + 1 + u)) % 2 = 1

\* offset: two above the lowest one bit of i, the first bit that is zero.
Partner(l) ==
    l + 2 + CHOOSE t \in 0..31 : /\ (i \div 2^(l + 2 + t)) % 2 = 0
                                 /\ \A u \in 0..(t - 1) : (i \div 2^(l + 2 + u)) % 2 = 1

\* h[l] * (a + b)
Mean(l, a, b) ==
    IF /\ Start + l <= LastSecant
       /\ a # Unknown /\ b # Unknown
       /\ a - b \in {2^(l + 1), -(2^(l + 1))}
    THEN (a + b) \div 2
    ELSE Unknown

\* The mirror image of an angle: cosine and sine, or the sign of the cosine, swapped.
Mirror(a) == IF a = Unknown THEN Unknown ELSE Top - a

Fill ==
    LET l == TrailingZeros(i)
    IN /\ pc = "fill"
       /\ i < Top \div 2
       /\ table' = [table EXCEPT ![i] = w[l], ![Top - i] = Mirror(w[l])]
       /\ w' = [w EXCEPT ![l] = Mean(l, w[l + 1], w[Partner(l)])]
       /\ i' = i + 1
       /\ UNCHANGED <<kind, log, pc>>

FillEnds ==
    /\ pc = "fill"
    /\ i = Top \div 2
    /\ pc' = "middle"
    /\ UNCHANGED <<kind, log, i, w, table>>

\* The angle in the middle is a constant.
Middle ==
    /\ pc = "middle"
    /\ table' = [table EXCEPT ![i] = Top \div 2]
    /\ pc' = "done"
    /\ UNCHANGED <<kind, log, i, w>>

Next == Load \/ Fill \/ FillEnds \/ Middle

Spec == Init /\ [][Next]_vars

-----------------------------------------------------------------------------
(* Properties.                                                             *)

\* Every slot of the table gets its own angle, although the two generators mix
\* angles whose distance the half secants must fit, some entries of w are never
\* initialized and the last half secants are zero.
TableComplete == pc = "done" => \A k \in 0..(Top - 1) : table[k] = k
==============================================================================
