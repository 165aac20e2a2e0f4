------------------------------ MODULE TrigReduce ------------------------------
(***************************************************************************)
(* ffts_cexp_32f and ffts_cexp_32f64f (ffts_trig.c): cosine and sine of    *)
(* the angle num / den of a full circle.                                   *)
(*                                                                         *)
(* The angle is reduced to an octant, then to an entry of a table of       *)
(* angles pi * i / 256 and a remainder of at most half a step, all in      *)
(* integers; the floating point that follows is right for the angle it is  *)
(* given.  So what matters is that the integers and flags at the end stand *)
(* for the angle of the call.  Sizes stay far below the width of size_t:   *)
(* no intermediate result exceeds 2 * den.                                 *)
(***************************************************************************)
EXTENDS Integers

CONSTANTS
    Nums,   \* the numerators of the calls
    Dens    \* the denominators

ASSUME NumsAssumption == Nums \subseteq Nat
ASSUME DensAssumption == Dens \subseteq Nat \ {0}

VARIABLES
    pc,         \* reduce, half, quarter, octant, divide, nearest, done
    num, den,   \* arguments of the call
    n,          \* what is left of the numerator
    i,          \* index of the table entry
    j,          \* bit of i that is decided next
    sinSign, cosSign, swap,     \* where the octant lies
    sign        \* on which side of the table entry the angle lies

flags == <<sinSign, cosSign, swap, sign>>
vars == <<pc, num, den, n, i, j, flags>>

TypeOK ==
    /\ pc \in {"reduce", "half", "quarter", "octant", "divide", "nearest", "done"}
    /\ num \in Nat /\ den \in Nat \ {0}
    /\ n \in Nat /\ i \in Nat
    /\ j \in {0, 1, 2, 4, 8, 16, 32}
    /\ sinSign \in {1, -1} /\ cosSign \in {1, -1} /\ sign \in {1, -1}
    /\ swap \in BOOLEAN
    /\ pc # "reduce" => n <= den

Init ==
    /\ pc = "reduce"
    /\ num \in Nums /\ den \in Dens
    /\ n = num
    /\ i = 0 /\ j = 32
    /\ sinSign = 1 /\ cosSign = 1 /\ swap = FALSE /\ sign = 1

\* The next call.
Call(a, b) ==
    /\ pc = "done"
    /\ pc' = "reduce"
    /\ num' = a /\ den' = b
    /\ n' = a
    /\ i' = 0 /\ j' = 32
    /\ UNCHANGED flags

\* n %= d; whole turns do not matter.
Reduce ==
    /\ pc = "reduce"
    /\ n' = IF n >= den THEN n % den ELSE n
    /\ pc' = "half"
    /\ UNCHANGED <<num, den, i, j, flags>>

\* The lower half of the circle is the mirror image of the upper one.
Half ==
    /\ pc = "half"
    /\ IF n > den - n
       THEN sinSign' = -1 /\ n' = den - n
       ELSE sinSign' = 1 /\ n' = n
    /\ pc' = "quarter"
    /\ UNCHANGED <<num, den, i, j, cosSign, swap, sign>>

\* The sines and cosines of the second quarter are not exchanged.
Quarter_noSwap ==
    /\ pc = "quarter"
    /\ IF 2 * n > den - 2 * n
       THEN cosSign' = -1 /\ n' = 4 * n - den
       ELSE cosSign' = 1 /\ n' = 4 * n
    /\ swap' = FALSE
    /\ pc' = "octant"
    /\ UNCHANGED <<num, den, i, j, sinSign, sign>>

\* The second quarter is the first one, a quarter on.
Quarter ==
    /\ pc = "quarter"
    /\ IF 2 * n > den - 2 * n
       THEN cosSign' = -1 /\ swap' = TRUE /\ n' = 4 * n - den
       ELSE cosSign' = 1 /\ swap' = FALSE /\ n' = 4 * n
    /\ pc' = "octant"
    /\ UNCHANGED <<num, den, i, j, sinSign, sign>>

\* The second octant is the mirror image of the first one.
Octant ==
    /\ pc = "octant"
    /\ IF n > den - n
       THEN swap' = ~swap /\ n' = 2 * (den - n)
       ELSE swap' = swap /\ n' = 2 * n
    /\ pc' = "divide"
    /\ UNCHANGED <<num, den, i, j, sinSign, cosSign, sign>>

\* One step of the binary long division.
Divide ==
    /\ pc = "divide"
    /\ j # 0 /\ n # 0
    /\ IF n > den - n
       THEN n' = 2 * n - den /\ i' = i + j
       ELSE n' = 2 * n /\ i' = i
    /\ j' = j \div 2
    /\ UNCHANGED <<pc, num, den, flags>>

DivideEnds ==
    /\ pc = "divide"
    /\ j = 0 \/ n = 0
    /\ pc' = "nearest"
    /\ UNCHANGED <<num, den, n, i, j, flags>>

\* The entry below is taken, however far it is.
Nearest_below ==
    /\ pc = "nearest"
    /\ sign' = 1
    /\ pc' = "done"
    /\ UNCHANGED <<num, den, n, i, j, sinSign, cosSign, swap>>

\* The entry below or the one above, whichever is nearer.
Nearest ==
    /\ pc = "nearest"
    /\ IF n > den - n
       THEN i' = i + 1 /\ n' = den - n /\ sign' = -1
       ELSE i' = i /\ n' = n /\ sign' = 1
    /\ pc' = "done"
    /\ UNCHANGED <<num, den, j, sinSign, cosSign, swap>>

Compute == Reduce \/ Half \/ Quarter \/ Octant \/ Divide \/ DivideEnds \/ Nearest

Next ==
    \/ Compute
    \/ \E a \in Nums, b \in Dens : Call(a, b)

Spec == Init /\ [][Next]_vars

-----------------------------------------------------------------------------
(* Properties.  Angles are counted in 1 / (512 * den) of a full circle.    *)

\* The angle that the sum or difference of the table's angle and the remainder makes.
InOctant == i * den + sign * n

\* The angle of the result, mirrored as swap and the two signs mirror cosine and sine.
Swapped == IF swap THEN 128 * den - InOctant ELSE InOctant
Turned == IF cosSign = -1 THEN 256 * den - Swapped ELSE Swapped
Result == IF sinSign = -1 THEN 512 * den - Turned ELSE Turned

\* The reduction loses nothing: after three mirrorings, six steps of division and the
\* choice between two entries, the result's angle is the angle of the call, exactly.
AngleExact == pc = "done" => Result = 512 * (num % den)

\* The entry is one of the table's 65, and the remainder is within half a step, for
\* which the polynomials are made ("0 <= x <= 1/512", ffts_trig.c:403).
InTable == pc = "done" => i \in 0..64 /\ 2 * n <= den
==============================================================================
