------------------------------- MODULE RealPlan -------------------------------
(***************************************************************************)
(* Plans for real input (ffts_real.c), of 4 points and more: the tables A  *)
(* and B that TrigTable generates, and the transform functions that put a  *)
(* real transform of N points together from a complex one of N / 2 points. *)
(*                                                                         *)
(* Four builds do it: a loop of pairs, and three of four floats a step, in *)
(* which a register loaded for the mirrored half of one step serves the    *)
(* next one, and signs are changed in lanes, by masks or in the table.     *)
(*                                                                         *)
(* A float is known exactly: as the sum of the powers of w = exp(-2*pi*i/N)*)
(* whose exponents are in a sequence.  N is a power of two, so two sums    *)
(* are equal when their normal forms are.  What a transform does to one    *)
(* point at a time it does, being linear, to all.                          *)
(***************************************************************************)
EXTENDS TrigTable, SequencesExt

CONSTANTS
    Builds,     \* subset of {"scalar", "sse", "sse3", "neon"}
    MaxPoints   \* plans with more points are only made

ASSUME BuildsAssumption == Builds \subseteq {"scalar", "sse", "sse3", "neon"}
ASSUME MaxPointsAssumption == MaxPoints \in Nat

VARIABLES
    stage,      \* plan, loop, done
    build,
    dir,        \* forward or backward
    point,      \* the one float of the input that is not zero
    at,         \* 2 * i or i: the float the loop is at
    buf,        \* p->buf
    out,        \* output
    kept        \* the register kept from the step before

realVars == <<stage, build, dir, point, at, buf, out, kept>>

N == 2 * Top

-----------------------------------------------------------------------------
(* Numbers.                                                                *)

Zero == <<>>
One == <<0, 0>>

Times(a, b) ==
    [t \in 1..(Len(a) * Len(b)) |-> (a[((t - 1) % Len(a)) + 1] + b[((t - 1) \div Len(a)) + 1]) % N]

Turn(a, e) == Times(a, <<e>>)
Negative(a) == Turn(a, N \div 2)
Conjugate(a) == [t \in DOMAIN a |-> (-a[t]) % N]

\* Twice the cosine and the sine of the angle 2 * pi * a / N.
Cosine(a) == <<a % N, (-a) % N>>
Sine(a) == <<((N \div 4) - a) % N, (((3 * N) \div 4) + a) % N>>

\* One half of w^e + w^-e is the real part of w^e; the imaginary part likewise.
Part(f, e) == IF f % 2 = 0 THEN Cosine(e) ELSE Sine(-e)

Normal(a) ==
    [e \in 0..((N \div 2) - 1) |->
        Cardinality({t \in DOMAIN a : a[t] = e})
            - Cardinality({t \in DOMAIN a : a[t] = e + (N \div 2)})]

\* What is in memory that nothing was stored in yet; no float of a transform.
Old == <<1>>

-----------------------------------------------------------------------------
(* The tables.                                                             *)

\* Signs that addsub does not change are changed in the table.
Invert == build = "sse3"

\* The floats of A and B (four times what they are for a forward plan, twice for a
\* backward one), from the angle of their slot.
A(f) ==
    LET a == table[f \div 2]
    IN IF f % 2 = 0 THEN One \o Negative(Sine(a))
       ELSE IF dir = "backward" /\ Invert THEN Cosine(a)
       ELSE Negative(Cosine(a))

B(f) ==
    LET a == table[f \div 2]
        t2 == One \o Sine(a)
    IN IF f % 2 = 1 THEN Cosine(a)
       ELSE IF dir = "forward" /\ Invert THEN Negative(t2)
       ELSE t2

-----------------------------------------------------------------------------
(* Registers of four floats.                                               *)

Lanes == 0..3
Load4(mem, f) == [l \in Lanes |-> mem[f + l]]
LoadA(f) == [l \in Lanes |-> A(f + l)]
LoadB(f) == [l \in Lanes |-> B(f + l)]

p ** q == [l \in Lanes |-> Times(p[l], q[l])]
p ++ q == [l \in Lanes |-> p[l] \o q[l]]

EvenLanes(q) == [l \in Lanes |-> q[l - (l % 2)]]
OddLanes(q) == [l \in Lanes |-> q[l - (l % 2) + 1]]
Swap(q) == [l \in Lanes |-> q[l + 1 - 2 * (l % 2)]]

\* The xor with a mask of sign bits.
NegateEven(q) == [l \in Lanes |-> IF l % 2 = 0 THEN Negative(q[l]) ELSE q[l]]
NegateOdd(q) == [l \in Lanes |-> IF l % 2 = 1 THEN Negative(q[l]) ELSE q[l]]
Negate(q) == NegateEven(NegateOdd(q))
AddSub(p, q) == p ++ NegateEven(q)

\* Real or imaginary parts (o) of the two mirrored numbers, each in two lanes.
Mirrored(lo, hi, o) == [l \in Lanes |-> IF l < 2 THEN lo[o] ELSE hi[o + 2]]

\* Four floats of the result, from four floats z, their mirrored real and imaginary
\* parts m0 and m1, and the tables a and b.
ForwardSse(z, m0, m1, a, b) ==
    (z ** EvenLanes(a)) ++ (Swap(z) ** NegateEven(OddLanes(a)))
        ++ (m0 ** b) ++ (m1 ** Swap(NegateEven(b)))

ForwardSse3(z, m0, m1, a, b) ==
    AddSub(z ** EvenLanes(a), Swap(z) ** OddLanes(a)) ++ AddSub(m1 ** Swap(b), m0 ** b)

ForwardNeon(z, m0, m1, a, b) ==
    (z ** EvenLanes(a)) ++ (m0 ** b)
        ++ NegateEven(Swap(OddLanes(a) ** z)) ++ NegateOdd(Swap(m1 ** b))

\* The signs of the forward transform, although the tables are not conjugated.
BackwardSse_asForward(z, m0, m1, a, b) == ForwardSse(z, m0, m1, a, b)

BackwardSse(z, m0, m1, a, b) ==
    (z ** EvenLanes(a)) ++ (Swap(z) ** NegateOdd(OddLanes(a)))
        ++ Negate(m1 ** Swap(b)) ++ (m0 ** NegateOdd(b))

BackwardSse3(z, m0, m1, a, b) ==
    AddSub(z ** EvenLanes(a), Swap(z) ** OddLanes(a))
        ++ Negate(AddSub(m1 ** Swap(b), m0 ** b))

BackwardNeon(z, m0, m1, a, b) ==
    (z ** EvenLanes(a)) ++ NegateOdd(m0 ** b)
        ++ NegateOdd(Swap(OddLanes(a) ** z)) ++ Negate(Swap(m1 ** b))

FourOf(z, m0, m1, a, b) ==
    LET forward == dir = "forward"
    IN CASE build = "sse"  /\ forward  -> ForwardSse(z, m0, m1, a, b)
         [] build = "sse3" /\ forward  -> ForwardSse3(z, m0, m1, a, b)
         [] build = "neon" /\ forward  -> ForwardNeon(z, m0, m1, a, b)
         [] build = "sse"  /\ ~forward -> BackwardSse(z, m0, m1, a, b)
         [] build = "sse3" /\ ~forward -> BackwardSse3(z, m0, m1, a, b)
         [] build = "neon" /\ ~forward -> BackwardNeon(z, m0, m1, a, b)

-----------------------------------------------------------------------------
(* Executions.                                                             *)

\* The N / 2 complex numbers that the floats of the input are, transformed.
HalfForward(f) ==
    [g \in 0..(N - 1) |->
        Part(g, 2 * (f \div 2) * (g \div 2) + IF f % 2 = 1 THEN (3 * N) \div 4 ELSE 0)]

HalfBackward(mem) ==
    LET number(k) == mem[2*k] \o Turn(mem[2*k + 1], (3 * N) \div 4)
        sum(j) == FlattenSeq([k \in 1..(N \div 2) |-> Turn(number(k - 1), -(2 * j * (k - 1)))])
    IN [g \in 0..(N - 1) |->
            LET s == sum(g \div 2)
            IN IF g % 2 = 0 THEN s \o Conjugate(s)
               ELSE Turn(s \o Negative(Conjugate(s)), N \div 4)]

\* The floats the user gives a backward transform: N / 2 + 1 complex numbers.
In(f) == [g \in 0..(N + 1) |-> IF g = f THEN <<0>> ELSE Zero]

\* The loop reads one number of pairs more than the complex transform gives it.
Wrapped_never(mem, b) == [f \in 0..(N + 1) |-> IF f < N THEN mem[f] ELSE Old]

\* The first pair is also the one behind the last; the builds that hold it in a
\* register do not store it.
Wrapped(mem, b) ==
    [f \in 0..(N + 1) |->
        IF f < N THEN mem[f] ELSE IF b \in {"sse", "sse3"} THEN Old ELSE mem[f - N]]

\* Forward: the first four of the buffer; backward: the last pair of the input.
FirstKept(mem, f) ==
    [l \in Lanes |-> IF l < 2 \/ f = 0 THEN mem[f + l] ELSE Zero]

Init1d ==
    /\ Init
    /\ stage = "plan"
    /\ build = "none" /\ dir = "none" /\ point = 0 /\ at = 0
    /\ buf = [f \in 0..(N + 1) |-> Old]
    /\ out = [f \in 0..(N + 1) |-> Old]
    /\ kept = [l \in Lanes |-> Old]

MakeTable == Next /\ UNCHANGED realVars

Start1d(b, d) ==
    /\ stage = "plan"
    /\ pc = "done" /\ kind = "real"
    /\ N <= MaxPoints
    /\ build' = b /\ dir' = d
    /\ at' = 0
    /\ stage' = "loop"
    /\ UNCHANGED out

\* ffts_execute_1d_real, up to its loop.
ExecuteReal(b, f) ==
    /\ Start1d(b, "forward")
    /\ point' = f
    /\ buf' = Wrapped(HalfForward(f), b)
    /\ kept' = FirstKept(buf', 0)
    /\ UNCHANGED vars

\* ffts_execute_1d_real_inv, up to its loop.  The first and the last number are real.
ExecuteRealInv(b, f) ==
    /\ Start1d(b, "backward")
    /\ f \notin {1, N + 1}
    /\ point' = f
    /\ kept' = FirstKept(In(f), N)
    /\ UNCHANGED <<buf, vars>>

\* From the buffer to the output, or from the input to the buffer.
Source == IF dir = "forward" THEN buf ELSE In(point)

Store(floats) ==
    LET written(mem) ==
            [f \in 0..(N + 1) |-> IF f - at \in DOMAIN floats THEN floats[f - at] ELSE mem[f]]
    IN IF dir = "forward"
       THEN out' = written(out) /\ UNCHANGED buf
       ELSE buf' = written(buf) /\ UNCHANGED out

\* One number z, its mirror image m, and what the tables have for it.
ForwardPair(z, m, a, b) ==
    <<Times(z[1], a[1]) \o Negative(Times(z[2], a[2])) \o Times(m[1], b[1]) \o Times(m[2], b[2]),
      Times(z[2], a[1]) \o Times(z[1], a[2]) \o Times(m[1], b[2]) \o Negative(Times(m[2], b[1]))>>

BackwardPair(z, m, a, b) ==
    <<Times(z[1], a[1]) \o Times(z[2], a[2]) \o Times(m[1], b[1]) \o Negative(Times(m[2], b[2])),
      Times(z[2], a[1]) \o Negative(Times(z[1], a[2]) \o Times(m[1], b[2]) \o Times(m[2], b[1]))>>

\* The loop without vector instructions.
TwoFloats ==
    LET pair(mem, f) == <<mem[f], mem[f + 1]>>
        a == <<A(at), A(at + 1)>>
        b == <<B(at), B(at + 1)>>
        z == pair(Source, at)
        m == pair(Source, N - at)
        result == IF dir = "forward" THEN ForwardPair(z, m, a, b) ELSE BackwardPair(z, m, a, b)
    IN /\ stage = "loop" /\ build = "scalar"
       /\ at < N
       /\ Store([l \in 0..1 |-> result[l + 1]])
       /\ at' = at + 2
       /\ UNCHANGED <<stage, build, dir, point, kept, vars>>

\* Four floats.  The steps of sixteen of two builds end at N, a power of two; up to
\* eight floats are done one by one, with the same registers.
FourFloats ==
    LET loaded == Load4(Source, N - at - 4)
        straddling == Load4(Source, N - at - 2)
        m(o) == IF build = "neon" THEN Mirrored([l \in 0..1 |-> straddling[l + 2]],
                                                [l \in 2..3 |-> straddling[l - 2]], o)
                ELSE Mirrored(kept, loaded, o)
    IN /\ stage = "loop" /\ build # "scalar"
       /\ at < N
       /\ Store(FourOf(Load4(Source, at), m(0), m(1), LoadA(at), LoadB(at)))
       /\ kept' = IF build = "neon" THEN kept ELSE loaded
       /\ at' = at + 4
       /\ UNCHANGED <<stage, build, dir, point, vars>>

\* Forward: the last number; backward: the complex transform of what the loop made.
Finish ==
    /\ stage = "loop"
    /\ at = N
    /\ stage' = "done"
    /\ LET made == HalfBackward(buf)
       IN out' = IF dir = "forward"
                 THEN [out EXCEPT ![N] = buf[0] \o Negative(buf[1]), ![N + 1] = Zero]
                 ELSE [f \in DOMAIN out |-> IF f < N THEN made[f] ELSE out[f]]
    /\ UNCHANGED <<build, dir, point, at, buf, kept, vars>>

Next1d ==
    \/ MakeTable
    \/ \E b \in Builds, f \in 0..(N - 1) : ExecuteReal(b, f)
    \/ \E b \in Builds, f \in 0..(N + 1) : ExecuteRealInv(b, f)
    \/ TwoFloats
    \/ FourFloats
    \/ Finish

Spec1d == Init1d /\ [][Next1d]_<<vars, realVars>>

-----------------------------------------------------------------------------
(* Properties.                                                             *)

Equal(a, b) == Normal(a) = Normal(b)
Fourfold == <<0, 0, 0, 0>>

\* A forward plan gives the first N / 2 + 1 numbers of the Fourier transform of its
\* real input ("The output of a real-to-complex transform is N/2+1 complex numbers",
\* ffts.h:84), whichever build combines the halves (ffts_real.c:83-341).
RealTransform ==
    stage = "done" /\ dir = "forward" =>
        \A f \in 0..(N + 1) :
            LET expected == Part(f, point * (f \div 2))
            IN Equal(out[f], IF f < N THEN Times(Fourfold, expected) ELSE expected)

\* A backward plan gives the real numbers whose transform has the given first
\* N / 2 + 1 numbers, N times (ffts_real.c:344-600): the numbers that are not given are
\* taken to be the conjugates of the given ones.
RealInverse ==
    stage = "done" /\ dir = "backward" =>
        LET k == point \div 2
            once == k \in {0, N \div 2}
            number(m) == (IF point % 2 = 1 THEN (3 * N) \div 4 ELSE 0) - m * k
        IN \A m \in 0..(N - 1) :
            Equal(out[m],
                  Times(Fourfold, IF once THEN <<number(m) % N>> ELSE Cosine(number(m))))
==============================================================================
