--------------------------- MODULE StaticTransform ---------------------------
(***************************************************************************)
(* The transforms of 2^s points that are compiled into the library         *)
(* (ffts_static.c, macros.h) with the index tables of patterns.h: the      *)
(* small ones of 2 to 16 points, and for 32 points and more a first pass   *)
(* of leaves of eight points, followed by the recursion of the split radix *)
(* transform.                                                              *)
(*                                                                         *)
(* A transform is linear, so a value is kept as the set of its terms: the  *)
(* term <<n, e>> is input n times the root of unity exp(-2 pi i / N) to the *)
(* power e.  What is shown for the terms holds for every input, apart from *)
(* rounding.                                                               *)
(*                                                                         *)
(* A vector register holds two complex numbers.  Addresses are counted in  *)
(* complex numbers.                                                        *)
(***************************************************************************)
EXTENDS Patterns, Sequences

CONSTANT Logs   \* logarithms of the sizes

ASSUME LogsAssumption == Logs \subseteq 1..12

VARIABLES
    log,        \* logarithm of the size that is executed
    inv,        \* whether the plan is a backward one
    pc,         \* begin, leaves, combine, done
    leaf,       \* leaves of the first pass that are done
    calls,      \* calls of V4SF_X_4 and V4SF_X_8 that are not done yet
    step,       \* iterations of the first of them that are done
    out,        \* the output
    combined    \* sub-transforms combined so far

vars == <<log, inv, pc, leaf, calls, step, out, combined>>

N == 2^log

-----------------------------------------------------------------------------
(* Complex numbers and pairs of them.                                      *)

\* Whatever was in the memory, or a value nobody should compute.
Garbage == {<<-1, 0>>}

Times(a, e) == {<<t[1], (t[2] + e) % N>> : t \in a}
Inputs(a) == {t[1] : t \in a}

\* No algorithm of this family adds two multiples of the same input.
Plus(a, b) == IF Inputs(a) \cap Inputs(b) = {} THEN a \cup b ELSE Garbage
Minus(a, b) == Plus(a, Times(b, N \div 2))

Input(n) == {<<n, 0>>}
In(at) == << Input(at), Input(at + 1) >>
Out(at) == << out[at], out[at + 1] >>

Add(u, v) == << Plus(u[1], v[1]), Plus(u[2], v[2]) >>
Sub(u, v) == << Minus(u[1], v[1]), Minus(u[2], v[2]) >>

\* Times i going forward, -i going backward.
IMulI(u) ==
    LET turn == IF inv THEN N \div 4 ELSE 3 * (N \div 4)
    IN << Times(u[1], turn), Times(u[2], turn) >>

\* Times two twiddle factors, or their conjugates.
IMul(u, w) == << Times(u[1], w[1]), Times(u[2], w[2]) >>
IMulJ(u, w) == << Times(u[1], -w[1]), Times(u[2], -w[2]) >>

UnpackLo(u, v) == << u[1], v[1] >>
UnpackHi(u, v) == << u[2], v[2] >>
Blend(u, v) == << u[1], v[2] >>

\* Twiddle factors k and l of a transform of n points; a backward plan has their
\* conjugates in its tables.
W(n, k, l) ==
    LET unit == IF inv THEN -(N \div n) ELSE N \div n
    IN << k * unit, l * unit >>

\* The pairs of twiddle factors of the small transforms, and of the leaves.
ffts_constants_small == << W(8, 0, 1), W(16, 0, 1), W(16, 2, 3) >>
ffts_constants == << W(8, 1, 1), W(8, 0, 1) >>

-----------------------------------------------------------------------------
(* macros.h: each of these takes its registers and returns them changed.   *)

\* The imaginary unit is taken before the subtraction instead of after it.
K_N_swapped(w, r0, r1, r2, r3) ==
    LET zp == IMul(r2, w)
        zn == IMulJ(r3, w)
        zk == Add(zp, zn)
        zd == IMulI(Sub(zn, zp))
    IN << Add(r0, zk), Sub(r1, zd), Sub(r0, zk), Add(r1, zd) >>

K_N(w, r0, r1, r2, r3) ==
    LET zp == IMul(r2, w)
        zn == IMulJ(r3, w)
        zk == Add(zp, zn)
        zd == IMulI(Sub(zp, zn))
    IN << Add(r0, zk), Sub(r1, zd), Sub(r0, zk), Add(r1, zd) >>

K_0(r0, r1, r2, r3) ==
    LET t2 == Add(r2, r3)
        t3 == IMulI(Sub(r2, r3))
    IN << Add(r0, t2), Sub(r1, t3), Sub(r0, t2), Add(r1, t3) >>

L_2(i0, i1, i2, i3) ==
    << Add(In(i0), In(i1)), Sub(In(i0), In(i1)), Add(In(i2), In(i3)), Sub(In(i2), In(i3)) >>

L_4(i0, i1, i2, i3) ==
    LET t4 == Add(In(i0), In(i1))
        t5 == Sub(In(i0), In(i1))
        t6 == Add(In(i2), In(i3))
        t7 == IMulI(Sub(In(i2), In(i3)))
    IN << Add(t4, t6), Sub(t5, t7), Sub(t4, t6), Add(t5, t7) >>

\* L_4 with both halves transposed.
L_4_4(i0, i1, i2, i3) ==
    LET t == L_4(i0, i1, i2, i3)
    IN << UnpackLo(t[1], t[2]), UnpackLo(t[3], t[4]), UnpackHi(t[1], t[2]), UnpackHi(t[3], t[4]) >>

L_2_4(i0, i1, i2, i3) ==
    LET t4 == Add(In(i0), In(i1))
        t5 == Sub(In(i0), In(i1))
        t6 == Add(In(i2), In(i3))
        t7 == Sub(In(i2), In(i3))
        ti == IMulI(t5)
    IN << UnpackLo(t4, t5), UnpackLo(t6, t7),
          UnpackHi(Sub(t6, t4), Add(t7, ti)), UnpackHi(Add(t6, t4), Sub(t7, ti)) >>

L_4_2(i0, i1, i2, i3) ==
    LET t2 == Blend(In(i2), In(i3))
        t3 == Blend(In(i3), In(i2))
        t4 == Add(In(i0), In(i1))
        t5 == Sub(In(i0), In(i1))
        t6 == Add(t2, t3)
        t7 == Sub(t2, t3)
        ti == IMulI(t7)
    IN << UnpackLo(Add(t4, t6), Sub(t5, ti)), UnpackLo(Sub(t4, t6), Add(t5, ti)),
          UnpackHi(t4, t5), UnpackHi(t6, t7) >>

-----------------------------------------------------------------------------
(* The first pass: a leaf transforms two columns of eight inputs.          *)

\* ffts_init_is: the eight inputs of a leaf, of which the first pass uses the first
\* eight entries.  The other leaves read further on, in + 2 for each of them.
Is(k) == << 0, 4, 2, 6, 1, 5, 7, 3 >>[k + 1] * (N \div 8)

Load(L(_, _, _, _), a, b, c, d) ==
    L(Is(a) + 2 * leaf, Is(b) + 2 * leaf, Is(c) + 2 * leaf, Is(d) + 2 * leaf)

\* Two transforms of eight points.
EightAndEight(a, b) ==
    LET k == K_0(a[1], a[3], b[1], b[3])
        m == K_N(ffts_constants[1], a[2], a[4], b[2], b[4])
    IN << [e \in 1..4 |-> UnpackLo(k[e], m[e])], [e \in 1..4 |-> UnpackHi(k[e], m[e])] >>

LeafEE == EightAndEight(Load(L_4, 0, 1, 2, 3), Load(L_2, 4, 5, 6, 7))
LeafEE2 == EightAndEight(Load(L_4, 6, 7, 4, 5), Load(L_2, 0, 1, 3, 2))

\* One transform of eight points and two of four points.
LeafEO ==
    LET a == Load(L_4_4, 0, 1, 2, 3)
        b == Load(L_2_4, 4, 5, 6, 7)
    IN << K_N(ffts_constants[2], a[1], a[2], b[1], b[2]), << a[3], a[4], b[4], b[3] >> >>

LeafOE ==
    LET a == Load(L_4_2, 0, 1, 2, 3)
        b == Load(L_4_4, 6, 7, 4, 5)
    IN << << a[1], a[2], b[1], b[2] >>, K_N(ffts_constants[2], b[3], b[4], a[3], a[4]) >>

\* Four transforms of four points.
LeafOO ==
    LET a == Load(L_4_4, 0, 1, 2, 3)
        b == Load(L_4_4, 6, 7, 4, 5)
    IN << << a[1], a[2], b[1], b[2] >>, << a[3], a[4], b[3], b[4] >> >>

\* The leaves of ffts_static_firstpass_even_32f and ffts_static_firstpass_odd_32f.
FirstPass ==
    LET even == log % 2 = 0
    IN IF leaf < I0(log) THEN LeafEE
       ELSE IF even
       THEN IF leaf = I0(log) THEN LeafEO
            ELSE IF leaf <= I0(log) + I1(log) THEN LeafOO ELSE LeafEE2
       ELSE IF leaf < I0(log) + I1(log) THEN LeafOO
            ELSE IF leaf = I0(log) + I1(log) THEN LeafOE ELSE LeafEE2

\* How many there are.
Leaves == I0(log) + I1(log) + 1 + I1(log)

\* Four vectors stored one after the other (V4SF_S_4): the cells and what they get.
StoredAt(at, r, c) == r[(c - at) \div 2 + 1][((c - at) % 2) + 1]

-----------------------------------------------------------------------------
(* The recursion, as the sequence of the calls it makes.                   *)

X4(at) == << [routine |-> "X_4", log |-> 4, at |-> at] >>
X8(s, at) == << [routine |-> "X_8", log |-> s, at |-> at] >>

\* The transform goes before its last part.
CallsOf_early(part, whole) == part[1] \o part[2] \o part[3] \o part[4] \o whole \o part[5]

\* Parts before the whole.
CallsOf(part, whole) == part[1] \o part[2] \o part[3] \o part[4] \o part[5] \o whole

\* ffts_static_rec_f_32f and ffts_static_rec_i_32f.  Parts that are leaves have no call.
Rec[s \in 5..12, at \in Nat] ==
    LET half == at + 2^(s - 1)
        quarter == at + 2^(s - 2)
        threeEighths == quarter + 2^(s - 3)
        last == half + 2^(s - 2)
        part == IF s > 7
                THEN << Rec[s - 2, at], Rec[s - 3, quarter], Rec[s - 3, threeEighths],
                        Rec[s - 2, half], Rec[s - 2, last] >>
                ELSE IF s = 7
                THEN << X8(5, at), X4(quarter), X4(threeEighths), X8(5, half), X8(5, last) >>
                ELSE IF s = 6
                THEN << X4(at), <<>>, <<>>, X4(half), X4(last) >>
                ELSE << <<>>, <<>>, <<>>, <<>>, <<>> >>
    IN CallsOf(part, X8(s, at))

\* Iteration i of V4SF_X_4 and V4SF_X_8: the registers, eighths or quarters apart.
Loaded(call, i, parts) ==
    [e \in 1..parts |-> Out(call.at + (e - 1) * (2^call.log \div parts) + 2 * i)]

\* The twiddle factors of an iteration: V4SF_X_4 has one pair, V4SF_X_8 three, of
\* level ctz(N) - 4 of p->ws.
Twiddles(call, i) ==
    LET n == 2^call.log
    IN << W(n, 4 * i, 4 * i + 2), W(n, 2 * i, 2 * i + 1),
          W(n, 2 * i + n \div 8, 2 * i + 1 + n \div 8) >>

X_4(call, i) ==
    LET r == Loaded(call, i, 4)
    IN K_N(Twiddles(call, i)[2], r[1], r[2], r[3], r[4])

X_8(call, i) ==
    LET r == Loaded(call, i, 8)
        w == Twiddles(call, i)
        a == K_N(w[1], r[1], r[2], r[3], r[4])
        b == K_N(w[2], a[1], a[3], r[5], r[7])
        c == K_N(w[3], a[2], a[4], r[6], r[8])
    IN << b[1], c[1], b[2], c[2], b[3], c[3], b[4], c[4] >>

Iterations(call) == IF call.routine = "X_4" THEN 2^call.log \div 8 ELSE 2^call.log \div 16

-----------------------------------------------------------------------------
(* The small transforms.                                                   *)

\* A pair whose halves are the same.
Both(n) == << Input(n), Input(n) >>

Small2 == << << Plus(Input(0), Input(1)), Minus(Input(0), Input(1)) >> >>

Small4 ==
    LET t4 == Add(Both(0), Both(2))
        t5 == Sub(Both(0), Both(2))
        t6 == Add(Both(1), Both(3))
        t7 == IMulI(Sub(Both(1), Both(3)))
    IN << UnpackLo(Add(t4, t6), Sub(t5, t7)), UnpackLo(Sub(t4, t6), Add(t5, t7)) >>

Small8 ==
    LET r == L_4_2(0, 4, 2, 6)
    IN K_N(ffts_constants_small[1], r[1], r[2], r[3], r[4])

Small16 ==
    LET a == L_4_4(0, 8, 4, 12)
        b == L_2_4(2, 10, 14, 6)
        k == K_N(ffts_constants_small[1], a[1], a[2], b[1], b[2])
        l == K_N(ffts_constants_small[2], k[1], k[3], a[3], b[4])
        m == K_N(ffts_constants_small[3], k[2], k[4], a[4], b[3])
    IN << l[1], m[1], l[2], m[2], l[3], m[3], l[4], m[4] >>

Small ==
    CASE log = 1 -> Small2
      [] log = 2 -> Small4
      [] log = 3 -> Small8
      [] log = 4 -> Small16

-----------------------------------------------------------------------------
Begin(s, backward) ==
    /\ log = s
    /\ inv = backward
    /\ pc = "begin"
    /\ leaf = 0
    /\ calls = <<>>
    /\ step = 0
    /\ out = [c \in 0..(2^s - 1) |-> Garbage]
    /\ combined = <<>>

Init == \E s \in Logs, backward \in BOOLEAN : Begin(s, backward)

\* ffts_execute, with any of the plans.
Execute(s, backward) ==
    /\ pc = "done"
    /\ log' = s
    /\ inv' = backward
    /\ pc' = "begin"
    /\ leaf' = 0
    /\ calls' = <<>>
    /\ step' = 0
    /\ out' = [c \in 0..(2^s - 1) |-> Garbage]
    /\ combined' = <<>>

SmallTransform ==
    /\ pc = "begin"
    /\ log < 5
    /\ out' = [c \in DOMAIN out |-> StoredAt(0, Small, c)]
    /\ pc' = "done"
    /\ UNCHANGED <<log, inv, leaf, calls, step, combined>>

LargeTransform ==
    /\ pc = "begin"
    /\ log >= 5
    /\ pc' = "leaves"
    /\ UNCHANGED <<log, inv, leaf, calls, step, out, combined>>

Leaf ==
    /\ pc = "leaves"
    /\ leaf < Leaves
    /\ LET at0 == Offset(log, 2 * leaf)
           at1 == Offset(log, 2 * leaf + 1)
           r == FirstPass
       IN out' = [c \in DOMAIN out |->
                    IF c \in at0..(at0 + 7) THEN StoredAt(at0, r[1], c)
                    ELSE IF c \in at1..(at1 + 7) THEN StoredAt(at1, r[2], c)
                    ELSE out[c]]
    /\ leaf' = leaf + 1
    /\ UNCHANGED <<log, inv, pc, calls, step, combined>>

LeavesEnd ==
    /\ pc = "leaves"
    /\ leaf = Leaves
    /\ calls' = Rec[log, 0]
    /\ pc' = "combine"
    /\ UNCHANGED <<log, inv, leaf, step, out, combined>>

\* One iteration of V4SF_X_4 or V4SF_X_8.
Combine ==
    /\ pc = "combine"
    /\ calls # <<>>
    /\ LET call == Head(calls)
           r == IF call.routine = "X_4" THEN X_4(call, step) ELSE X_8(call, step)
           part == 2^call.log \div Len(r)
           last == step + 1 = Iterations(call)
       IN /\ out' = [c \in DOMAIN out |->
                        LET d == c - call.at
                        IN IF d \in 0..(2^call.log - 1) /\ d % part \in {2 * step, 2 * step + 1}
                           THEN r[d \div part + 1][(d % part) - 2 * step + 1]
                           ELSE out[c]]
          /\ step' = IF last THEN 0 ELSE step + 1
          /\ calls' = IF last THEN Tail(calls) ELSE calls
          /\ combined' = IF last THEN Append(combined, [size |-> call.log, pos |-> call.at])
                         ELSE combined
    /\ UNCHANGED <<log, inv, pc, leaf>>

Return ==
    /\ pc = "combine"
    /\ calls = <<>>
    /\ pc' = "done"
    /\ UNCHANGED <<log, inv, leaf, calls, step, out, combined>>

Next ==
    \/ SmallTransform \/ LargeTransform
    \/ Leaf \/ LeavesEnd
    \/ Combine \/ Return
    \/ \E s \in Logs, backward \in BOOLEAN : Execute(s, backward)

Spec == Init /\ [][Next]_vars

-----------------------------------------------------------------------------
(* Properties.                                                             *)

\* Output k is the sum of all inputs n times w^(n * k), w^(-n * k) backward: a discrete
\* Fourier transform, whatever was in the output before (ffts_static.c).
TransformRight ==
    pc = "done" =>
        \A k \in 0..(N - 1) : out[k] = {<<n, (IF inv THEN -n * k ELSE n * k) % N>> : n \in 0..(N - 1)}
==============================================================================
