------------------------------ MODULE VectorUnits ------------------------------
(***************************************************************************)
(* The vector units that macros.h chooses from: SSE (macros-sse.h), NEON   *)
(* (macros-neon.h), and four floats one by one (macros-alpha.h).           *)
(*                                                                         *)
(* A register V4SF has four floats, two complex numbers.  Floats are taken *)
(* as integers: what is proved here is an identity of sums and products,   *)
(* which rounding does not know of, and negation is exact in both.         *)
(***************************************************************************)
EXTENDS Integers

Lanes == 0..3
V4SF == [Lanes -> Int]
Units == {"sse", "neon", "alpha"}

\* The highest float first, as the macro takes them.
LIT4(f3, f2, f1, f0) ==
    [l \in Lanes |-> IF l = 0 THEN f0 ELSE IF l = 1 THEN f1 ELSE IF l = 2 THEN f2 ELSE f3]

ADD(x, y) == [l \in Lanes |-> x[l] + y[l]]
SUB(x, y) == [l \in Lanes |-> x[l] - y[l]]
MUL(x, y) == [l \in Lanes |-> x[l] * y[l]]

\* XOR with a mask of signs.
XOR(x, mask) == [l \in Lanes |-> IF mask[l] = "-0.0" THEN -x[l] ELSE x[l]]

Signs(inv) == IF inv THEN LIT4("0.0", "-0.0", "0.0", "-0.0") ELSE LIT4("-0.0", "0.0", "-0.0", "0.0")

-----------------------------------------------------------------------------
(* What the units' instructions do.                                        *)

mm_shuffle_ps(x, y, d, c, b, a) == LIT4(y[d], y[c], x[b], x[a])
mm_movehl_ps(x, y) == LIT4(x[3], x[2], y[3], y[2])
mm_movelh_ps(x, y) == LIT4(y[1], y[0], x[1], x[0])

vrev64q_f32(x) == LIT4(x[2], x[3], x[0], x[1])
vget_low_f32(x) == << x[0], x[1] >>
vget_high_f32(x) == << x[2], x[3] >>
vcombine_f32(lo, hi) == LIT4(hi[2], hi[1], lo[2], lo[1])
vdup_lane_f32(d, lane) == << d[lane + 1], d[lane + 1] >>

-----------------------------------------------------------------------------
(* The macros of each unit.                                                *)

\* macros-sse.h
Sse_SWAP_PAIRS(x) == mm_shuffle_ps(x, x, 2, 3, 0, 1)
Sse_UNPACK_HI(x, y) == mm_movehl_ps(y, x)
Sse_UNPACK_LO(x, y) == mm_movelh_ps(x, y)
Sse_BLEND(x, y) == mm_shuffle_ps(x, y, 3, 2, 1, 0)
Sse_DUPLICATE_RE(r) == mm_shuffle_ps(r, r, 2, 2, 0, 0)
Sse_DUPLICATE_IM(r) == mm_shuffle_ps(r, r, 3, 3, 1, 1)

\* macros-neon.h
Neon_SWAP_PAIRS(x) == vrev64q_f32(x)
Neon_UNPACK_HI(x, y) == vcombine_f32(vget_high_f32(x), vget_high_f32(y))
Neon_UNPACK_LO(x, y) == vcombine_f32(vget_low_f32(x), vget_low_f32(y))
Neon_BLEND(x, y) == vcombine_f32(vget_low_f32(x), vget_high_f32(y))
Neon_DUPLICATE_RE(r) == vcombine_f32(vdup_lane_f32(vget_low_f32(r), 0), vdup_lane_f32(vget_high_f32(r), 0))
Neon_DUPLICATE_IM(r) == vcombine_f32(vdup_lane_f32(vget_low_f32(r), 1), vdup_lane_f32(vget_high_f32(r), 1))

\* macros-alpha.h
Alpha_SWAP_PAIRS(x) == LIT4(x[2], x[3], x[0], x[1])
Alpha_UNPACK_HI(x, y) == LIT4(y[3], y[2], x[3], x[2])
Alpha_UNPACK_LO(x, y) == LIT4(y[1], y[0], x[1], x[0])
Alpha_BLEND(x, y) == LIT4(y[3], y[2], x[1], x[0])
Alpha_DUPLICATE_RE(r) == LIT4(r[2], r[2], r[0], r[0])
Alpha_DUPLICATE_IM(r) == LIT4(r[3], r[3], r[1], r[1])

SWAP_PAIRS(unit, x) ==
    CASE unit = "sse" -> Sse_SWAP_PAIRS(x)
      [] unit = "neon" -> Neon_SWAP_PAIRS(x)
      [] unit = "alpha" -> Alpha_SWAP_PAIRS(x)
UNPACK_HI(unit, x, y) ==
    CASE unit = "sse" -> Sse_UNPACK_HI(x, y)
      [] unit = "neon" -> Neon_UNPACK_HI(x, y)
      [] unit = "alpha" -> Alpha_UNPACK_HI(x, y)
UNPACK_LO(unit, x, y) ==
    CASE unit = "sse" -> Sse_UNPACK_LO(x, y)
      [] unit = "neon" -> Neon_UNPACK_LO(x, y)
      [] unit = "alpha" -> Alpha_UNPACK_LO(x, y)
BLEND(unit, x, y) ==
    CASE unit = "sse" -> Sse_BLEND(x, y)
      [] unit = "neon" -> Neon_BLEND(x, y)
      [] unit = "alpha" -> Alpha_BLEND(x, y)
DUPLICATE_RE(unit, r) ==
    CASE unit = "sse" -> Sse_DUPLICATE_RE(r)
      [] unit = "neon" -> Neon_DUPLICATE_RE(r)
      [] unit = "alpha" -> Alpha_DUPLICATE_RE(r)
DUPLICATE_IM(unit, r) ==
    CASE unit = "sse" -> Sse_DUPLICATE_IM(r)
      [] unit = "neon" -> Neon_DUPLICATE_IM(r)
      [] unit = "alpha" -> Alpha_DUPLICATE_IM(r)

IMULI(unit, inv, a) == SWAP_PAIRS(unit, XOR(a, Signs(inv)))

IMUL(unit, d, re, im) == SUB(MUL(re, d), MUL(im, SWAP_PAIRS(unit, d)))
IMULJ(unit, d, re, im) == ADD(MUL(re, d), MUL(im, SWAP_PAIRS(unit, d)))

\* How ffts_generate_luts spreads a pair w of twiddle factors, whose imaginary parts it
\* changes for a backward plan.
MULI_SIGN(inv) == Signs(inv)
SpreadRe(unit, w) == DUPLICATE_RE(unit, w)
SpreadIm(unit, inv, w) == XOR(DUPLICATE_IM(unit, w), MULI_SIGN(inv))

-----------------------------------------------------------------------------
(* What they are for: arithmetic of the complex numbers in the halves.     *)

Half(x, h) == << x[2 * h], x[2 * h + 1] >>
ComplexProduct(a, b) == << a[1] * b[1] - a[2] * b[2], a[1] * b[2] + a[2] * b[1] >>
Conjugate(a) == << a[1], -a[2] >>
ImaginaryUnit(inv) == << 0, IF inv THEN -1 ELSE 1 >>
Factor(inv, a) == IF inv THEN Conjugate(a) ELSE a
==============================================================================
