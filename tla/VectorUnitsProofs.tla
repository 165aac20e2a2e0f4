--------------------------- MODULE VectorUnitsProofs ---------------------------
(***************************************************************************)
(* In every unit and for both directions of a plan, the macros on registers *)
(* are operations on complex numbers, those that StaticTransform has in     *)
(* their place.                                                             *)
(***************************************************************************)
EXTENDS VectorUnits, TLAPS

\* The three units move the same floats to the same places: after it, the macros of
\* any unit are those of macros-alpha.h.
LEMMA UnitsAgree ==
    ASSUME NEW unit \in Units, NEW x \in V4SF, NEW y \in V4SF
    PROVE  /\ SWAP_PAIRS(unit, x) = LIT4(x[2], x[3], x[0], x[1])
           /\ UNPACK_HI(unit, x, y) = LIT4(y[3], y[2], x[3], x[2])
           /\ UNPACK_LO(unit, x, y) = LIT4(y[1], y[0], x[1], x[0])
           /\ BLEND(unit, x, y) = LIT4(y[3], y[2], x[1], x[0])
           /\ DUPLICATE_RE(unit, x) = LIT4(x[2], x[2], x[0], x[0])
           /\ DUPLICATE_IM(unit, x) = LIT4(x[3], x[3], x[1], x[1])
<1> USE DEF Units, V4SF
<1>1. SWAP_PAIRS(unit, x) = LIT4(x[2], x[3], x[0], x[1])
  BY DEF SWAP_PAIRS, Sse_SWAP_PAIRS, Neon_SWAP_PAIRS, Alpha_SWAP_PAIRS,
         mm_shuffle_ps, vrev64q_f32
<1>2. UNPACK_HI(unit, x, y) = LIT4(y[3], y[2], x[3], x[2])
  BY DEF UNPACK_HI, Sse_UNPACK_HI, Neon_UNPACK_HI, Alpha_UNPACK_HI,
         mm_movehl_ps, vcombine_f32, vget_high_f32
<1>3. UNPACK_LO(unit, x, y) = LIT4(y[1], y[0], x[1], x[0])
  BY DEF UNPACK_LO, Sse_UNPACK_LO, Neon_UNPACK_LO, Alpha_UNPACK_LO,
         mm_movelh_ps, vcombine_f32, vget_low_f32
<1>4. BLEND(unit, x, y) = LIT4(y[3], y[2], x[1], x[0])
  BY DEF BLEND, Sse_BLEND, Neon_BLEND, Alpha_BLEND,
         mm_shuffle_ps, vcombine_f32, vget_low_f32, vget_high_f32
<1>5. DUPLICATE_RE(unit, x) = LIT4(x[2], x[2], x[0], x[0])
  BY DEF DUPLICATE_RE, Sse_DUPLICATE_RE, Neon_DUPLICATE_RE, Alpha_DUPLICATE_RE,
         mm_shuffle_ps, vcombine_f32, vget_low_f32, vget_high_f32, vdup_lane_f32
<1>6. DUPLICATE_IM(unit, x) = LIT4(x[3], x[3], x[1], x[1])
  BY DEF DUPLICATE_IM, Sse_DUPLICATE_IM, Neon_DUPLICATE_IM, Alpha_DUPLICATE_IM,
         mm_shuffle_ps, vcombine_f32, vget_low_f32, vget_high_f32, vdup_lane_f32
<1> QED
  BY <1>1, <1>2, <1>3, <1>4, <1>5, <1>6

\* The floats of a literal.
LEMMA Literal ==
    ASSUME NEW f0, NEW f1, NEW f2, NEW f3
    PROVE  /\ LIT4(f3, f2, f1, f0)[0] = f0 /\ LIT4(f3, f2, f1, f0)[1] = f1
           /\ LIT4(f3, f2, f1, f0)[2] = f2 /\ LIT4(f3, f2, f1, f0)[3] = f3
  BY DEF LIT4, Lanes

\* The real or the imaginary parts change their signs.
LEMMA SignsChanged ==
    ASSUME NEW inv \in BOOLEAN, NEW a \in V4SF
    PROVE  /\ XOR(a, Signs(inv)) \in V4SF
           /\ XOR(a, Signs(inv))[0] = IF inv THEN -a[0] ELSE a[0]
           /\ XOR(a, Signs(inv))[1] = IF inv THEN a[1] ELSE -a[1]
           /\ XOR(a, Signs(inv))[2] = IF inv THEN -a[2] ELSE a[2]
           /\ XOR(a, Signs(inv))[3] = IF inv THEN a[3] ELSE -a[3]
  BY DEF XOR, Signs, LIT4, V4SF, Lanes

\* V4SF_UNPACK_LO and _HI pair the first or the second numbers of two registers, and
\* V4SF_BLEND takes the first of one and the second of the other.
THEOREM HalvesMoved ==
    ASSUME NEW unit \in Units, NEW x \in V4SF, NEW y \in V4SF
    PROVE  /\ Half(UNPACK_LO(unit, x, y), 0) = Half(x, 0) /\ Half(UNPACK_LO(unit, x, y), 1) = Half(y, 0)
           /\ Half(UNPACK_HI(unit, x, y), 0) = Half(x, 1) /\ Half(UNPACK_HI(unit, x, y), 1) = Half(y, 1)
           /\ Half(BLEND(unit, x, y), 0) = Half(x, 0) /\ Half(BLEND(unit, x, y), 1) = Half(y, 1)
<1>1. /\ UNPACK_LO(unit, x, y) = LIT4(y[1], y[0], x[1], x[0])
      /\ UNPACK_HI(unit, x, y) = LIT4(y[3], y[2], x[3], x[2])
      /\ BLEND(unit, x, y) = LIT4(y[3], y[2], x[1], x[0])
  BY UnitsAgree
<1> QED
  BY <1>1, Literal DEF Half

\* V4SF_IMULI multiplies both numbers by i, by -i in a backward plan.
THEOREM TimesI ==
    ASSUME NEW unit \in Units, NEW inv \in BOOLEAN, NEW a \in V4SF, NEW h \in {0, 1}
    PROVE  Half(IMULI(unit, inv, a), h) = ComplexProduct(Half(a, h), ImaginaryUnit(inv))
<1> DEFINE b == XOR(a, Signs(inv))
<1>1. a[0] \in Int /\ a[1] \in Int /\ a[2] \in Int /\ a[3] \in Int
  BY DEF V4SF, Lanes
<1>2. /\ b \in V4SF
      /\ b[0] = IF inv THEN -a[0] ELSE a[0]
      /\ b[1] = IF inv THEN a[1] ELSE -a[1]
      /\ b[2] = IF inv THEN -a[2] ELSE a[2]
      /\ b[3] = IF inv THEN a[3] ELSE -a[3]
  BY SignsChanged
<1> HIDE DEF b
<1>4. IMULI(unit, inv, a) = LIT4(b[2], b[3], b[0], b[1])
  BY <1>2, UnitsAgree DEF IMULI, b
<1>5. Half(IMULI(unit, inv, a), h) = IF h = 0 THEN << b[1], b[0] >> ELSE << b[3], b[2] >>
  BY <1>4, Literal DEF Half
<1>6. ComplexProduct(Half(a, h), ImaginaryUnit(inv))
        = IF h = 0 THEN IF inv THEN << a[1], -a[0] >> ELSE << -a[1], a[0] >>
          ELSE IF inv THEN << a[3], -a[2] >> ELSE << -a[3], a[2] >>
  BY <1>1 DEF ComplexProduct, Half, ImaginaryUnit
<1> QED
  BY <1>2, <1>5, <1>6

\* V4SF_IMUL multiplies by two twiddle factors, V4SF_IMULJ by their conjugates, from
\* the parts that ffts_generate_luts has spread for the direction of the plan.
THEOREM TwiddleProduct ==
    ASSUME NEW unit \in Units, NEW inv \in BOOLEAN, NEW d \in V4SF, NEW w \in V4SF, NEW h \in {0, 1}
    PROVE  /\ Half(IMUL(unit, d, SpreadRe(unit, w), SpreadIm(unit, inv, w)), h)
                = ComplexProduct(Half(d, h), Factor(inv, Half(w, h)))
           /\ Half(IMULJ(unit, d, SpreadRe(unit, w), SpreadIm(unit, inv, w)), h)
                = ComplexProduct(Half(d, h), Conjugate(Factor(inv, Half(w, h))))
<1> DEFINE re == SpreadRe(unit, w)
           im == SpreadIm(unit, inv, w)
           swapped == SWAP_PAIRS(unit, d)
<1>1. \A l \in Lanes : d[l] \in Int /\ w[l] \in Int
  BY DEF V4SF
<1>2. re[0] = w[0] /\ re[1] = w[0] /\ re[2] = w[2] /\ re[3] = w[2]
  BY UnitsAgree, Literal DEF SpreadRe
<1>3. /\ im[0] = IF inv THEN -w[1] ELSE w[1]
      /\ im[1] = IF inv THEN w[1] ELSE -w[1]
      /\ im[2] = IF inv THEN -w[3] ELSE w[3]
      /\ im[3] = IF inv THEN w[3] ELSE -w[3]
  <2>1. DUPLICATE_IM(unit, w) = LIT4(w[3], w[3], w[1], w[1])
    BY UnitsAgree
  <2> QED
    BY <2>1, Literal DEF SpreadIm, MULI_SIGN, Signs, XOR, Lanes
<1>4. swapped[0] = d[1] /\ swapped[1] = d[0] /\ swapped[2] = d[3] /\ swapped[3] = d[2]
  BY UnitsAgree, Literal
<1>5. \A l \in Lanes :
        /\ IMUL(unit, d, re, im)[l] = re[l] * d[l] - im[l] * swapped[l]
        /\ IMULJ(unit, d, re, im)[l] = re[l] * d[l] + im[l] * swapped[l]
  BY DEF IMUL, IMULJ, SUB, ADD, MUL
<1> HIDE DEF re, im, swapped
<1>6. CASE h = 0
  <2>1. /\ Half(IMUL(unit, d, re, im), h)
             = << re[0] * d[0] - im[0] * d[1], re[1] * d[1] - im[1] * d[0] >>
        /\ Half(IMULJ(unit, d, re, im), h)
             = << re[0] * d[0] + im[0] * d[1], re[1] * d[1] + im[1] * d[0] >>
    BY <1>4, <1>5, <1>6 DEF Half, Lanes
  <2>2. Half(d, h) = << d[0], d[1] >> /\ Half(w, h) = << w[0], w[1] >>
    BY <1>6 DEF Half
  <2>3. d[0] \in Int /\ d[1] \in Int /\ w[0] \in Int /\ w[1] \in Int
    BY <1>1 DEF Lanes
  <2> QED
    BY <1>2, <1>3, <2>1, <2>2, <2>3 DEF ComplexProduct, Factor, Conjugate, re, im
<1>7. CASE h = 1
  <2>1. /\ Half(IMUL(unit, d, re, im), h)
             = << re[2] * d[2] - im[2] * d[3], re[3] * d[3] - im[3] * d[2] >>
        /\ Half(IMULJ(unit, d, re, im), h)
             = << re[2] * d[2] + im[2] * d[3], re[3] * d[3] + im[3] * d[2] >>
    BY <1>4, <1>5, <1>7 DEF Half, Lanes
  <2>2. Half(d, h) = << d[2], d[3] >> /\ Half(w, h) = << w[2], w[3] >>
    BY <1>7 DEF Half
  <2>3. d[2] \in Int /\ d[3] \in Int /\ w[2] \in Int /\ w[3] \in Int
    BY <1>1 DEF Lanes
  <2> QED
    BY <1>2, <1>3, <2>1, <2>2, <2>3 DEF ComplexProduct, Factor, Conjugate, re, im
<1> QED
  BY <1>6, <1>7
==============================================================================
