---------------------------- MODULE ChirpPlanProofs ----------------------------
(***************************************************************************)
(* From single angles to Fourier transforms of sizes that are no power of  *)
(* two.  The reduction of TrigReduce is exact; CosSinProofs shows that     *)
(* every table made of such angles is right, ChirpZProofs that the plans   *)
(* made of right tables compute Fourier transforms.  Both are applied to   *)
(* the composed system here.                                               *)
(***************************************************************************)
EXTENDS ChirpPlan, TLAPS

-----------------------------------------------------------------------------
(* One angle.  The inductive invariant says which angle is kept at every   *)
(* stage.  An angle within the octant is a multiple i of 1/512 of the      *)
(* circle and the remaining n, which counts 2 * j steps of 1/(512 * den)   *)
(* as long as the bit j of the division is undecided, and one step at the  *)
(* end.                                                                    *)

\* The angle of the call that is left when whole turns are taken away.
Turn == num % den

\* The angle that an angle o of the octant stands for, by the three mirrorings.
Unfolded(o) ==
    LET f == IF swap THEN 128 * den - o ELSE o
        t == IF cosSign = -1 THEN 256 * den - f ELSE f
    IN IF sinSign = -1 THEN 512 * den - t ELSE t

Weight == IF j = 0 THEN 1 ELSE 2 * j

Kept ==
    /\ pc = "reduce" => n = num /\ i = 0 /\ j = 32
    /\ pc = "half" => n = Turn /\ n < den /\ i = 0 /\ j = 32
    /\ pc = "quarter" =>
        /\ 2 * n <= den /\ i = 0 /\ j = 32
        /\ Turn = IF sinSign = -1 THEN den - n ELSE n
    /\ pc = "octant" =>
        /\ i = 0 /\ j = 32
        /\ swap = (cosSign = -1)
        /\ Unfolded(128 * n) = 512 * Turn
    /\ pc = "divide" =>
        /\ i + Weight <= 64
        /\ Unfolded(i * den + Weight * n) = 512 * Turn
    /\ pc = "nearest" =>
        /\ i <= 63
        /\ Unfolded(i * den + n) = 512 * Turn
    /\ pc = "done" =>
        /\ i <= 64 /\ 2 * n <= den
        /\ Unfolded(i * den + sign * n) = 512 * Turn

IInv == TypeOK /\ Kept

-----------------------------------------------------------------------------
\* A remainder is a natural number below its divisor.
LEMMA Remainder ==
    ASSUME NEW a \in Nat, NEW b \in Nat \ {0}
    PROVE  a % b \in Nat /\ a % b < b /\ (a < b => a % b = a)
  BY SMTT(30)

\* The invariant holds when a call begins.
LEMMA InitKept == Init => IInv
<1> SUFFICES ASSUME Init PROVE IInv
  OBVIOUS
<1>1. num \in Nat /\ den \in Nat \ {0}
  BY NumsAssumption, DensAssumption DEF Init
<1>2. TypeOK
  BY <1>1 DEF Init, TypeOK
<1>3. Kept
  BY DEF Init, Kept
<1> QED
  BY <1>2, <1>3 DEF IInv

\* Whole turns are taken away.
LEMMA ReduceKept == IInv /\ Reduce => IInv'
<1> SUFFICES ASSUME IInv, Reduce PROVE IInv'
  OBVIOUS
<1>1. num \in Nat /\ den \in Nat \ {0}
  BY DEF IInv, TypeOK
<1>2. Turn \in Nat /\ Turn < den /\ (num < den => Turn = num)
  BY <1>1, Remainder DEF Turn
<1>3. n' = Turn
  BY <1>1, <1>2 DEF Reduce, IInv, TypeOK, Kept, Turn
<1> QED
  BY <1>1, <1>2, <1>3 DEF Reduce, IInv, TypeOK, Kept, Turn, flags

\* The lower half is folded onto the upper one.
LEMMA HalfKept == IInv /\ Half => IInv'
<1> SUFFICES ASSUME IInv, Half PROVE IInv'
  OBVIOUS
<1>1. num \in Nat /\ den \in Nat \ {0} /\ Turn' = Turn
  BY DEF IInv, TypeOK, Turn, Half
<1>2. TypeOK'
  BY <1>1 DEF Half, IInv, TypeOK, Kept
<1>3. Kept'
  BY <1>1 DEF Half, IInv, TypeOK, Kept
<1> QED
  BY <1>2, <1>3 DEF IInv

\* The second quarter is folded onto the first one.
LEMMA QuarterKept == IInv /\ Quarter => IInv'
<1> SUFFICES ASSUME IInv, Quarter PROVE IInv'
  OBVIOUS
<1>1. num \in Nat /\ den \in Nat \ {0} /\ Turn' = Turn
  BY DEF IInv, TypeOK, Turn, Quarter
<1>2. n \in Nat /\ 2 * n <= den
  BY DEF Quarter, IInv, TypeOK, Kept
<1>3. CASE 2 * n > den - 2 * n
  <2>1. n' = 4 * n - den /\ cosSign' = -1 /\ swap' = TRUE
    BY <1>3 DEF Quarter
  <2>2. n' \in Nat /\ n' <= den
    BY <1>1, <1>2, <1>3, <2>1
  <2>3. Unfolded(128 * n)' = 512 * Turn
    BY <1>1, <1>2, <2>1 DEF Quarter, IInv, TypeOK, Kept, Unfolded
  <2>4. TypeOK'
    BY <1>1, <2>1, <2>2 DEF Quarter, IInv, TypeOK
  <2> QED
    BY <1>1, <2>1, <2>3, <2>4 DEF Quarter, IInv, Kept
<1>4. CASE ~(2 * n > den - 2 * n)
  <2>1. n' = 4 * n /\ cosSign' = 1 /\ swap' = FALSE
    BY <1>4 DEF Quarter
  <2>2. n' \in Nat /\ n' <= den
    BY <1>1, <1>2, <1>4, <2>1
  <2>3. Unfolded(128 * n)' = 512 * Turn
    BY <1>1, <1>2, <2>1 DEF Quarter, IInv, TypeOK, Kept, Unfolded
  <2>4. TypeOK'
    BY <1>1, <2>1, <2>2 DEF Quarter, IInv, TypeOK
  <2>5. swap' = (cosSign' = -1)
    <3>1. cosSign' # -1
      BY <2>1
    <3> QED
      BY <2>1, <3>1
  <2> QED
    BY <1>1, <2>3, <2>4, <2>5 DEF Quarter, IInv, Kept
<1> QED
  BY <1>3, <1>4

\* The second octant is folded onto the first one.
LEMMA OctantKept == IInv /\ Octant => IInv'
<1> SUFFICES ASSUME IInv, Octant PROVE IInv'
  OBVIOUS
<1>1. num \in Nat /\ den \in Nat \ {0} /\ den' = den /\ Turn' = Turn
  BY DEF IInv, TypeOK, Turn, Octant
<1>2. n \in Nat /\ n <= den /\ Unfolded(128 * n) = 512 * Turn
  BY DEF Octant, IInv, TypeOK, Kept
<1>3. i' = 0 /\ j' = 32 /\ Weight' = 64 /\ pc' = "divide"
  BY DEF Octant, IInv, Kept, Weight
<1>4. n' \in Nat /\ n' <= den /\ swap' \in BOOLEAN /\ Unfolded(64 * n)' = 512 * Turn
  <2>1. CASE n > den - n
    <3>1. n' = 2 * (den - n) /\ swap' = ~swap
      BY <2>1 DEF Octant
    <3>2. n' \in Nat /\ n' <= den
      BY <1>1, <1>2, <2>1, <3>1
    <3>3. 64 * n' = 128 * den - 128 * n /\ 128 * den - 64 * n' = 128 * n
      BY <1>1, <1>2, <3>1
    <3>4. Unfolded(64 * n)' = Unfolded(128 * n)
      <4> DEFINE o == 128 * n
                 o1 == 64 * n'
      <4>1. o \in Nat /\ o1 \in Int /\ 128 * den - o1 = o /\ o1 = 128 * den - o
        BY <1>1, <1>2, <3>3
      <4>2. cosSign' = cosSign /\ sinSign' = sinSign
        BY DEF Octant
      <4>3. (IF swap' THEN 128 * den' - o1 ELSE o1) = IF swap THEN 128 * den - o ELSE o
        <5>1. CASE swap
          <6>1. ~swap'
            BY <3>1, <5>1
          <6> HIDE DEF o, o1
          <6> QED
            BY <4>1, <5>1, <6>1
        <5>2. CASE ~swap
          <6>1. swap'
            BY <3>1, <5>2
          <6> HIDE DEF o, o1
          <6> QED
            BY <1>1, <4>1, <5>2, <6>1
        <5> QED
          BY <5>1, <5>2
      <4> QED
        BY <1>1, <4>2, <4>3 DEF Unfolded
    <3>5. swap' \in BOOLEAN
      BY <3>1
    <3> QED
      BY <1>2, <3>2, <3>4, <3>5
  <2>2. CASE ~(n > den - n)
    <3>1. n' = 2 * n /\ swap' = swap
      BY <2>2 DEF Octant
    <3>2. n' \in Nat /\ n' <= den
      BY <1>1, <1>2, <2>2, <3>1
    <3>3. 64 * n' = 128 * n
      BY <1>1, <1>2, <3>1
    <3> QED
      BY <1>1, <1>2, <3>1, <3>2, <3>3 DEF Octant, IInv, TypeOK, Unfolded
  <2> QED
    BY <2>1, <2>2
<1>5. TypeOK'
  BY <1>1, <1>3, <1>4 DEF Octant, IInv, TypeOK
<1>6. (i * den + Weight * n)' = 64 * n'
  BY <1>1, <1>3, <1>4
<1>7. (i + Weight)' <= 64
  BY <1>3
<1> QED
  BY <1>1, <1>3, <1>4, <1>5, <1>6, <1>7 DEF IInv, Kept, Unfolded

\* A step of the division keeps the sum of what is decided and what is left.
LEMMA DivideKept == IInv /\ Divide => IInv'
<1> SUFFICES ASSUME IInv, Divide PROVE IInv'
  OBVIOUS
<1>1. num \in Nat /\ den \in Nat \ {0} /\ Turn' = Turn
  BY DEF IInv, TypeOK, Turn, Divide
<1>2. n \in Nat /\ i \in Nat /\ n <= den /\ j \in {1, 2, 4, 8, 16, 32}
  BY DEF Divide, IInv, TypeOK
<1>3. j' \in {0, 1, 2, 4, 8, 16, 32} /\ Weight = 2 * j /\ Weight' = j
  BY <1>2 DEF Divide, Weight
<1>4. TypeOK'
  BY <1>1, <1>2, <1>3 DEF Divide, IInv, TypeOK, flags
<1>5. (i * den + Weight * n)' = i * den + Weight * n
  <2>1. CASE n > den - n
    <3>1. n' = 2 * n - den /\ i' = i + j /\ den' = den
      BY <2>1 DEF Divide
    <3>2. i' * den + j * n' = i * den + 2 * j * n
      BY <1>1, <1>2, <3>1
    <3> QED
      BY <1>3, <3>1, <3>2
  <2>2. CASE ~(n > den - n)
    <3>1. n' = 2 * n /\ i' = i /\ den' = den
      BY <2>2 DEF Divide
    <3>2. i' * den + j * n' = i * den + 2 * j * n
      BY <1>1, <1>2, <3>1
    <3> QED
      BY <1>3, <3>1, <3>2
  <2> QED
    BY <2>1, <2>2
<1>6. (i + Weight)' <= 64
  BY <1>2, <1>3 DEF Divide, IInv, Kept
<1> QED
  BY <1>1, <1>4, <1>5, <1>6 DEF Divide, IInv, Kept, Unfolded, flags

\* When the division ends, what is left counts single steps.
LEMMA DivideEndsKept == IInv /\ DivideEnds => IInv'
<1> SUFFICES ASSUME IInv, DivideEnds PROVE IInv'
  OBVIOUS
<1>1. num \in Nat /\ den \in Nat \ {0} /\ Turn' = Turn
  BY DEF IInv, TypeOK, Turn, DivideEnds
<1>2. TypeOK'
  BY DEF DivideEnds, IInv, TypeOK, flags
<1>3. Weight * n = n /\ Weight >= 1
  BY DEF DivideEnds, IInv, TypeOK, Weight
<1>4. i <= 63
  BY <1>3 DEF DivideEnds, IInv, TypeOK, Kept, Weight
<1> QED
  BY <1>1, <1>2, <1>3, <1>4 DEF DivideEnds, IInv, Kept, Unfolded, flags

\* The nearest entry is at most half a step away.
LEMMA NearestKept == IInv /\ Nearest => IInv'
<1> SUFFICES ASSUME IInv, Nearest PROVE IInv'
  OBVIOUS
<1>1. num \in Nat /\ den \in Nat \ {0} /\ Turn' = Turn
  BY DEF IInv, TypeOK, Turn, Nearest
<1>2. TypeOK'
  BY <1>1 DEF Nearest, IInv, TypeOK
<1>3. i' <= 64 /\ 2 * n' <= den
  BY <1>1 DEF Nearest, IInv, TypeOK, Kept
<1>4. (i * den + sign * n)' = i * den + n
  BY <1>1 DEF Nearest, IInv, TypeOK
<1> QED
  BY <1>1, <1>2, <1>3, <1>4 DEF Nearest, IInv, Kept, Unfolded

\* The next call starts afresh.
LEMMA CallKept ==
    ASSUME IInv, NEW a \in Nat, NEW b \in Nat \ {0}, Call(a, b)
    PROVE  IInv'
  BY DEF Call, IInv, TypeOK, Kept, flags

\* The invariant is inductive.
THEOREM ReduceInductive == Spec => []IInv
<1>1. IInv /\ [Next]_vars => IInv'
  <2> SUFFICES ASSUME IInv, [Next]_vars PROVE IInv'
    OBVIOUS
  <2>1. CASE Next
    BY <2>1, ReduceKept, HalfKept, QuarterKept, OctantKept, DivideKept,
       DivideEndsKept, NearestKept, CallKept, NumsAssumption, DensAssumption
       DEF Next, Compute
  <2>2. CASE UNCHANGED vars
    BY <2>2 DEF vars, flags, IInv, TypeOK, Kept, Unfolded, Weight, Turn
  <2> QED
    BY <2>1, <2>2
<1> QED
  BY InitKept, <1>1, PTL DEF Spec

\* The invariant says what is promised of an answer.
LEMMA ExactThen ==
    ASSUME IInv
    PROVE  AngleExact /\ InTable
  BY DEF IInv, TypeOK, Kept, AngleExact, InTable, Result, Turned, Swapped, InOctant, Unfolded, Turn

\* For every numerator and every denominator, the table entry, the remainder and the
\* three flags that ffts_cexp_32f64f computes stand for the angle of the call, exactly.
THEOREM AngleAlwaysExact == Spec => [](AngleExact /\ InTable)
  BY ReduceInductive, ExactThen, PTL

-----------------------------------------------------------------------------
(* The parts of the composed system.                                       *)

Tab == INSTANCE CosSinProofs WITH pc <- loop, i <- ti, j <- tj, k <- tk

Plan == INSTANCE ChirpZProofs WITH
    pc <- stage, i <- at, j <- squares,
    lut <- [c \in 0..(size - 1) |-> Table!FloatAt(c)]

\* Tables of at least two angles, and sizes of which ffts_next_power_of_2 is known, twice.
SizesKnown == \A s \in TableSizes : 2 <= s /\ s <= 65536

-----------------------------------------------------------------------------
(* What the parts know of each other.                                      *)

\* A table is made at most once, and of the sizes there are.
SizeOK ==
    \/ size = 0 /\ loop = "none"
    \/ size \in TableSizes

\* A plan is for half as many points as its table, which is finished.
PlanOK ==
    /\ stage = "idle" => N = 0
    /\ stage # "idle" => loop = "done" /\ N \in Nat /\ size = 2 * N

JoinInv == IInv /\ Tab!CosSinInv /\ SizeOK /\ PlanOK

\* CosSin is the same to this module and to the proofs about it.
LEMMA SameBegin ==
    ASSUME NEW s, Table!Begin(s)
    PROVE  Tab!Begin(s)
  BY DEF Table!Begin, Tab!Begin, Table!Multiple, Tab!Multiple, Table!Nothing, Tab!Nothing

LEMMA SameNext == Table!Next <=> Tab!Next
  BY DEF Table!Next, Table!Doubling, Table!DoublingInner, Table!DoublingNext, Table!DoublingEnds,
    Table!Rest, Table!RestInner, Table!RestNext, Table!RestEnds, Table!Convert, Table!ConvertEnds,
    Table!Quarter, Table!QuarterEnds, Table!Mirror, Table!MirrorEnds, Table!OddDoubling,
    Table!OddDoublingInner, Table!OddDoublingNext, Table!OddDoublingEnds, Table!OddThree,
    Table!OddThreeEnds, Table!OddTwo, Table!OddTwoEnds, Table!OddOne, Table!OddOneEnds,
    Table!Lower, Table!LowerEnds, Table!Exit, Table!Access, Table!NoAccess, Table!Store,
    Table!Goto, Table!Double, Table!Float, Table!Both, Table!Single, Table!DoubleAt,
    Table!HasDouble, Table!FloatAt, Table!HasFloat, Table!Reflected, Table!Multiple, Table!locals,
    Tab!Next, Tab!Doubling, Tab!DoublingInner, Tab!DoublingNext, Tab!DoublingEnds,
    Tab!Rest, Tab!RestInner, Tab!RestNext, Tab!RestEnds, Tab!Convert, Tab!ConvertEnds,
    Tab!Quarter, Tab!QuarterEnds, Tab!Mirror, Tab!MirrorEnds, Tab!OddDoubling,
    Tab!OddDoublingInner, Tab!OddDoublingNext, Tab!OddDoublingEnds, Tab!OddThree,
    Tab!OddThreeEnds, Tab!OddTwo, Tab!OddTwoEnds, Tab!OddOne, Tab!OddOneEnds,
    Tab!Lower, Tab!LowerEnds, Tab!Exit, Tab!Access, Tab!NoAccess, Tab!Store,
    Tab!Goto, Tab!Double, Tab!Float, Tab!Both, Tab!Single, Tab!DoubleAt,
    Tab!HasDouble, Tab!FloatAt, Tab!HasFloat, Tab!Reflected, Tab!Multiple, Tab!locals

LEMMA InitJoin ==
    ASSUME SizesKnown, PlanInit
    PROVE  JoinInv
<1>1. stage = "idle" /\ N = 0
  BY DEF PlanInit, Chirp!Init
<1>2. IInv
  BY InitKept DEF PlanInit
<1>3. CASE Table!NoTable
  <2>1. Tab!NoTable
    BY <1>3 DEF Table!NoTable, Tab!NoTable
  <2> QED
    BY <1>1, <1>2, <1>3, <2>1 DEF Table!NoTable, JoinInv, SizeOK, PlanOK, Tab!CosSinInv
<1>4. CASE Table!Begin(den) /\ den \in TableSizes
  <2>1. size = den
    BY <1>4 DEF Table!Begin
  <2>2. Tab!Sized
    BY <1>4, <2>1, TableSizesAssumption, DensAssumption DEF SizesKnown, Tab!Sized
  <2>3. Tab!Working
    BY <1>4, <2>2, SameBegin, Tab!BeginKept
  <2> QED
    BY <1>1, <1>2, <1>4, <2>1, <2>3 DEF JoinInv, SizeOK, PlanOK, Tab!CosSinInv
<1> QED
  BY <1>3, <1>4 DEF PlanInit

\* A step of a table is one of a table that is being made, and remains in its size.
LEMMA TableStep ==
    ASSUME Tab!CosSinInv, Table!Next
    PROVE  Tab!CosSinInv' /\ loop \notin {"none", "done"} /\ size' = size
<1>1. Tab!CosSinInv'
  BY SameNext, Tab!StepKept DEF Tab!CosSinInv
<1>2. loop \notin {"none", "done"} /\ size' = size
  BY DEF Table!Next, Table!Doubling, Table!DoublingInner, Table!DoublingNext, Table!DoublingEnds,
    Table!Rest, Table!RestInner, Table!RestNext, Table!RestEnds, Table!Convert, Table!ConvertEnds,
    Table!Quarter, Table!QuarterEnds, Table!Mirror, Table!MirrorEnds, Table!OddDoubling,
    Table!OddDoublingInner, Table!OddDoublingNext, Table!OddDoublingEnds, Table!OddThree,
    Table!OddThreeEnds, Table!OddTwo, Table!OddTwoEnds, Table!OddOne, Table!OddOneEnds,
    Table!Lower, Table!LowerEnds, Table!Exit
<1> QED
  BY <1>1, <1>2

\* A plan that is at work remains for as many points.
LEMMA WorkStep ==
    ASSUME Chirp!Next
    PROVE  stage # "idle" /\ stage' # "idle" /\ N' = N
  BY DEF
    Chirp!Next, Chirp!ChirpStep, Chirp!ChirpEnds, Chirp!KernelStep, Chirp!KernelEnds,
    Chirp!Pad, Chirp!PadLast, Chirp!PadEnds, Chirp!Execute, Chirp!Multiply,
    Chirp!MultiplyEnds, Chirp!PadInput, Chirp!InputEnd, Chirp!PadInputEnds,
    Chirp!Convolve

\* A plan begins when its table is finished.
LEMMA BeginPlanStep ==
    ASSUME SizesKnown, JoinInv, BeginPlan
    PROVE  /\ stage' # "idle" /\ N' \in Plan!PlanSizes /\ N' \in Nat /\ size = 2 * N'
           /\ Chirp!Begin(N') /\ loop = "done"
<1>1. loop = "done" /\ size % 2 = 0
  BY DEF BeginPlan
<1>2. Chirp!Begin(size \div 2)
  BY DEF BeginPlan
<1>3. N' = size \div 2 /\ stage' = "chirp"
  BY <1>2 DEF Chirp!Begin
<1>4. size \in TableSizes
  BY <1>1 DEF JoinInv, SizeOK
<1>5. size \in Nat /\ 1 <= size /\ size <= 65536
  BY <1>4, TableSizesAssumption, DensAssumption DEF SizesKnown
<1>6. size \div 2 \in Nat /\ size = 2 * (size \div 2)
  BY <1>1, <1>5, Z3
<1>7. size \div 2 \in Plan!PlanSizes
  <2> DEFINE h == size \div 2
  <2>1. h \in Nat /\ size = 2 * h
    BY <1>6
  <2> HIDE DEF h
  <2>2. 1 <= h /\ h <= 32768
    BY <1>5, <2>1
  <2> QED
    BY <2>1, <2>2 DEF Plan!PlanSizes, h
<1> QED
  BY <1>1, <1>2, <1>3, <1>6, <1>7

\* An angle that is asked for is one of the table's.
LEMMA AskStep ==
    ASSUME IInv, Tab!CosSinInv, Ask
    PROVE  IInv'
<1>1. PICK a \in Table!Wanted : Call(a, size)
  BY DEF Ask
<1>2. Tab!Working
  <2>1. loop # "none"
    BY <1>1 DEF Table!Wanted
  <2> QED
    BY <2>1 DEF Tab!CosSinInv, Tab!NoTable
<1>3. size \in Nat \ {0} /\ tj \in Nat
  BY <1>2 DEF Tab!Working, Tab!Sized, Tab!Numbers
<1>4. a \in Nat
  BY <1>1, <1>3 DEF Table!Wanted
<1> QED
  BY <1>1, <1>3, <1>4, CallKept

LEMMA JoinStep ==
    ASSUME SizesKnown, JoinInv, [PlanNext]_planVars
    PROVE  JoinInv'
<1>1. ASSUME UNCHANGED tableVars PROVE Tab!CosSinInv' /\ SizeOK'
  BY <1>1, Tab!Stuttering DEF JoinInv, SizeOK, tableVars, Tab!vars, Tab!locals
<1>2. ASSUME UNCHANGED tableVars, UNCHANGED chirpVars PROVE PlanOK'
  BY <1>2 DEF tableVars, chirpVars, JoinInv, PlanOK
<1>3. ASSUME UNCHANGED reduceVars PROVE IInv'
  BY <1>3 DEF JoinInv, reduceVars, vars, flags, IInv, TypeOK, Kept, Unfolded, Weight, Turn
<1>4. CASE Reduction
  <2>1. Compute
    BY <1>4 DEF Reduction
  <2>2. IInv'
    BY <2>1, ReduceKept, HalfKept, QuarterKept, OctantKept, DivideKept, DivideEndsKept,
       NearestKept DEF JoinInv, Compute
  <2> QED
    BY <1>1, <1>2, <1>4, <2>2 DEF Reduction, JoinInv
<1>5. CASE Ask
  <2>1. IInv'
    BY <1>5, AskStep DEF JoinInv
  <2> QED
    BY <1>1, <1>2, <1>5, <2>1 DEF Ask, JoinInv
<1>6. CASE MakeTable
  <2>1. Table!Next /\ UNCHANGED chirpVars /\ UNCHANGED reduceVars
    BY <1>6 DEF MakeTable
  <2>2. /\ Tab!CosSinInv' /\ loop \notin {"none", "done"} /\ size' = size
        /\ stage' = stage /\ N' = N
    BY <2>1, TableStep DEF chirpVars, JoinInv
  <2>3. SizeOK' /\ PlanOK'
    BY <2>2 DEF JoinInv, SizeOK, PlanOK
  <2> QED
    BY <1>3, <2>1, <2>2, <2>3 DEF JoinInv
<1>7. CASE BeginPlan
  <2>1. UNCHANGED tableVars /\ UNCHANGED reduceVars
    BY <1>7 DEF BeginPlan
  <2>2. PlanOK'
    BY <1>7, <2>1, BeginPlanStep DEF tableVars, PlanOK
  <2> QED
    BY <1>1, <1>3, <2>1, <2>2 DEF JoinInv
<1>8. CASE WorkOnPlan
  <2>1. UNCHANGED tableVars /\ UNCHANGED reduceVars /\ Chirp!Next
    BY <1>8 DEF WorkOnPlan
  <2>2. stage # "idle" /\ stage' # "idle" /\ N' = N
    BY <2>1, WorkStep
  <2>3. PlanOK'
    BY <2>1, <2>2 DEF tableVars, JoinInv, PlanOK
  <2> QED
    BY <1>1, <1>3, <2>1, <2>3 DEF JoinInv
<1>9. CASE UNCHANGED planVars
  BY <1>1, <1>2, <1>3, <1>9 DEF planVars, JoinInv
<1> QED
  BY <1>4, <1>5, <1>6, <1>7, <1>8, <1>9 DEF PlanNext

\* Whatever the composed system does is, to a plan, what ChirpZProofs allows.
LEMMA PlanStep ==
    ASSUME SizesKnown, JoinInv, [PlanNext]_planVars
    PROVE  [Plan!ChirpNext]_(Plan!vars)
<1>1. ASSUME UNCHANGED chirpVars PROVE UNCHANGED Plan!vars
  BY <1>1 DEF chirpVars, Plan!vars
<1>2. CASE Reduction
  BY <1>1, <1>2 DEF Reduction
<1>3. CASE Ask
  BY <1>1, <1>3 DEF Ask
<1>4. CASE MakeTable
  BY <1>1, <1>4 DEF MakeTable
<1>5. CASE BeginPlan
  <2>1. Chirp!Begin(N') /\ N' \in Plan!PlanSizes
    BY <1>5, BeginPlanStep
  <2>2. Plan!Begin(N')
    BY <2>1 DEF Chirp!Begin, Plan!Begin, Chirp!NextPowerOf2, Plan!NextPowerOf2, Chirp!Old, Plan!Old
  <2> QED
    BY <2>1, <2>2 DEF Plan!ChirpNext
<1>6. CASE WorkOnPlan
  <2>1. Chirp!Next
    BY <1>6 DEF WorkOnPlan
  <2>2. Plan!Next
    BY <2>1 DEF
    Chirp!Next, Chirp!ChirpStep, Chirp!ChirpEnds, Chirp!KernelStep, Chirp!KernelEnds,
    Chirp!Pad, Chirp!PadLast, Chirp!PadEnds, Chirp!Execute, Chirp!Multiply,
    Chirp!MultiplyEnds, Chirp!PadInput, Chirp!InputEnd, Chirp!PadInputEnds,
    Chirp!Convolve, Chirp!Zero, Chirp!Old,
    Plan!Next, Plan!ChirpStep, Plan!ChirpEnds, Plan!KernelStep, Plan!KernelEnds,
    Plan!Pad, Plan!PadLast, Plan!PadEnds, Plan!Execute, Plan!Multiply,
    Plan!MultiplyEnds, Plan!PadInput, Plan!InputEnd, Plan!PadInputEnds, Plan!Convolve,
    Plan!Zero, Plan!Old
  <2> QED
    BY <2>2 DEF Plan!ChirpNext
<1>7. CASE UNCHANGED planVars
  BY <1>1, <1>7 DEF planVars
<1> QED
  BY <1>2, <1>3, <1>4, <1>5, <1>6, <1>7 DEF PlanNext

\* The table's two properties.
LEMMA TableKnown ==
    ASSUME JoinInv
    PROVE  TableInBounds /\ TableComplete
<1>1. Tab!InTable /\ Tab!TableComplete
  BY Tab!InvariantTable DEF JoinInv
<1> QED
  BY <1>1 DEF TableInBounds, TableComplete, Table!InTable, Tab!InTable, Table!TableComplete,
    Tab!TableComplete, Table!Single, Tab!Single

\* A complete table is what ChirpZ asks of its own.
LEMMA TableIsRight ==
    ASSUME JoinInv
    PROVE  Plan!TableRight
<1> SUFFICES ASSUME NEW c \in 0..(2 * N - 1)
             PROVE  [b \in 0..(size - 1) |-> Table!FloatAt(b)][c] = c
  BY DEF Plan!TableRight
<1>1. CASE stage = "idle"
  <2>1. N = 0
    BY <1>1 DEF JoinInv, PlanOK
  <2> QED
    BY <2>1
<1>2. CASE stage # "idle"
  <2>1. loop = "done" /\ N \in Nat /\ size = 2 * N
    BY <1>2 DEF JoinInv, PlanOK
  <2>2. Tab!Working
    BY <2>1 DEF JoinInv, Tab!CosSinInv, Tab!NoTable
  <2>3. DOMAIN mem = 0..(size - 1)
    BY <2>2 DEF Tab!Working, Tab!Cells
  <2>4. c \in 0..(size - 1) /\ c \in DOMAIN mem /\ c % size = c
    BY <2>1, <2>3
  <2>5. mem[c] = <<"single", c>>
    BY <2>1, <2>4, TableKnown DEF TableComplete, Table!TableComplete, Table!Single
  <2>6. Table!FloatAt(c) = c
    BY <2>4, <2>5 DEF Table!FloatAt, Table!HasFloat
  <2> QED
    BY <2>4, <2>6
<1> QED
  BY <1>1, <1>2

-----------------------------------------------------------------------------
(* The theorems.                                                           *)

\* What the parts know of each other is an inductive invariant.
THEOREM PlanInductive ==
    ASSUME SizesKnown
    PROVE  PlanSpec => []JoinInv
<1>1. PlanInit => JoinInv
  BY InitJoin
<1>2. JoinInv /\ [PlanNext]_planVars => JoinInv'
  BY JoinStep
<1> QED
  BY <1>1, <1>2, PTL DEF PlanSpec

\* Whoever asks, for whatever angle of whatever circle: the table entry, the remainder
\* and the three flags that ffts_cexp_32f64f computes stand for that angle, exactly.
THEOREM PlanAngleExact ==
    ASSUME SizesKnown
    PROVE  PlanSpec => []AngleExact
<1>1. JoinInv => AngleExact
  BY ExactThen DEF JoinInv
<1> QED
  BY PlanInductive, <1>1, PTL

\* Its entry is always one of the table's, the remainder within half a step of it.
THEOREM PlanInTable ==
    ASSUME SizesKnown
    PROVE  PlanSpec => []InTable
<1>1. JoinInv => InTable
  BY ExactThen DEF JoinInv
<1> QED
  BY PlanInductive, <1>1, PTL

\* For all table sizes no step leaves the table (ffts_trig.c:426-719).
THEOREM PlanTableInBounds ==
    ASSUME SizesKnown
    PROVE  PlanSpec => []TableInBounds
<1>1. JoinInv => TableInBounds
  BY TableKnown
<1> QED
  BY PlanInductive, <1>1, PTL

\* For all table sizes, whenever a table is finished it is right (ffts_trig.c:426-719).
THEOREM PlanTableComplete ==
    ASSUME SizesKnown
    PROVE  PlanSpec => []TableComplete
<1>1. JoinInv => TableComplete
  BY TableKnown
<1> QED
  BY PlanInductive, <1>1, PTL

\* To its plan the system is what ChirpZProofs is about.
LEMMA Joined ==
    ASSUME SizesKnown
    PROVE  PlanSpec => Plan!ChirpSpec
<1>1. PlanInit => Plan!Init
  BY DEF PlanInit, Chirp!Init, Plan!Init
<1>2. JoinInv /\ [PlanNext]_planVars => [Plan!ChirpNext]_(Plan!vars)
  BY PlanStep
<1>3. JoinInv => Plan!TableRight
  BY TableIsRight
<1> QED
  BY <1>1, <1>2, <1>3, PlanInductive, PTL DEF PlanSpec, Plan!ChirpSpec

\* For all table sizes the plans that are made of the tables compute Fourier transforms
\* (ffts_chirp_z.c:59-225).
THEOREM PlansConvolve ==
    ASSUME SizesKnown
    PROVE  PlanSpec => []Convolves
<1>1. Plan!ChirpSpec => []Plan!Convolves
  BY Plan!ChirpConvolves
<1>2. Plan!Convolves => Convolves
  BY DEF Convolves, Plan!Convolves, Chirp!Convolves, Plan!Zero, Chirp!Zero
<1> QED
  BY <1>1, <1>2, Joined, PTL

\* And nothing old gets into their transforms (ffts_chirp_z.c:122-162).
THEOREM PlansNoOldValues ==
    ASSUME SizesKnown
    PROVE  PlanSpec => []NoOldValues
<1>1. Plan!ChirpSpec => []Plan!NoOldValues
  BY Plan!ChirpNoOldValues
<1>2. Plan!NoOldValues => NoOldValues
  BY DEF NoOldValues, Plan!NoOldValues, Chirp!NoOldValues, Plan!Zero, Chirp!Zero,
     Plan!Old, Chirp!Old
<1> QED
  BY <1>1, <1>2, Joined, PTL
==============================================================================
