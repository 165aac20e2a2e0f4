-------------------------------- MODULE CosSin --------------------------------
(***************************************************************************)
(* ffts_generate_cosine_sine_32f (ffts_trig.c): cosines and sines of all   *)
(* angles of a full circle, for a table size that is no power of two, by   *)
(* repeated subvector scaling.                                             *)
(*                                                                         *)
(* The table has a cell for each pair of floats.  The values that others   *)
(* are computed from are pairs of doubles, kept in the same memory: tmp[k] *)
(* lies on the cells 2k and 2k+1, and is gone when one of them is written. *)
(* A value is named by its angle, the product of two values by the sum of  *)
(* their angles.                                                           *)
(***************************************************************************)
EXTENDS Integers

VARIABLES
    size,       \* table_size
    pc,         \* which loop
    i, j, k, len,
    mem,        \* the cells of the table
    touched     \* cells read or written in the last step

locals == <<i, j, k, len>>
vars == <<size, pc, locals, mem, touched>>

Multiple == IF size % 4 = 0 THEN "four" ELSE IF size % 2 = 0 THEN "two" ELSE "odd"

\* What a cell holds: a pair of floats, the first or the second half of a pair of
\* doubles, or nothing that was written.
Single(a) == <<"single", a % size>>
Nothing == <<"nothing", 0>>

\* A pair of doubles is written to tmp[t], a pair of floats to table[t].
Double(t, a) ==
    [c \in {2*t, 2*t + 1} |-> IF c = 2*t THEN <<"first", a % size>> ELSE <<"second", a % size>>]
Float(t, a) == [c \in {t} |-> Single(a)]

\* Two writes of a step, the later one first.
Both(later, earlier) ==
    [c \in DOMAIN later \cup DOMAIN earlier |->
        IF c \in DOMAIN later THEN later[c] ELSE earlier[c]]

Store(writes) ==
    mem' = [c \in DOMAIN mem |-> IF c \in DOMAIN writes THEN writes[c] ELSE mem[c]]

\* tmp[t] and table[t] are there to be read.
HasDouble(t) ==
    /\ {2*t, 2*t + 1} \subseteq DOMAIN mem
    /\ \E a \in 0..(size - 1) : mem[2*t] = <<"first", a>> /\ mem[2*t + 1] = <<"second", a>>
HasFloat(t) == t \in DOMAIN mem /\ mem[t][1] = "single"

\* The angle that is read; where there is none, a wrong one.
DoubleAt(t) == IF HasDouble(t) THEN mem[2*t][2] ELSE 0
FloatAt(t) == IF HasFloat(t) THEN mem[t][2] ELSE 0

\* A step reads some pairs of doubles and of floats and writes some cells.
Access(doubles, floats, writes) ==
    /\ Store(writes)
    /\ touched' = DOMAIN writes \cup floats \cup UNION {{2*t, 2*t + 1} : t \in doubles}

NoAccess == UNCHANGED mem /\ touched' = {}

Goto(label) == pc' = label

\* No table is made.
NoTable ==
    /\ size = 0 /\ pc = "none"
    /\ i = 0 /\ j = 0 /\ k = 0 /\ len = 0
    /\ mem = <<>>
    /\ touched = {}

\* The function is called for a table of so many angles.
Begin(tableSize) ==
    /\ size = tableSize
    /\ pc = IF Multiple = "odd" THEN "oddDouble" ELSE "double"
    /\ i = 0 /\ j = 1 /\ k = 0
    /\ len = IF Multiple = "four" THEN size \div 4 ELSE size \div 2
    /\ mem = [c \in 0..(size - 1) |-> Nothing]
    /\ touched = {}

-----------------------------------------------------------------------------
(* Even sizes: a quarter or a half of the table in double precision.       *)

\* The half is reflected as the quarter is.
Reflected_quarter(a) == size \div 4 - a

\* cosine and sine exchanged, or the cosine's sign changed.
Reflected(a) == (IF Multiple = "four" THEN size \div 4 ELSE size \div 2) - a

\* Each pass doubles what is known at both ends of tmp.
Doubling ==
    /\ pc = "double"
    /\ 4 * j <= len
    /\ Access({}, {}, Both(Double(len - j, Reflected(j)), Double(j, j)))
    /\ i' = 1
    /\ Goto("doubleInner")
    /\ UNCHANGED <<size, j, k, len>>

DoublingInner ==
    /\ pc = "doubleInner"
    /\ i < j
    /\ LET zz == j + DoubleAt(i)
       IN Access({i}, {}, Both(Double(len - j - i, Reflected(zz)), Double(j + i, zz)))
    /\ i' = i + 1
    /\ UNCHANGED <<size, pc, j, k, len>>

\* The distance stays as it is.
DoublingNext_same ==
    /\ pc = "doubleInner"
    /\ i >= j
    /\ Goto("double")
    /\ NoAccess
    /\ UNCHANGED <<size, i, j, k, len>>

DoublingNext ==
    /\ pc = "doubleInner"
    /\ i >= j
    /\ j' = 2 * j
    /\ Goto("double")
    /\ NoAccess
    /\ UNCHANGED <<size, i, k, len>>

DoublingEnds ==
    /\ pc = "double"
    /\ 4 * j > len
    /\ k' = 2 * j
    /\ Goto("rest")
    /\ NoAccess
    /\ UNCHANGED <<size, i, j, len>>

\* What the gap between the two ends still lacks is counted in k.  A jump out of the
\* loop is taken when nothing lacks.
Rest ==
    /\ pc = "rest"
    /\ k <= len
    /\ IF k = len
       THEN /\ Access({}, {}, Double(j, j))
            /\ k' = k + 1
            /\ i' = 1
            /\ Goto("convert")
       ELSE /\ Access({}, {}, Both(Double(len - j, Reflected(j)), Double(j, j)))
            /\ k' = k + 2
            /\ i' = 1
            /\ Goto(IF k + 1 = len THEN "convert" ELSE "restInner")
    /\ UNCHANGED <<size, j, len>>

\* The inner loop is left when nothing lacks, and the outer one goes on from there.
RestInner ==
    /\ pc = "restInner"
    /\ i < j
    /\ LET zz == j + DoubleAt(i)
       IN IF k = len
          THEN /\ Access({i}, {}, Double(j + i, zz))
               /\ k' = k + 1
               /\ Goto("restNext")
          ELSE /\ Access({i}, {}, Both(Double(len - j - i, Reflected(zz)), Double(j + i, zz)))
               /\ k' = k + 2
               /\ Goto(IF k + 1 = len THEN "restNext" ELSE "restInner")
    /\ i' = i + 1
    /\ UNCHANGED <<size, j, len>>

RestNext ==
    /\ pc = "restNext" \/ (pc = "restInner" /\ i >= j)
    /\ j' = 2 * j
    /\ Goto("rest")
    /\ NoAccess
    /\ UNCHANGED <<size, i, k, len>>

RestEnds ==
    /\ pc = "rest"
    /\ k > len
    /\ i' = 1
    /\ Goto("convert")
    /\ NoAccess
    /\ UNCHANGED <<size, j, k, len>>

\* The constant at the end is converted too.
Convert_toLen ==
    /\ pc = "convert"
    /\ i <= len
    /\ Access({i}, {}, Float(i, DoubleAt(i)))
    /\ i' = i + 1
    /\ UNCHANGED <<size, pc, j, k, len>>

\* Doubles are replaced by floats in place, from the start of the table.
Convert ==
    /\ pc = "convert"
    /\ i < len
    /\ Access({i}, {}, Float(i, DoubleAt(i)))
    /\ i' = i + 1
    /\ UNCHANGED <<size, pc, j, k, len>>

\* The angle at the end is a constant.
ConvertEnds ==
    /\ pc = "convert"
    /\ i >= len
    /\ Access({}, {}, Float(len, Reflected(0)))
    /\ i' = 1
    /\ IF Multiple = "four"
       THEN Goto("quarter") /\ UNCHANGED len
       ELSE Goto("mirror") /\ len' = size \div 2
    /\ UNCHANGED <<size, j, k>>

\* The second quarter: what the first one is, turned by a quarter.
Quarter ==
    /\ pc = "quarter"
    /\ i <= len
    /\ Access({}, {i}, Float(len + i, FloatAt(i) + size \div 4))
    /\ i' = i + 1
    /\ UNCHANGED <<size, pc, j, k, len>>

QuarterEnds ==
    /\ pc = "quarter"
    /\ i > len
    /\ i' = 1
    /\ len' = size \div 2
    /\ Goto("mirror")
    /\ NoAccess
    /\ UNCHANGED <<size, j, k>>

\* The lower half is duplicated to the higher one, with the sine's sign changed.
Mirror ==
    /\ pc = "mirror"
    /\ i < len
    /\ Access({}, {i}, Float(size - i, -FloatAt(i)))
    /\ i' = i + 1
    /\ UNCHANGED <<size, pc, j, k, len>>

MirrorEnds ==
    /\ pc = "mirror"
    /\ i >= len
    /\ Goto("exit")
    /\ NoAccess
    /\ UNCHANGED <<size, locals>>

-----------------------------------------------------------------------------
(* Odd sizes: an eighth of the table in doubles at its start, and what is  *)
(* made of it in floats, from the end towards the middle.                  *)

OddDoubling ==
    /\ pc = "oddDouble"
    /\ 8 * j < size
    /\ Access({}, {}, Both(Float(size - j, -j), Double(j, j)))
    /\ i' = 1
    /\ Goto("oddInner")
    /\ UNCHANGED <<size, j, k, len>>

OddDoublingInner ==
    /\ pc = "oddInner"
    /\ i < j
    /\ LET zz == j + DoubleAt(i)
       IN Access({i}, {}, Both(Float(size - i - j, -zz), Double(i + j, zz)))
    /\ i' = i + 1
    /\ UNCHANGED <<size, pc, j, k, len>>

OddDoublingNext ==
    /\ pc = "oddInner"
    /\ i >= j
    /\ j' = 2 * j
    /\ Goto("oddDouble")
    /\ NoAccess
    /\ UNCHANGED <<size, i, k, len>>

\* How many angles each of the loops that follow has to fill.
OddDoublingEnds ==
    LET half == (size + 1) \div 2
        wide == half - 2 * j > j
    IN /\ pc = "oddDouble"
       /\ 8 * j >= size
       /\ k' = 2 * j
       /\ i' = 1
       /\ len' = IF wide THEN half - 3 * j ELSE half - 2 * j
       /\ LET two == Both(Float(size - 2 * j, -(2 * j)), Float(size - j, -j))
          IN Access({}, {}, IF wide THEN Both(Float(size - 3 * j, -(3 * j)), two) ELSE two)
       /\ Goto(IF wide THEN "three" ELSE "two")
       /\ UNCHANGED <<size, j>>

\* j + i, k + i and k + j + i
OddThree ==
    /\ pc = "three"
    /\ i < len
    /\ LET a == DoubleAt(i)
       IN Access({i}, {}, Both(Float(size - i - k - j, -(k + j + a)),
                               Both(Float(size - i - k, -(k + a)), Float(size - i - j, -(j + a)))))
    /\ i' = i + 1
    /\ UNCHANGED <<size, pc, j, k, len>>

OddThreeEnds ==
    /\ pc = "three"
    /\ i >= len
    /\ len' = j
    /\ Goto("two")
    /\ NoAccess
    /\ UNCHANGED <<size, i, j, k>>

\* j + i and k + i
OddTwo ==
    /\ pc = "two"
    /\ i < len
    /\ LET a == DoubleAt(i)
       IN Access({i}, {}, Both(Float(size - i - k, -(k + a)), Float(size - i - j, -(j + a))))
    /\ i' = i + 1
    /\ UNCHANGED <<size, pc, j, k, len>>

OddTwoEnds ==
    /\ pc = "two"
    /\ i >= len
    /\ Goto("one")
    /\ NoAccess
    /\ UNCHANGED <<size, locals>>

\* j + i
OddOne ==
    /\ pc = "one"
    /\ i < j
    /\ Access({i}, {}, Float(size - i - j, -(j + DoubleAt(i))))
    /\ i' = i + 1
    /\ UNCHANGED <<size, pc, j, k, len>>

OddOneEnds ==
    /\ pc = "one"
    /\ i >= j
    /\ i' = 1
    /\ len' = size \div 2
    /\ Goto("lower")
    /\ NoAccess
    /\ UNCHANGED <<size, j, k>>

\* The higher half is duplicated to the lower one, over the doubles.
Lower ==
    /\ pc = "lower"
    /\ i <= len
    /\ Access({}, {size - i}, Float(i, -FloatAt(size - i)))
    /\ i' = i + 1
    /\ UNCHANGED <<size, pc, j, k, len>>

LowerEnds ==
    /\ pc = "lower"
    /\ i > len
    /\ Goto("exit")
    /\ NoAccess
    /\ UNCHANGED <<size, locals>>

-----------------------------------------------------------------------------
\* cos(0) and sin(0), last because tmp[0] was never written.
Exit ==
    /\ pc = "exit"
    /\ Access({}, {}, Float(0, 0))
    /\ Goto("done")
    /\ UNCHANGED <<size, locals>>

Next ==
    \/ Doubling \/ DoublingInner \/ DoublingNext \/ DoublingEnds
    \/ Rest \/ RestInner \/ RestNext \/ RestEnds
    \/ Convert \/ ConvertEnds
    \/ Quarter \/ QuarterEnds
    \/ Mirror \/ MirrorEnds
    \/ OddDoubling \/ OddDoublingInner \/ OddDoublingNext \/ OddDoublingEnds
    \/ OddThree \/ OddThreeEnds \/ OddTwo \/ OddTwoEnds \/ OddOne \/ OddOneEnds
    \/ Lower \/ LowerEnds
    \/ Exit

\* The angles of which the next step needs cosine and sine, from ffts_cexp_32f64f.
Wanted ==
    CASE pc = "double" /\ 4 * j <= len -> {j}
      [] pc = "rest" /\ k <= len -> {j}
      [] pc = "oddDouble" -> IF 8 * j < size THEN {j} ELSE {j, 2 * j}
      [] OTHER -> {}

-----------------------------------------------------------------------------
(* Properties.                                                             *)

\* In the end every cell holds the cosine and sine of its own angle.
TableComplete == pc = "done" => \A c \in 0..(size - 1) : mem[c] = Single(c)

\* No step leaves the table, although doubles take two cells each.
InTable == touched \subseteq 0..(size - 1)
==============================================================================
