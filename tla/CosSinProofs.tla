----------------------------- MODULE CosSinProofs -----------------------------
(***************************************************************************)
(* The table of ffts_generate_cosine_sine_32f is right for every size.     *)
(*                                                                         *)
(* The inductive invariant says, for each loop, which pairs of doubles are *)
(* there (a stretch at the start and one at the end of tmp, or what is not *)
(* converted yet) and which cells have their floats.  The stretches meet   *)
(* because a distance is doubled until four of it do not fit, and because  *)
(* k counts what is known at both ends.                                    *)
(***************************************************************************)
EXTENDS CosSin, TLAPS

\* A table is made for two angles or more; a behaviour may also make none.
CosSinInit == NoTable \/ (size \in Nat /\ size >= 2 /\ Begin(size))
CosSinSpec == CosSinInit /\ [][Next]_vars

-----------------------------------------------------------------------------
(* The inductive invariant.                                                *)

\* tmp[t] and table[c] hold their own angles.
D(t) == mem[2*t] = <<"first", t>> /\ mem[2*t + 1] = <<"second", t>>
F(c) == mem[c] = <<"single", c>>

\* tmp[1..n], and tmp[n..len-1].
Front(n) == \A t \in 1..n : D(t)
Back(n) == \A t \in n..(len - 1) : D(t)

\* table[m..n], and the same counted from the end of the table.
Floats(m, n) == \A c \in m..n : F(c)
Ends(m, n) == \A c \in m..n : F(size - c)

half == (size + 1) \div 2

\* The part of the table that is kept in doubles.
Part == (size % 4 = 0 /\ size = 4 * len) \/ (size % 4 # 0 /\ size = 2 * len)

EvenLoops == {"double", "doubleInner", "rest", "restInner", "restNext", "convert", "quarter"}
OddLoops == {"oddDouble", "oddInner", "three", "two", "one", "lower"}

InDouble ==
    /\ j >= 1 /\ (j = 1 \/ 2 * j <= len)
    /\ Front(j - 1) /\ Back(len - j + 1)

InDoubleInner ==
    /\ 4 * j <= len
    /\ 1 <= i /\ i <= j
    /\ Front(j + i - 1) /\ Back(len - j - i + 1)

InRest ==
    \/ k = 2 * j /\ 4 * j > len /\ InDouble
    \/ k > len /\ Front(len - 1)

InRestInner ==
    /\ 4 * j > len /\ k = 2 * (j + i) /\ k <= len
    /\ 1 <= i
    /\ Front(j + i - 1) /\ Back(len - j - i + 1)

InConvert ==
    /\ 1 <= i /\ i <= len
    /\ Floats(1, i - 1) /\ Back(i)

InQuarter ==
    /\ 1 <= i /\ i <= len + 1
    /\ Floats(1, len + i - 1)

InMirror ==
    /\ size = 2 * len
    /\ 1 <= i /\ i <= len
    /\ Floats(1, len) /\ Ends(1, i - 1)

InOddDouble ==
    /\ j >= 1 /\ (j = 1 \/ 4 * j < size)
    /\ Front(j - 1) /\ Ends(1, j - 1)

InOddInner ==
    /\ 8 * j < size
    /\ 1 <= i /\ i <= j
    /\ Front(j + i - 1) /\ Ends(1, j + i - 1)

\* In the loops that make floats of doubles.
OddEighth ==
    /\ j >= 1 /\ (j = 1 \/ 4 * j < size) /\ size <= 8 * j
    /\ k = 2 * j
    /\ 1 <= i /\ i <= j
    /\ Front(j - 1) /\ Ends(1, j + i - 1)

InThree ==
    /\ OddEighth
    /\ len = half - 3 * j /\ i <= len
    /\ Ends(k, k + i - 1) /\ Ends(3 * j, 3 * j + i - 1)

InTwo ==
    /\ OddEighth
    /\ Ends(k, k + i - 1)
    /\ \/ len = j /\ half > 3 * j /\ Ends(3 * j, half - 1)
       \/ len = half - k /\ len <= j /\ (i <= len \/ (len = 0 /\ i = 1))

InOne == OddEighth /\ Ends(k, half - 1)

InLower ==
    /\ 1 <= i /\ i <= len + 1
    /\ Ends(1, len) /\ Floats(1, i - 1)

Known ==
    /\ pc = "double" => InDouble
    /\ pc = "doubleInner" => InDoubleInner
    /\ pc = "rest" => InRest
    /\ pc = "restInner" => InRestInner
    /\ pc = "restNext" => k > len /\ Front(len - 1)
    /\ pc = "convert" => InConvert
    /\ pc = "quarter" => InQuarter /\ size = 4 * len
    /\ pc = "mirror" => InMirror
    /\ pc = "oddDouble" => InOddDouble
    /\ pc = "oddInner" => InOddInner
    /\ pc = "three" => InThree
    /\ pc = "two" => InTwo
    /\ pc = "one" => InOne
    /\ pc = "lower" => InLower /\ size = 2 * len + 1
    /\ pc = "exit" => Floats(1, size - 1)
    /\ pc = "done" => Floats(0, size - 1)

Numbers == i \in Nat /\ j \in Nat /\ k \in Nat /\ len \in Nat

Cells == mem = [c \in 0..(size - 1) |-> mem[c]]

Sized == size \in Nat /\ size >= 2

Working ==
    /\ Sized /\ Numbers
    /\ pc \in EvenLoops \cup OddLoops \cup {"mirror", "exit", "done"}
    /\ pc \in EvenLoops => len >= 1 /\ Part
    /\ pc \in OddLoops => size % 2 = 1
    /\ Cells
    /\ InTable
    /\ Known

CosSinInv == NoTable \/ Working

-----------------------------------------------------------------------------
(* Angles, and what a step reads and writes.                               *)

\* An angle of less than a circle is its own remainder.
LEMMA OwnAngle ==
    ASSUME Sized, NEW a \in Nat, a < size
    PROVE  a % size = a
  BY Z3 DEF Sized

\* A negative one is counted from the end of the circle.
LEMMA NegativeAngle ==
    ASSUME Sized, NEW a \in Nat, 1 <= a, a < size
    PROVE  (-a) % size = size - a
<1>1. (-a) = size * ((-a) \div size) + ((-a) % size) /\ (-a) % size \in Nat /\ (-a) % size < size
  BY Z3 DEF Sized
<1> DEFINE q == (-a) \div size
           r == (-a) % size
<1>2. q \in Int /\ r \in Nat /\ r < size /\ -a = size * q + r
  BY <1>1, Z3 DEF Sized
<1> HIDE DEF q, r
<1>3. q = -1
  <2>1. CASE q >= 0
    <3>1. size * q \in Int /\ size * q >= 0
      BY <1>2, <2>1, Z3 DEF Sized
    <3> DEFINE p == size * q
    <3> HIDE DEF p
    <3>2. p \in Int /\ p >= 0 /\ -a = p + r
      BY <1>2, <3>1 DEF p
    <3> QED
      BY <1>2, <3>2
  <2>2. CASE q <= -2
    <3>1. size * q \in Int /\ size * q <= -(2 * size)
      BY <1>2, <2>2, Z3 DEF Sized
    <3> DEFINE p == size * q
    <3> HIDE DEF p
    <3>2. p \in Int /\ p <= -(2 * size) /\ -a = p + r
      BY <1>2, <3>1 DEF p
    <3> QED
      BY <1>2, <3>2 DEF Sized
  <2> QED
    BY <1>2, <2>1, <2>2
<1> QED
  BY <1>2, <1>3 DEF r, Sized

\* What is read where an angle is known.
LEMMA ReadDouble ==
    ASSUME Sized, Cells, NEW t \in Nat, 2 * t + 1 < size, D(t)
    PROVE  DoubleAt(t) = t
<1>1. DOMAIN mem = 0..(size - 1) /\ t \in 0..(size - 1) /\ {2*t, 2*t + 1} \subseteq 0..(size - 1)
  BY DEF Cells, Sized
<1>2. HasDouble(t)
  BY <1>1 DEF HasDouble, D
<1> QED
  BY <1>2 DEF DoubleAt, D

LEMMA ReadFloat ==
    ASSUME Sized, Cells, NEW c \in Nat, c < size, F(c)
    PROVE  FloatAt(c) = c
<1>1. c \in DOMAIN mem
  BY DEF Cells, Sized
<1> QED
  BY <1>1 DEF FloatAt, HasFloat, F

\* A store changes the cells that are written.
LEMMA Stored ==
    ASSUME Sized, Cells, size' = size, NEW W, Store(W)
    PROVE  /\ Cells'
           /\ \A c \in Nat : c < size => mem'[c] = IF c \in DOMAIN W THEN W[c] ELSE mem[c]
<1>1. DOMAIN mem = 0..(size - 1)
  BY DEF Cells
<1>2. mem' = [c \in 0..(size - 1) |-> IF c \in DOMAIN W THEN W[c] ELSE mem[c]]
  BY <1>1 DEF Store
<1>3. \A c \in Nat : c < size => c \in 0..(size - 1)
  BY DEF Sized
<1> QED
  BY <1>2, <1>3 DEF Cells

LEMMA OneDouble ==
    ASSUME Sized, Cells, size' = size,
           NEW t \in Nat, 2 * t + 1 < size, Store(Double(t, t))
    PROVE  /\ Cells'
           /\ \A v \in Nat : 2 * v + 1 < size /\ (D(v) \/ v = t) => D(v)'
<1> DEFINE W == Double(t, t)
<1>1. DOMAIN W = {2*t, 2*t + 1} /\ W[2*t] = <<"first", t>> /\ W[2*t + 1] = <<"second", t>>
  BY OwnAngle DEF Double, Sized
<1> HIDE DEF W
<1>2. Cells' /\ \A c \in Nat : c < size => mem'[c] = IF c \in DOMAIN W THEN W[c] ELSE mem[c]
  BY Stored DEF W
<1> QED
  BY <1>1, <1>2 DEF D, Sized

LEMMA TwoDoubles ==
    ASSUME Sized, Cells, size' = size,
           NEW t \in Nat, 2 * t + 1 < size, NEW u \in Nat, 2 * u + 1 < size,
           Store(Both(Double(u, u), Double(t, t)))
    PROVE  /\ Cells'
           /\ \A v \in Nat : 2 * v + 1 < size /\ (D(v) \/ v = t \/ v = u) => D(v)'
<1> DEFINE T == Double(t, t)
           U == Double(u, u)
           W == Both(U, T)
<1>1. DOMAIN T = {2*t, 2*t + 1} /\ T[2*t] = <<"first", t>> /\ T[2*t + 1] = <<"second", t>>
  BY OwnAngle DEF Double, Sized
<1>2. DOMAIN U = {2*u, 2*u + 1} /\ U[2*u] = <<"first", u>> /\ U[2*u + 1] = <<"second", u>>
  BY OwnAngle DEF Double, Sized
<1> HIDE DEF T, U
<1>3. /\ DOMAIN W = {2*t, 2*t + 1, 2*u, 2*u + 1}
      /\ \A c \in DOMAIN W : W[c] = IF c \in DOMAIN U THEN U[c] ELSE T[c]
  BY <1>1, <1>2 DEF Both
<1>4. W[2*t] = <<"first", t>> /\ W[2*t + 1] = <<"second", t>>
  <2>1. CASE t = u
    BY <1>1, <1>2, <1>3, <2>1
  <2>2. CASE t # u
    <3>1. 2*t \notin DOMAIN U /\ 2*t + 1 \notin DOMAIN U
      BY <1>2, <2>2
    <3> QED
      BY <1>1, <1>3, <3>1
  <2> QED
    BY <2>1, <2>2
<1>5. W[2*u] = <<"first", u>> /\ W[2*u + 1] = <<"second", u>>
  BY <1>2, <1>3
<1> HIDE DEF W
<1>6. Cells' /\ \A c \in Nat : c < size => mem'[c] = IF c \in DOMAIN W THEN W[c] ELSE mem[c]
  BY Stored DEF W, T, U
<1>7. ASSUME NEW v \in Nat, 2 * v + 1 < size, D(v) \/ v = t \/ v = u PROVE D(v)'
  <2>1. CASE v = t
    BY <1>3, <1>4, <1>6, <1>7, <2>1 DEF D, Sized
  <2>2. CASE v = u
    BY <1>3, <1>5, <1>6, <1>7, <2>2 DEF D, Sized
  <2>3. CASE v # t /\ v # u
    <3>1. 2*v \notin DOMAIN W /\ 2*v + 1 \notin DOMAIN W
      BY <1>3, <2>3
    <3> QED
      BY <1>6, <1>7, <2>3, <3>1 DEF D, Sized
  <2> QED
    BY <2>1, <2>2, <2>3
<1> QED
  BY <1>6, <1>7

LEMMA OneFloat ==
    ASSUME Sized, Cells, size' = size,
           NEW c \in Nat, c < size, NEW a \in Int, a % size = c, Store(Float(c, a))
    PROVE  /\ Cells'
           /\ \A d \in Nat : d < size /\ (F(d) \/ d = c) => F(d)'
           /\ \A v \in Nat : 2 * v + 1 < size /\ (2 * v + 1 < c \/ c < 2 * v) /\ D(v) => D(v)'
<1> DEFINE W == Float(c, a)
<1>1. DOMAIN W = {c} /\ W[c] = <<"single", c>>
  BY DEF Float, Single
<1> HIDE DEF W
<1>2. Cells' /\ \A d \in Nat : d < size => mem'[d] = IF d \in DOMAIN W THEN W[d] ELSE mem[d]
  BY Stored DEF W
<1> QED
  BY <1>1, <1>2 DEF D, F, Sized

\* An angle and its float at the other end.
LEMMA FloatAndDouble ==
    ASSUME Sized, Cells, size' = size,
           NEW t \in Nat, 1 <= t, 3 * t + 1 < size,
           Store(Both(Float(size - t, -t), Double(t, t)))
    PROVE  /\ Cells'
           /\ \A d \in Nat : 2 * t + 1 < d /\ d < size /\ (F(d) \/ d = size - t) => F(d)'
           /\ \A v \in Nat : 2 * v + 1 < size - t /\ (D(v) \/ v = t) => D(v)'
<1> DEFINE T == Double(t, t)
           U == Float(size - t, -t)
           W == Both(U, T)
<1>1. DOMAIN T = {2*t, 2*t + 1} /\ T[2*t] = <<"first", t>> /\ T[2*t + 1] = <<"second", t>>
  BY OwnAngle DEF Double, Sized
<1>2. DOMAIN U = {size - t} /\ U[size - t] = <<"single", size - t>>
  BY NegativeAngle DEF Float, Single, Sized
<1> HIDE DEF T, U
<1>3. /\ DOMAIN W = {2*t, 2*t + 1, size - t}
      /\ \A c \in DOMAIN W : W[c] = IF c \in DOMAIN U THEN U[c] ELSE T[c]
  BY <1>1, <1>2 DEF Both
<1>4. /\ W[2*t] = <<"first", t>> /\ W[2*t + 1] = <<"second", t>>
      /\ W[size - t] = <<"single", size - t>>
  BY <1>1, <1>2, <1>3 DEF Sized
<1> HIDE DEF W
<1>5. Cells' /\ \A d \in Nat : d < size => mem'[d] = IF d \in DOMAIN W THEN W[d] ELSE mem[d]
  BY Stored DEF W, T, U
<1> QED
  BY <1>3, <1>4, <1>5 DEF D, F, Sized

\* Floats for two and for three angles, counted from the end.
LEMMA TwoFloats ==
    ASSUME Sized, Cells, size' = size,
           NEW a \in Nat, NEW b \in Nat, 1 <= a, a < size, 1 <= b, b < size,
           Store(Both(Float(size - b, -b), Float(size - a, -a)))
    PROVE  /\ Cells'
           /\ \A d \in Nat : d < size /\ (F(d) \/ d \in {size - a, size - b}) => F(d)'
           /\ \A v \in Nat : 2 * v + 1 < size - a /\ 2 * v + 1 < size - b /\ D(v) => D(v)'
<1> DEFINE U == Float(size - a, -a)
           V == Float(size - b, -b)
           W == Both(V, U)
<1>1. DOMAIN U = {size - a} /\ U[size - a] = <<"single", size - a>>
  BY NegativeAngle DEF Float, Single, Sized
<1>2. DOMAIN V = {size - b} /\ V[size - b] = <<"single", size - b>>
  BY NegativeAngle DEF Float, Single, Sized
<1> HIDE DEF U, V
<1>3. DOMAIN W = {size - a, size - b} /\ \A c \in DOMAIN W : W[c] = <<"single", c>>
  BY <1>1, <1>2 DEF Both
<1> HIDE DEF W
<1>4. Cells' /\ \A d \in Nat : d < size => mem'[d] = IF d \in DOMAIN W THEN W[d] ELSE mem[d]
  BY Stored DEF W, U, V
<1> QED
  BY <1>3, <1>4 DEF D, F, Sized

LEMMA ThreeFloats ==
    ASSUME Sized, Cells, size' = size,
           NEW a \in Nat, NEW b \in Nat, NEW e \in Nat,
           1 <= a, a < size, 1 <= b, b < size, 1 <= e, e < size,
           Store(Both(Float(size - e, -e), Both(Float(size - b, -b), Float(size - a, -a))))
    PROVE  /\ Cells'
           /\ \A d \in Nat : d < size /\ (F(d) \/ d \in {size - a, size - b, size - e}) => F(d)'
           /\ \A v \in Nat : /\ 2 * v + 1 < size - a /\ 2 * v + 1 < size - b /\ 2 * v + 1 < size - e
                             /\ D(v)
                             => D(v)'
<1> DEFINE U == Float(size - a, -a)
           V == Float(size - b, -b)
           X == Float(size - e, -e)
           W == Both(X, Both(V, U))
<1>1. DOMAIN U = {size - a} /\ U[size - a] = <<"single", size - a>>
  BY NegativeAngle DEF Float, Single, Sized
<1>2. DOMAIN V = {size - b} /\ V[size - b] = <<"single", size - b>>
  BY NegativeAngle DEF Float, Single, Sized
<1>3. DOMAIN X = {size - e} /\ X[size - e] = <<"single", size - e>>
  BY NegativeAngle DEF Float, Single, Sized
<1> HIDE DEF U, V, X
<1>4. DOMAIN W = {size - a, size - b, size - e} /\ \A c \in DOMAIN W : W[c] = <<"single", c>>
  BY <1>1, <1>2, <1>3 DEF Both
<1> HIDE DEF W
<1>5. Cells' /\ \A d \in Nat : d < size => mem'[d] = IF d \in DOMAIN W THEN W[d] ELSE mem[d]
  BY Stored DEF W, U, V, X
<1> QED
  BY <1>4, <1>5 DEF D, F, Sized

\* A step that reads and writes inside the table stays in it.
LEMMA Accessed ==
    ASSUME Sized, size' = size, NEW W, DOMAIN W \subseteq 0..(size - 1),
           \/ Access({}, {}, W)
           \/ \E c \in 0..(size - 1) : Access({}, {c}, W)
           \/ \E t \in Nat : 2 * t + 1 < size /\ Access({t}, {}, W)
    PROVE  Store(W) /\ InTable'
<1>1. CASE Access({}, {}, W)
  BY <1>1 DEF Access, InTable
<1>2. CASE \E c \in 0..(size - 1) : Access({}, {c}, W)
  BY <1>2 DEF Access, InTable
<1>3. CASE \E t \in Nat : 2 * t + 1 < size /\ Access({t}, {}, W)
  <2>1. PICK t \in Nat : 2 * t + 1 < size /\ Access({t}, {}, W)
    BY <1>3
  <2>2. touched' = DOMAIN W \cup {2 * t, 2 * t + 1}
    BY <2>1 DEF Access
  <2>3. {2 * t, 2 * t + 1} \subseteq 0..(size - 1)
    BY <2>1 DEF Sized
  <2> QED
    BY <2>1, <2>2, <2>3 DEF Access, InTable
<1> QED
  BY <1>1, <1>2, <1>3

\* A step that only counts.
LEMMA NotAccessed ==
    ASSUME Working, size' = size, NoAccess
    PROVE  Cells' /\ InTable' /\ mem' = mem /\ Sized'
  BY DEF Working, NoAccess, Cells, InTable, Sized

-----------------------------------------------------------------------------
(* The actions, for even sizes.                                            *)

\* What is reflected is counted from the end of the part.
LEMMA Reflection ==
    ASSUME Sized, len \in Nat, Part, NEW a
    PROVE  Reflected(a) = len - a /\ size >= 2 * len
<1>1. CASE size % 4 = 0 /\ size = 4 * len
  <2>1. size \div 4 = len
    BY <1>1, Z3
  <2> QED
    BY <1>1, <2>1 DEF Reflected, Multiple
<1>2. CASE size % 4 # 0 /\ size = 2 * len
  <2>1. size \div 2 = len
    BY <1>2, Z3
  <2> QED
    BY <1>2, <2>1 DEF Reflected, Multiple
<1> QED
  BY <1>1, <1>2 DEF Part

LEMMA DoublingKept ==
    ASSUME Working, Doubling
    PROVE  Working'
<1>1. /\ Sized /\ Numbers /\ Cells /\ Part /\ 4 * j <= len
      /\ j >= 1 /\ Front(j - 1) /\ Back(len - j + 1)
  BY DEF Working, Doubling, EvenLoops, Known, InDouble
<1>2. /\ size' = size /\ len' = len /\ j' = j /\ k' = k /\ i' = 1 /\ pc' = "doubleInner"
      /\ Access({}, {}, Both(Double(len - j, Reflected(j)), Double(j, j)))
  BY DEF Doubling, Goto
<1>3. len - j \in Nat /\ 2 * (len - j) + 1 < size /\ 2 * j + 1 < size /\ Reflected(j) = len - j
  BY <1>1, Reflection DEF Numbers, Sized
<1>4. Store(Both(Double(len - j, len - j), Double(j, j))) /\ InTable'
  <2> DEFINE W == Both(Double(len - j, len - j), Double(j, j))
  <2>1. DOMAIN W \subseteq 0..(size - 1)
    BY <1>1, <1>3 DEF Double, Both, Numbers, Sized
  <2>2. Access({}, {}, W)
    BY <1>2, <1>3
  <2> QED
    BY <1>1, <1>2, <2>1, <2>2, Accessed
<1>5. /\ Cells'
      /\ \A v \in Nat : 2 * v + 1 < size /\ (D(v) \/ v = j \/ v = len - j) => D(v)'
  BY <1>1, <1>2, <1>3, <1>4, TwoDoubles DEF Numbers
<1>6. \A t \in 1..j : D(t)'
  BY <1>1, <1>3, <1>5 DEF Front, Numbers, Sized
<1>7. \A t \in (len - j)..(len - 1) : D(t)'
  BY <1>1, <1>3, <1>5, Reflection DEF Back, Numbers, Sized
<1>8. InDoubleInner'
  BY <1>1, <1>2, <1>6, <1>7 DEF InDoubleInner, Front, Back, Numbers
<1> QED
  BY <1>1, <1>2, <1>4, <1>5, <1>8 DEF Working, Sized, Numbers, EvenLoops, OddLoops, Part, Known

LEMMA DoublingInnerKept ==
    ASSUME Working, DoublingInner
    PROVE  Working'
<1>1. /\ Sized /\ Numbers /\ Cells /\ Part /\ 4 * j <= len /\ 1 <= i /\ i < j
      /\ Front(j + i - 1) /\ Back(len - j - i + 1)
  BY DEF Working, DoublingInner, EvenLoops, Known, InDoubleInner
<1>2. D(i) /\ 2 * i + 1 < size /\ 2 * (j + i) + 1 < size /\ 2 * (len - j - i) + 1 < size
  BY <1>1, Reflection DEF Front, Numbers, Sized
<1>3. DoubleAt(i) = i
  BY <1>1, <1>2, ReadDouble DEF Numbers
<1>4. Reflected(j + i) = len - j - i
  BY <1>1, Reflection DEF Numbers
<1>5. /\ size' = size /\ len' = len /\ j' = j /\ k' = k /\ i' = i + 1 /\ pc' = "doubleInner"
      /\ Access({i}, {}, Both(Double(len - j - i, len - j - i), Double(j + i, j + i)))
  BY <1>1, <1>3, <1>4 DEF DoublingInner, Numbers
<1>6. Store(Both(Double(len - j - i, len - j - i), Double(j + i, j + i))) /\ InTable'
  <2> DEFINE W == Both(Double(len - j - i, len - j - i), Double(j + i, j + i))
  <2>1. DOMAIN W \subseteq 0..(size - 1)
    BY <1>1, <1>2 DEF Double, Both, Numbers, Sized
  <2>2. Access({i}, {}, W)
    BY <1>5
  <2> QED
    BY <1>1, <1>2, <1>5, <2>1, <2>2, Accessed DEF Numbers
<1>7. /\ Cells'
      /\ \A v \in Nat : 2 * v + 1 < size /\ (D(v) \/ v = j + i \/ v = len - j - i) => D(v)'
  BY <1>1, <1>2, <1>5, <1>6, TwoDoubles DEF Numbers
<1>8. \A t \in 1..(j + i) : D(t)'
  BY <1>1, <1>2, <1>7 DEF Front, Numbers, Sized
<1>9. \A t \in (len - j - i)..(len - 1) : D(t)'
  BY <1>1, <1>2, <1>7, Reflection DEF Back, Numbers, Sized
<1>10. InDoubleInner'
  BY <1>1, <1>5, <1>8, <1>9 DEF InDoubleInner, Front, Back, Numbers
<1> QED
  BY <1>1, <1>5, <1>6, <1>7, <1>10 DEF Working, Sized, Numbers, EvenLoops, OddLoops, Part, Known

LEMMA DoublingNextKept ==
    ASSUME Working, DoublingNext
    PROVE  Working'
<1>1. /\ Sized /\ Numbers /\ Cells /\ Part /\ 4 * j <= len /\ 1 <= i /\ i = j
      /\ Front(2 * j - 1) /\ Back(len - 2 * j + 1)
  BY DEF Working, DoublingNext, EvenLoops, Known, InDoubleInner, Numbers
<1>2. size' = size /\ len' = len /\ j' = 2 * j /\ k' = k /\ i' = i /\ pc' = "double"
  BY DEF DoublingNext, Goto
<1>3. Cells' /\ InTable' /\ mem' = mem
  BY NotAccessed, <1>2 DEF DoublingNext
<1>4. Front(j - 1)' /\ Back(len - j + 1)'
  BY <1>1, <1>2, <1>3 DEF Front, Back, D
<1>5. InDouble'
  BY <1>1, <1>2, <1>4 DEF InDouble, Numbers
<1> QED
  BY <1>1, <1>2, <1>3, <1>5 DEF Working, Sized, Numbers, EvenLoops, OddLoops, Part, Known

LEMMA DoublingEndsKept ==
    ASSUME Working, DoublingEnds
    PROVE  Working'
<1>1. Sized /\ Numbers /\ Cells /\ Part /\ 4 * j > len /\ InDouble
  BY DEF Working, DoublingEnds, EvenLoops, Known
<1>2. size' = size /\ len' = len /\ j' = j /\ k' = 2 * j /\ i' = i /\ pc' = "rest"
  BY DEF DoublingEnds, Goto
<1>3. Cells' /\ InTable' /\ mem' = mem
  BY NotAccessed, <1>2 DEF DoublingEnds
<1>4. InRest'
  BY <1>1, <1>2, <1>3 DEF InRest, InDouble, Front, Back, D, Numbers
<1> QED
  BY <1>1, <1>2, <1>3, <1>4 DEF Working, Sized, Numbers, EvenLoops, OddLoops, Part, Known

\* The first angle of the last pass: the two ends may meet in it.
LEMMA RestKept ==
    ASSUME Working, Rest
    PROVE  Working'
<1>1. /\ Sized /\ Numbers /\ Cells /\ Part /\ len >= 1
      /\ k = 2 * j /\ k <= len /\ 4 * j > len /\ j >= 1
      /\ Front(j - 1) /\ Back(len - j + 1)
  BY DEF Working, Rest, EvenLoops, Known, InRest, InDouble, Numbers
<1>2. size' = size /\ len' = len /\ j' = j /\ i' = 1
  BY DEF Rest
<1>3. len - j \in Nat /\ 2 * (len - j) + 1 < size /\ 2 * j + 1 < size /\ Reflected(j) = len - j
  BY <1>1, Reflection DEF Numbers, Sized
<1>4. CASE k = len
  <2>1. Access({}, {}, Double(j, j)) /\ k' = k + 1 /\ pc' = "convert"
    BY <1>4 DEF Rest, Goto
  <2>2. DOMAIN Double(j, j) \subseteq 0..(size - 1)
    BY <1>1, <1>3 DEF Double, Numbers, Sized
  <2>3. Store(Double(j, j)) /\ InTable'
    BY <1>1, <1>2, <2>1, <2>2, Accessed
  <2>4. Cells' /\ \A v \in Nat : 2 * v + 1 < size /\ (D(v) \/ v = j) => D(v)'
    BY <1>1, <1>2, <1>3, <2>3, OneDouble DEF Numbers
  <2>5. \A t \in 1..(len - 1) : D(t)'
    <3> TAKE t \in 1..(len - 1)
    <3>1. t \in Nat /\ 2 * t + 1 < size
      BY <1>1, Reflection DEF Numbers, Sized
    <3>2. D(t) \/ t = j
      BY <1>1, <1>4 DEF Front, Back, Numbers
    <3> QED
      BY <2>4, <3>1, <3>2
  <2>6. InConvert'
    BY <1>1, <1>2, <2>5 DEF InConvert, Floats, Back, Numbers
  <2> QED
    BY <1>1, <1>2, <2>1, <2>3, <2>4, <2>6
      DEF Working, Sized, Numbers, EvenLoops, OddLoops, Part, Known
<1>5. CASE k # len
  <2> DEFINE W == Both(Double(len - j, len - j), Double(j, j))
  <2>1. /\ Access({}, {}, W) /\ k' = k + 2
        /\ pc' = IF k + 1 = len THEN "convert" ELSE "restInner"
    BY <1>3, <1>5 DEF Rest, Goto
  <2>2. DOMAIN W \subseteq 0..(size - 1)
    BY <1>1, <1>3 DEF Double, Both, Numbers, Sized
  <2>3. Store(W) /\ InTable'
    BY <1>1, <1>2, <2>1, <2>2, Accessed
  <2>4. /\ Cells'
        /\ \A v \in Nat : 2 * v + 1 < size /\ (D(v) \/ v = j \/ v = len - j) => D(v)'
    BY <1>1, <1>2, <1>3, <2>3, TwoDoubles DEF Numbers
  <2>5. \A t \in 1..j : D(t)'
    BY <1>1, <1>3, <2>4 DEF Front, Numbers, Sized
  <2>6. \A t \in (len - j)..(len - 1) : D(t)'
    BY <1>1, <1>3, <2>4, Reflection DEF Back, Numbers, Sized
  <2>7. CASE k + 1 = len
    <3>1. \A t \in 1..(len - 1) : D(t)'
      BY <1>1, <2>5, <2>6, <2>7 DEF Numbers
    <3>2. InConvert'
      BY <1>1, <1>2, <3>1 DEF InConvert, Floats, Back, Numbers
    <3>3. pc' = "convert"
      BY <2>1, <2>7
    <3> QED
      BY <1>1, <1>2, <2>1, <2>3, <2>4, <3>2, <3>3
        DEF Working, Sized, Numbers, EvenLoops, OddLoops, Part, Known
  <2>8. CASE k + 1 # len
    <3>1. InRestInner'
      BY <1>1, <1>2, <1>5, <2>1, <2>5, <2>6, <2>8 DEF InRestInner, Front, Back, Numbers
    <3>2. pc' = "restInner"
      BY <2>1, <2>8
    <3> QED
      BY <1>1, <1>2, <2>1, <2>3, <2>4, <3>1, <3>2
        DEF Working, Sized, Numbers, EvenLoops, OddLoops, Part, Known
  <2> QED
    BY <2>7, <2>8
<1> QED
  BY <1>4, <1>5

LEMMA RestInnerKept ==
    ASSUME Working, RestInner
    PROVE  Working'
<1>1. /\ Sized /\ Numbers /\ Cells /\ Part /\ len >= 1
      /\ k = 2 * (j + i) /\ k <= len /\ 4 * j > len /\ 1 <= i /\ i < j
      /\ Front(j + i - 1) /\ Back(len - j - i + 1)
  BY DEF Working, RestInner, EvenLoops, Known, InRestInner
<1>2. size' = size /\ len' = len /\ j' = j /\ i' = i + 1
  BY DEF RestInner
<1>3. /\ len - j - i \in Nat /\ 2 * (len - j - i) + 1 < size /\ 2 * (j + i) + 1 < size
      /\ 2 * i + 1 < size /\ D(i)
  BY <1>1, Reflection DEF Front, Numbers, Sized
<1>4. DoubleAt(i) = i /\ Reflected(j + i) = len - j - i
  BY <1>1, <1>3, ReadDouble, Reflection DEF Numbers
<1>5. CASE k = len
  <2> DEFINE W == Double(j + i, j + i)
  <2>1. Access({i}, {}, W) /\ k' = k + 1 /\ pc' = "restNext"
    BY <1>4, <1>5 DEF RestInner, Goto
  <2>2. DOMAIN W \subseteq 0..(size - 1)
    BY <1>1, <1>3 DEF Double, Numbers, Sized
  <2>3. Store(W) /\ InTable'
    BY <1>1, <1>2, <1>3, <2>1, <2>2, Accessed DEF Numbers
  <2>4. Cells' /\ \A v \in Nat : 2 * v + 1 < size /\ (D(v) \/ v = j + i) => D(v)'
    BY <1>1, <1>2, <1>3, <2>3, OneDouble DEF Numbers
  <2>5. \A t \in 1..(len - 1) : D(t)'
    <3> TAKE t \in 1..(len - 1)
    <3>1. t \in Nat /\ 2 * t + 1 < size
      BY <1>1, Reflection DEF Numbers, Sized
    <3>2. D(t) \/ t = j + i
      BY <1>1, <1>5 DEF Front, Back, Numbers
    <3> QED
      BY <2>4, <3>1, <3>2
  <2>6. k' > len' /\ Front(len - 1)'
    BY <1>1, <1>2, <1>5, <2>1, <2>5 DEF Front, Numbers
  <2> QED
    BY <1>1, <1>2, <2>1, <2>3, <2>4, <2>6
      DEF Working, Sized, Numbers, EvenLoops, OddLoops, Part, Known
<1>6. CASE k # len
  <2> DEFINE W == Both(Double(len - j - i, len - j - i), Double(j + i, j + i))
  <2>1. /\ Access({i}, {}, W) /\ k' = k + 2
        /\ pc' = IF k + 1 = len THEN "restNext" ELSE "restInner"
    BY <1>4, <1>6 DEF RestInner, Goto
  <2>2. DOMAIN W \subseteq 0..(size - 1)
    BY <1>1, <1>3 DEF Double, Both, Numbers, Sized
  <2>3. Store(W) /\ InTable'
    BY <1>1, <1>2, <1>3, <2>1, <2>2, Accessed DEF Numbers
  <2>4. /\ Cells'
        /\ \A v \in Nat : 2 * v + 1 < size /\ (D(v) \/ v = j + i \/ v = len - j - i) => D(v)'
    BY <1>1, <1>2, <1>3, <2>3, TwoDoubles DEF Numbers
  <2>5. \A t \in 1..(j + i) : D(t)'
    BY <1>1, <1>3, <2>4 DEF Front, Numbers, Sized
  <2>6. \A t \in (len - j - i)..(len - 1) : D(t)'
    BY <1>1, <1>3, <2>4, Reflection DEF Back, Numbers, Sized
  <2>7. CASE k + 1 = len
    <3>1. k' > len' /\ Front(len - 1)'
      BY <1>1, <1>2, <2>1, <2>5, <2>6, <2>7 DEF Front, Numbers
    <3>2. pc' = "restNext"
      BY <2>1, <2>7
    <3> QED
      BY <1>1, <1>2, <2>1, <2>3, <2>4, <3>1, <3>2
        DEF Working, Sized, Numbers, EvenLoops, OddLoops, Part, Known
  <2>8. CASE k + 1 # len
    <3>1. InRestInner'
      BY <1>1, <1>2, <1>6, <2>1, <2>5, <2>6, <2>8 DEF InRestInner, Front, Back, Numbers
    <3>2. pc' = "restInner"
      BY <2>1, <2>8
    <3> QED
      BY <1>1, <1>2, <2>1, <2>3, <2>4, <3>1, <3>2
        DEF Working, Sized, Numbers, EvenLoops, OddLoops, Part, Known
  <2> QED
    BY <2>7, <2>8
<1> QED
  BY <1>5, <1>6

\* The inner loop never runs out of angles before the two ends meet.
LEMMA RestNextKept ==
    ASSUME Working, RestNext
    PROVE  Working'
<1>1. Sized /\ Numbers /\ Cells /\ Part /\ len >= 1
  BY DEF Working, RestNext, EvenLoops
<1>2. k > len /\ Front(len - 1)
  <2>1. CASE pc = "restNext"
    BY <2>1 DEF Working, Known
  <2>2. CASE pc = "restInner" /\ i >= j
    BY <1>1, <2>2 DEF Working, Known, InRestInner, Numbers
  <2> QED
    BY <2>1, <2>2 DEF RestNext
<1>3. size' = size /\ len' = len /\ j' = 2 * j /\ k' = k /\ i' = i /\ pc' = "rest"
  BY DEF RestNext, Goto
<1>4. Cells' /\ InTable' /\ mem' = mem
  BY NotAccessed, <1>3 DEF RestNext
<1>5. InRest'
  BY <1>1, <1>2, <1>3, <1>4 DEF InRest, Front, D
<1> QED
  BY <1>1, <1>3, <1>4, <1>5 DEF Working, Sized, Numbers, EvenLoops, OddLoops, Part, Known

LEMMA RestEndsKept ==
    ASSUME Working, RestEnds
    PROVE  Working'
<1>1. Sized /\ Numbers /\ Cells /\ Part /\ len >= 1 /\ k > len /\ InRest
  BY DEF Working, RestEnds, EvenLoops, Known
<1>2. Front(len - 1)
  BY <1>1 DEF InRest, InDouble, Front, Numbers
<1>3. size' = size /\ len' = len /\ j' = j /\ k' = k /\ i' = 1 /\ pc' = "convert"
  BY DEF RestEnds, Goto
<1>4. Cells' /\ InTable' /\ mem' = mem
  BY NotAccessed, <1>3 DEF RestEnds
<1>5. \A t \in 1..(len - 1) : D(t)'
  BY <1>2, <1>4 DEF Front, D
<1>6. InConvert'
  BY <1>1, <1>3, <1>5 DEF InConvert, Floats, Back, Numbers
<1> QED
  BY <1>1, <1>3, <1>4, <1>6 DEF Working, Sized, Numbers, EvenLoops, OddLoops, Part, Known

\* A float is written over the first cell of a pair that is not needed any more.
LEMMA ConvertKept ==
    ASSUME Working, Convert
    PROVE  Working'
<1>1. /\ Sized /\ Numbers /\ Cells /\ Part /\ len >= 1
      /\ 1 <= i /\ i < len /\ Floats(1, i - 1) /\ Back(i)
  BY DEF Working, Convert, EvenLoops, Known, InConvert
<1>2. D(i) /\ 2 * i + 1 < size /\ i < size
  BY <1>1, Reflection DEF Back, Numbers, Sized
<1>3. DoubleAt(i) = i
  BY <1>1, <1>2, ReadDouble DEF Numbers
<1>4. /\ size' = size /\ len' = len /\ j' = j /\ k' = k /\ i' = i + 1 /\ pc' = "convert"
      /\ Access({i}, {}, Float(i, i))
  BY <1>3 DEF Convert
<1>5. DOMAIN Float(i, i) \subseteq 0..(size - 1)
  BY <1>1, <1>2 DEF Float, Numbers, Sized
<1>6. Store(Float(i, i)) /\ InTable'
  BY <1>1, <1>2, <1>4, <1>5, Accessed DEF Numbers
<1>7. i % size = i
  BY <1>1, <1>2, OwnAngle DEF Numbers
<1>8. /\ Cells'
      /\ \A d \in Nat : d < size /\ (F(d) \/ d = i) => F(d)'
      /\ \A v \in Nat : 2 * v + 1 < size /\ (2 * v + 1 < i \/ i < 2 * v) /\ D(v) => D(v)'
  BY <1>1, <1>2, <1>4, <1>6, <1>7, OneFloat DEF Numbers
<1>9. \A c \in 1..i : F(c)'
  BY <1>1, <1>2, <1>8 DEF Floats, Numbers, Sized
<1>10. \A t \in (i + 1)..(len - 1) : D(t)'
  <2> TAKE t \in (i + 1)..(len - 1)
  <2>1. t \in Nat /\ 2 * t + 1 < size /\ i < 2 * t /\ D(t)
    BY <1>1, Reflection DEF Back, Numbers, Sized
  <2> QED
    BY <1>8, <2>1
<1>11. InConvert'
  BY <1>1, <1>4, <1>9, <1>10 DEF InConvert, Floats, Back, Numbers
<1> QED
  BY <1>1, <1>4, <1>6, <1>8, <1>11
    DEF Working, Sized, Numbers, EvenLoops, OddLoops, Part, Known

\* The angle at the end of the part is the reflection of none.
LEMMA ConvertEndsKept ==
    ASSUME Working, ConvertEnds
    PROVE  Working'
<1>1. Sized /\ Numbers /\ Cells /\ Part /\ len >= 1 /\ i = len /\ Floats(1, len - 1)
  BY DEF Working, ConvertEnds, EvenLoops, Known, InConvert, Numbers
<1>2. size' = size /\ j' = j /\ k' = k /\ i' = 1
  BY DEF ConvertEnds
<1>3. Reflected(0) = len /\ size >= 2 * len /\ len < size
  BY <1>1, Reflection DEF Numbers, Sized
<1>4. Access({}, {}, Float(len, len))
  BY <1>3 DEF ConvertEnds
<1>5. DOMAIN Float(len, len) \subseteq 0..(size - 1)
  BY <1>1, <1>3 DEF Float, Numbers, Sized
<1>6. Store(Float(len, len)) /\ InTable'
  BY <1>1, <1>2, <1>4, <1>5, Accessed
<1>7. len % size = len
  BY <1>1, <1>3, OwnAngle DEF Numbers
<1>8. Cells' /\ \A d \in Nat : d < size /\ (F(d) \/ d = len) => F(d)'
  BY <1>1, <1>2, <1>3, <1>6, <1>7, OneFloat DEF Numbers
<1>9. \A c \in 1..len : F(c)'
  BY <1>1, <1>3, <1>8 DEF Floats, Numbers, Sized
<1>10. CASE size % 4 = 0 /\ size = 4 * len
  <2>1. pc' = "quarter" /\ len' = len
    BY <1>10 DEF ConvertEnds, Multiple, Goto
  <2>2. InQuarter'
    BY <1>1, <1>2, <1>9, <2>1 DEF InQuarter, Floats, Numbers
  <2> QED
    BY <1>1, <1>2, <1>6, <1>8, <1>10, <2>1, <2>2
      DEF Working, Sized, Numbers, EvenLoops, OddLoops, Part, Known
<1>11. CASE size % 4 # 0 /\ size = 2 * len
  <2>1. size \div 2 = len /\ size % 2 = 0
    BY <1>1, <1>11, Z3 DEF Sized, Numbers
  <2>2. pc' = "mirror" /\ len' = len
    BY <1>11, <2>1 DEF ConvertEnds, Multiple, Goto
  <2>3. InMirror'
    BY <1>1, <1>2, <1>9, <1>11, <2>2 DEF InMirror, Floats, Ends, Numbers
  <2> QED
    BY <1>1, <1>2, <1>6, <1>8, <2>2, <2>3
      DEF Working, Sized, Numbers, EvenLoops, OddLoops, Known
<1> QED
  BY <1>1, <1>10, <1>11 DEF Part

\* The second quarter is the first one, a quarter on.
LEMMA QuarterKept ==
    ASSUME Working, Quarter
    PROVE  Working'
<1>1. /\ Sized /\ Numbers /\ Cells /\ len >= 1 /\ Part /\ size = 4 * len
      /\ 1 <= i /\ i <= len /\ Floats(1, len + i - 1)
  BY DEF Working, Quarter, EvenLoops, Known, InQuarter
<1>2. F(i) /\ i < size /\ size \div 4 = len /\ len + i < size
  BY <1>1, Z3 DEF Floats, Numbers, Sized
<1>3. FloatAt(i) = i
  BY <1>1, <1>2, ReadFloat DEF Numbers
<1>4. i + len = len + i
  BY <1>1 DEF Numbers
<1>5. /\ size' = size /\ len' = len /\ j' = j /\ k' = k /\ i' = i + 1 /\ pc' = "quarter"
      /\ Access({}, {i}, Float(len + i, len + i))
  BY <1>2, <1>3, <1>4 DEF Quarter
<1>6. DOMAIN Float(len + i, len + i) \subseteq 0..(size - 1) /\ i \in 0..(size - 1)
  BY <1>1, <1>2 DEF Float, Numbers, Sized
<1>7. Store(Float(len + i, len + i)) /\ InTable'
  BY <1>1, <1>5, <1>6, Accessed
<1>8. (len + i) % size = len + i
  BY <1>1, <1>2, OwnAngle DEF Numbers
<1>9. Cells' /\ \A d \in Nat : d < size /\ (F(d) \/ d = len + i) => F(d)'
  BY <1>1, <1>2, <1>5, <1>7, <1>8, OneFloat DEF Numbers
<1>10. \A c \in 1..(len + i) : F(c)'
  BY <1>1, <1>2, <1>9 DEF Floats, Numbers, Sized
<1>11. InQuarter'
  BY <1>1, <1>5, <1>10 DEF InQuarter, Floats, Numbers
<1> QED
  BY <1>1, <1>5, <1>7, <1>9, <1>11
    DEF Working, Sized, Numbers, EvenLoops, OddLoops, Part, Known

LEMMA QuarterEndsKept ==
    ASSUME Working, QuarterEnds
    PROVE  Working'
<1>1. /\ Sized /\ Numbers /\ Cells /\ len >= 1 /\ size = 4 * len
      /\ Floats(1, 2 * len)
  <2>1. Numbers /\ i = len + 1 /\ Floats(1, len + i - 1) /\ size = 4 * len
    BY DEF Working, QuarterEnds, EvenLoops, Known, InQuarter, Numbers
  <2>2. len + i - 1 = 2 * len
    BY <2>1 DEF Numbers
  <2> QED
    BY <2>1, <2>2 DEF Working, QuarterEnds, EvenLoops
<1>2. size \div 2 = 2 * len
  BY <1>1, Z3 DEF Sized, Numbers
<1>3. size' = size /\ len' = 2 * len /\ j' = j /\ k' = k /\ i' = 1 /\ pc' = "mirror"
  BY <1>2 DEF QuarterEnds, Goto
<1>4. Cells' /\ InTable' /\ mem' = mem
  BY NotAccessed, <1>3 DEF QuarterEnds
<1>5. InMirror'
  BY <1>1, <1>3, <1>4 DEF InMirror, Floats, Ends, F, Numbers
<1> QED
  BY <1>1, <1>3, <1>4, <1>5 DEF Working, Sized, Numbers, EvenLoops, OddLoops, Known

\* The lower half is mirrored onto the higher one.
LEMMA MirrorKept ==
    ASSUME Working, Mirror
    PROVE  Working'
<1>1. /\ Sized /\ Numbers /\ Cells /\ size = 2 * len
      /\ 1 <= i /\ i < len /\ Floats(1, len) /\ Ends(1, i - 1)
  BY DEF Working, Mirror, Known, InMirror
<1>2. F(i) /\ i < size /\ size - i \in Nat /\ size - i < size
  BY <1>1 DEF Floats, Numbers, Sized
<1>3. FloatAt(i) = i
  BY <1>1, <1>2, ReadFloat DEF Numbers
<1>4. /\ size' = size /\ len' = len /\ j' = j /\ k' = k /\ i' = i + 1 /\ pc' = "mirror"
      /\ Access({}, {i}, Float(size - i, -i))
  BY <1>3 DEF Mirror
<1>5. DOMAIN Float(size - i, -i) \subseteq 0..(size - 1) /\ i \in 0..(size - 1)
  BY <1>1, <1>2 DEF Float, Numbers, Sized
<1>6. Store(Float(size - i, -i)) /\ InTable'
  BY <1>1, <1>4, <1>5, Accessed
<1>7. (-i) % size = size - i /\ -i \in Int
  BY <1>1, <1>2, NegativeAngle DEF Numbers
<1>8. Cells' /\ \A d \in Nat : d < size /\ (F(d) \/ d = size - i) => F(d)'
  BY <1>1, <1>2, <1>4, <1>6, <1>7, OneFloat DEF Numbers
<1>9. \A c \in 1..len : F(c)'
  BY <1>1, <1>8 DEF Floats, Numbers, Sized
<1>10. \A c \in 1..i : F(size - c)'
  <2> TAKE c \in 1..i
  <2>1. size - c \in Nat /\ size - c < size /\ (F(size - c) \/ size - c = size - i)
    BY <1>1 DEF Ends, Numbers, Sized
  <2> QED
    BY <1>8, <2>1, <1>4 DEF F
<1>11. InMirror'
  BY <1>1, <1>4, <1>9, <1>10 DEF InMirror, Floats, Ends, Numbers
<1> QED
  BY <1>1, <1>4, <1>6, <1>8, <1>11
    DEF Working, Sized, Numbers, EvenLoops, OddLoops, Known

LEMMA MirrorEndsKept ==
    ASSUME Working, MirrorEnds
    PROVE  Working'
<1>1. /\ Sized /\ Numbers /\ Cells /\ size = 2 * len
      /\ i = len /\ Floats(1, len) /\ Ends(1, len - 1)
  BY DEF Working, MirrorEnds, Known, InMirror, Numbers
<1>2. size' = size /\ len' = len /\ j' = j /\ k' = k /\ i' = i /\ pc' = "exit"
  BY DEF MirrorEnds, Goto, locals
<1>3. Cells' /\ InTable' /\ mem' = mem
  BY NotAccessed, <1>2 DEF MirrorEnds
<1>4. Floats(1, size - 1)
  <2> SUFFICES ASSUME NEW c \in 1..(size - 1) PROVE F(c)
    BY DEF Floats
  <2>1. CASE c <= len
    BY <1>1, <2>1 DEF Floats, Numbers, Sized
  <2>2. CASE c > len
    <3>1. size - c \in 1..(len - 1) /\ size - (size - c) = c
      BY <1>1, <2>2 DEF Numbers, Sized
    <3> QED
      BY <1>1, <3>1 DEF Ends
  <2> QED
    BY <1>1, <2>1, <2>2 DEF Numbers, Sized
<1>5. Floats(1, size - 1)'
  BY <1>2, <1>3, <1>4 DEF Floats, F
<1> QED
  BY <1>1, <1>2, <1>3, <1>5 DEF Working, Sized, Numbers, EvenLoops, OddLoops, Known

\* The first cell is the last one.
LEMMA ExitKept ==
    ASSUME Working, Exit
    PROVE  Working'
<1>1. Sized /\ Numbers /\ Cells /\ Floats(1, size - 1)
  BY DEF Working, Exit, Known
<1>2. /\ size' = size /\ len' = len /\ j' = j /\ k' = k /\ i' = i /\ pc' = "done"
      /\ Access({}, {}, Float(0, 0))
  BY DEF Exit, Goto, locals
<1>3. DOMAIN Float(0, 0) \subseteq 0..(size - 1) /\ 0 < size
  BY <1>1 DEF Float, Sized
<1>4. Store(Float(0, 0)) /\ InTable'
  BY <1>1, <1>2, <1>3, Accessed
<1>5. 0 % size = 0
  BY <1>1, <1>3, OwnAngle
<1>6. Cells' /\ \A d \in Nat : d < size /\ (F(d) \/ d = 0) => F(d)'
  BY <1>1, <1>2, <1>3, <1>4, <1>5, OneFloat
<1>7. \A c \in 0..(size - 1) : F(c)'
  BY <1>1, <1>6 DEF Floats, Sized
<1>8. Floats(0, size - 1)'
  BY <1>2, <1>7 DEF Floats
<1> QED
  BY <1>1, <1>2, <1>4, <1>6, <1>8 DEF Working, Sized, Numbers, EvenLoops, OddLoops, Known

-----------------------------------------------------------------------------
(* The actions, for odd sizes.                                             *)

LEMMA OddDoublingKept ==
    ASSUME Working, OddDoubling
    PROVE  Working'
<1>1. /\ Sized /\ Numbers /\ Cells /\ size % 2 = 1 /\ 8 * j < size /\ j >= 1
      /\ Front(j - 1) /\ Ends(1, j - 1)
  BY DEF Working, OddDoubling, OddLoops, Known, InOddDouble
<1>2. /\ size' = size /\ len' = len /\ j' = j /\ k' = k /\ i' = 1 /\ pc' = "oddInner"
      /\ Access({}, {}, Both(Float(size - j, -j), Double(j, j)))
  BY DEF OddDoubling, Goto
<1>3. 3 * j + 1 < size
  BY <1>1 DEF Numbers, Sized
<1>4. Store(Both(Float(size - j, -j), Double(j, j))) /\ InTable'
  <2> DEFINE W == Both(Float(size - j, -j), Double(j, j))
  <2>1. DOMAIN W \subseteq 0..(size - 1)
    BY <1>1, <1>3 DEF Double, Float, Both, Numbers, Sized
  <2> QED
    BY <1>1, <1>2, <2>1, Accessed
<1>5. /\ Cells'
      /\ \A d \in Nat : 2 * j + 1 < d /\ d < size /\ (F(d) \/ d = size - j) => F(d)'
      /\ \A v \in Nat : 2 * v + 1 < size - j /\ (D(v) \/ v = j) => D(v)'
  BY <1>1, <1>2, <1>3, <1>4, FloatAndDouble DEF Numbers
<1>6. \A t \in 1..j : D(t)'
  BY <1>1, <1>5 DEF Front, Numbers, Sized
<1>7. \A c \in 1..j : F(size - c)'
  <2> TAKE c \in 1..j
  <2>1. /\ size - c \in Nat /\ 2 * j + 1 < size - c /\ size - c < size
        /\ F(size - c) \/ size - c = size - j
    BY <1>1 DEF Ends, Numbers, Sized
  <2> QED
    BY <1>5, <2>1, <1>2 DEF F
<1>8. InOddInner'
  BY <1>1, <1>2, <1>6, <1>7 DEF InOddInner, Front, Ends, Numbers
<1> QED
  BY <1>1, <1>2, <1>4, <1>5, <1>8 DEF Working, Sized, Numbers, EvenLoops, OddLoops, Known

LEMMA OddDoublingInnerKept ==
    ASSUME Working, OddDoublingInner
    PROVE  Working'
<1>1. /\ Sized /\ Numbers /\ Cells /\ size % 2 = 1 /\ 8 * j < size /\ 1 <= i /\ i < j
      /\ Front(j + i - 1) /\ Ends(1, j + i - 1)
  BY DEF Working, OddDoublingInner, OddLoops, Known, InOddInner
<1>2. D(i) /\ 2 * i + 1 < size
  BY <1>1 DEF Front, Numbers, Sized
<1>3. DoubleAt(i) = i
  BY <1>1, <1>2, ReadDouble DEF Numbers
<1> DEFINE a == j + i
<1>4. a \in Nat /\ 1 <= a /\ 4 * a < size /\ 3 * a + 1 < size
  BY <1>1 DEF Numbers, Sized
<1>5. i + j = a /\ size - i - j = size - a
  BY <1>1 DEF Numbers, Sized
<1>6. /\ size' = size /\ len' = len /\ j' = j /\ k' = k /\ i' = i + 1 /\ pc' = "oddInner"
      /\ Access({i}, {}, Both(Float(size - a, -a), Double(a, a)))
  BY <1>3, <1>5 DEF OddDoublingInner
<1>7. Front(a - 1) /\ Ends(1, a - 1)
  <2>1. a - 1 = j + i - 1
    BY <1>1 DEF Numbers
  <2> QED
    BY <1>1, <2>1
<1>8. i' + j' = a + 1 /\ j' + i' - 1 = a
  BY <1>1, <1>6 DEF Numbers
<1> HIDE DEF a
<1>9. Store(Both(Float(size - a, -a), Double(a, a))) /\ InTable'
  <2> DEFINE W == Both(Float(size - a, -a), Double(a, a))
  <2>1. DOMAIN W \subseteq 0..(size - 1)
    BY <1>1, <1>4 DEF Double, Float, Both, Sized
  <2> QED
    BY <1>1, <1>2, <1>6, <2>1, Accessed DEF Numbers
<1>10. /\ Cells'
       /\ \A d \in Nat : 2 * a + 1 < d /\ d < size /\ (F(d) \/ d = size - a) => F(d)'
       /\ \A v \in Nat : 2 * v + 1 < size - a /\ (D(v) \/ v = a) => D(v)'
  BY <1>1, <1>4, <1>6, <1>9, FloatAndDouble
<1>11. \A t \in 1..a : D(t)'
  BY <1>1, <1>4, <1>7, <1>10 DEF Front, Sized
<1>12. \A c \in 1..a : F(size - c)'
  <2> TAKE c \in 1..a
  <2>1. /\ size - c \in Nat /\ 2 * a + 1 < size - c /\ size - c < size
        /\ F(size - c) \/ size - c = size - a
    BY <1>1, <1>4, <1>7 DEF Ends, Sized
  <2> QED
    BY <1>10, <2>1, <1>6 DEF F
<1>13. Front(j + i - 1)' /\ Ends(1, j + i - 1)'
  BY <1>6, <1>8, <1>11, <1>12 DEF Front, Ends
<1>14. InOddInner'
  BY <1>1, <1>6, <1>13 DEF InOddInner, Numbers
<1> QED
  BY <1>1, <1>6, <1>9, <1>10, <1>14 DEF Working, Sized, Numbers, EvenLoops, OddLoops, Known

LEMMA OddDoublingNextKept ==
    ASSUME Working, OddDoublingNext
    PROVE  Working'
<1>1. /\ Sized /\ Numbers /\ Cells /\ size % 2 = 1 /\ 8 * j < size /\ 1 <= i /\ i = j
      /\ Front(j + i - 1) /\ Ends(1, j + i - 1)
  BY DEF Working, OddDoublingNext, OddLoops, Known, InOddInner, Numbers
<1>2. size' = size /\ len' = len /\ j' = 2 * j /\ k' = k /\ i' = i /\ pc' = "oddDouble"
  BY DEF OddDoublingNext, Goto
<1>3. Cells' /\ InTable' /\ mem' = mem
  BY NotAccessed, <1>2 DEF OddDoublingNext
<1>4. j' - 1 = j + i - 1 /\ j' \in Nat /\ j' >= 1 /\ 4 * j' < size
  BY <1>1, <1>2 DEF Numbers, Sized
<1>5. Front(j - 1)' /\ Ends(1, j - 1)'
  BY <1>1, <1>2, <1>3, <1>4 DEF Front, Ends, D, F
<1>6. InOddDouble'
  BY <1>2, <1>4, <1>5 DEF InOddDouble
<1> QED
  BY <1>1, <1>2, <1>3, <1>4, <1>6 DEF Working, Sized, Numbers, EvenLoops, OddLoops, Known

\* The half of an odd size.
LEMMA Half ==
    ASSUME Sized, size % 2 = 1
    PROVE  half \in Nat /\ size = 2 * half - 1 /\ size \div 2 = half - 1 /\ half >= 2
<1>1. size = 2 * (size \div 2) + 1 /\ size \div 2 \in Nat
  BY Z3 DEF Sized
<1> DEFINE q == size \div 2
<1>2. size = 2 * q + 1 /\ q \in Nat
  BY <1>1
<1>3. half = q + 1
  <2>1. size + 1 = 2 * (q + 1)
    BY <1>2
  <2> HIDE DEF q
  <2>2. (size + 1) \div 2 = q + 1
    BY <1>2, <2>1, Z3
  <2> QED
    BY <2>2 DEF half
<1> HIDE DEF q
<1>4. half \in Nat /\ size = 2 * half - 1 /\ q = half - 1 /\ half >= 2
  BY <1>2, <1>3 DEF Sized
<1> QED
  BY <1>4 DEF q

\* The first floats of the half, from the two or three angles that are known.
LEMMA OddDoublingEndsKept ==
    ASSUME Working, OddDoublingEnds
    PROVE  Working'
<1>1. /\ Sized /\ Numbers /\ Cells /\ size % 2 = 1 /\ 8 * j >= size
      /\ j >= 1 /\ (j = 1 \/ 4 * j < size)
      /\ Front(j - 1) /\ Ends(1, j - 1)
  BY DEF Working, OddDoublingEnds, OddLoops, Known, InOddDouble
<1>2. half \in Nat /\ size = 2 * half - 1 /\ half >= 2
  BY <1>1, Half
<1>3. size' = size /\ j' = j /\ k' = 2 * j /\ i' = 1
  BY DEF OddDoublingEnds
<1>4. half' = half
  BY <1>3 DEF half
<1>5. CASE half - 2 * j > j
  <2> DEFINE W == Both(Float(size - 3 * j, -(3 * j)),
                       Both(Float(size - 2 * j, -(2 * j)), Float(size - j, -j)))
  <2>1. len' = half - 3 * j /\ pc' = "three" /\ Access({}, {}, W)
    BY <1>5 DEF OddDoublingEnds, half, Goto
  <2>2. /\ 3 * j < half /\ half < size
        /\ 2 * j \in Nat /\ 3 * j \in Nat /\ 2 * j < size /\ 3 * j < size /\ j < size
    BY <1>1, <1>2, <1>5 DEF Numbers
  <2>3. DOMAIN W \subseteq 0..(size - 1)
    BY <1>1, <2>2 DEF Float, Both, Numbers, Sized
  <2>4. Store(W) /\ InTable'
    BY <1>1, <1>3, <2>1, <2>3, Accessed
  <2>5. /\ Cells'
        /\ \A d \in Nat : /\ d < size
                          /\ F(d) \/ d \in {size - j, size - 2 * j, size - 3 * j}
                          => F(d)'
        /\ \A v \in Nat : /\ 2 * v + 1 < size - j /\ 2 * v + 1 < size - 2 * j
                          /\ 2 * v + 1 < size - 3 * j /\ D(v)
                          => D(v)'
    BY <1>1, <1>3, <2>2, <2>4, ThreeFloats DEF Numbers
  <2>6. \A t \in 1..(j - 1) : D(t)'
    BY <1>1, <1>2, <2>2, <2>5 DEF Front, Numbers, Sized
  <2>7. \A c \in 1..j : F(size - c)'
    <3> TAKE c \in 1..j
    <3>1. size - c \in Nat /\ size - c < size /\ (F(size - c) \/ size - c = size - j)
      BY <1>1, <2>2 DEF Ends, Numbers, Sized
    <3> QED
      BY <2>5, <3>1, <1>3 DEF F
  <2>8. F(size - 2 * j)' /\ F(size - 3 * j)'
    BY <1>1, <1>3, <2>2, <2>5 DEF F, Numbers, Sized
  <2>9. OddEighth'
    BY <1>1, <1>3, <2>6, <2>7 DEF OddEighth, Front, Ends, Numbers
  <2>10. Ends(k, k + i - 1)' /\ Ends(3 * j, 3 * j + i - 1)'
    BY <1>1, <1>3, <2>8 DEF Ends, Numbers
  <2>11. InThree'
    BY <1>1, <1>2, <1>3, <1>4, <2>1, <2>2, <2>9, <2>10 DEF InThree, Numbers
  <2>12. Numbers'
    BY <1>1, <1>2, <1>3, <2>1, <2>2 DEF Numbers
  <2> QED
    BY <1>1, <1>3, <2>1, <2>4, <2>5, <2>11, <2>12
      DEF Working, Sized, EvenLoops, OddLoops, Known
<1>6. CASE ~(half - 2 * j > j)
  <2> DEFINE W == Both(Float(size - 2 * j, -(2 * j)), Float(size - j, -j))
  <2>1. len' = half - 2 * j /\ pc' = "two" /\ Access({}, {}, W)
    BY <1>6 DEF OddDoublingEnds, half, Goto
  <2>2. /\ 2 * j \in Nat /\ 2 * j <= half /\ 2 * j < size /\ j < size /\ half <= 3 * j
        /\ j = 1 \/ 2 * j < half
    BY <1>1, <1>2, <1>6 DEF Numbers
  <2>3. DOMAIN W \subseteq 0..(size - 1)
    BY <1>1, <2>2 DEF Float, Both, Numbers, Sized
  <2>4. Store(W) /\ InTable'
    BY <1>1, <1>3, <2>1, <2>3, Accessed
  <2>5. /\ Cells'
        /\ \A d \in Nat : d < size /\ (F(d) \/ d \in {size - j, size - 2 * j}) => F(d)'
        /\ \A v \in Nat : 2 * v + 1 < size - j /\ 2 * v + 1 < size - 2 * j /\ D(v) => D(v)'
    BY <1>1, <1>3, <2>2, <2>4, TwoFloats DEF Numbers
  <2>6. \A t \in 1..(j - 1) : D(t)'
    BY <1>1, <1>2, <2>2, <2>5 DEF Front, Numbers, Sized
  <2>7. \A c \in 1..j : F(size - c)'
    <3> TAKE c \in 1..j
    <3>1. size - c \in Nat /\ size - c < size /\ (F(size - c) \/ size - c = size - j)
      BY <1>1, <2>2 DEF Ends, Numbers, Sized
    <3> QED
      BY <2>5, <3>1, <1>3 DEF F
  <2>8. F(size - 2 * j)'
    BY <1>1, <1>3, <2>2, <2>5 DEF F, Numbers, Sized
  <2>9. OddEighth'
    BY <1>1, <1>3, <2>6, <2>7 DEF OddEighth, Front, Ends, Numbers
  <2>10. Ends(k, k + i - 1)'
    BY <1>1, <1>3, <2>8 DEF Ends, Numbers
  <2>11. InTwo'
    BY <1>1, <1>2, <1>3, <1>4, <2>1, <2>2, <2>9, <2>10 DEF InTwo, Numbers
  <2>12. Numbers'
    BY <1>1, <1>2, <1>3, <2>1, <2>2 DEF Numbers
  <2> QED
    BY <1>1, <1>3, <2>1, <2>4, <2>5, <2>11, <2>12
      DEF Working, Sized, EvenLoops, OddLoops, Known
<1> QED
  BY <1>5, <1>6

\* What the three loops know when they read an angle.
LEMMA EighthRead ==
    ASSUME Sized, Numbers, Cells, size % 2 = 1, OddEighth, i < j
    PROVE  /\ half \in Nat /\ size = 2 * half - 1 /\ half >= 2 /\ 2 * j < half
           /\ D(i) /\ 2 * i + 1 < size /\ DoubleAt(i) = i
<1>1. half \in Nat /\ size = 2 * half - 1 /\ half >= 2
  BY Half
<1>2. j >= 2 /\ 4 * j < size /\ 1 <= i /\ Front(j - 1)
  BY DEF OddEighth, Numbers
<1>3. 2 * j < half
  BY <1>1, <1>2 DEF Numbers
<1>4. D(i) /\ 2 * i + 1 < size
  BY <1>1, <1>2, <1>3 DEF Front, Numbers
<1> QED
  BY <1>1, <1>3, <1>4, ReadDouble DEF Numbers

LEMMA OddThreeKept ==
    ASSUME Working, OddThree
    PROVE  Working'
<1>1. /\ Sized /\ Numbers /\ Cells /\ size % 2 = 1
      /\ OddEighth /\ len = half - 3 * j /\ i < len
      /\ Ends(k, k + i - 1) /\ Ends(3 * j, 3 * j + i - 1)
  BY DEF Working, OddThree, OddLoops, Known, InThree
<1>2. /\ j >= 1 /\ k = 2 * j /\ 1 <= i /\ size <= 8 * j /\ (j = 1 \/ 4 * j < size)
      /\ Front(j - 1) /\ Ends(1, j + i - 1)
  BY <1>1 DEF OddEighth
<1>3. i < j
  BY <1>1, <1>2, Half DEF Numbers, Sized
<1>4. /\ half \in Nat /\ size = 2 * half - 1 /\ half >= 2 /\ 2 * j < half
      /\ D(i) /\ 2 * i + 1 < size /\ DoubleAt(i) = i
  BY <1>1, <1>3, EighthRead
<1> DEFINE x == j + i
           y == k + i
           z == 3 * j + i
           W == Both(Float(size - z, -z), Both(Float(size - y, -y), Float(size - x, -x)))
<1>5. /\ x \in Nat /\ y \in Nat /\ z \in Nat
      /\ 1 <= x /\ 1 <= y /\ 1 <= z /\ x < half /\ y < half /\ z < half
      /\ x < 2 * j /\ half < size
  BY <1>1, <1>2, <1>3, <1>4 DEF Numbers
<1>6. /\ size - i - k - j = size - z /\ k + j + i = z
      /\ size - i - k = size - y /\ size - i - j = size - x
  BY <1>1, <1>2 DEF Numbers, Sized
<1>7. /\ size' = size /\ len' = len /\ j' = j /\ k' = k /\ i' = i + 1 /\ pc' = "three"
      /\ Access({i}, {}, W)
  BY <1>4, <1>6 DEF OddThree
<1>8. half' = half
  BY <1>7 DEF half
<1>9. x - 1 = j + i - 1 /\ y - 1 = k + i - 1 /\ z - 1 = 3 * j + i - 1
  BY <1>1 DEF Numbers
<1>10. Ends(1, x - 1) /\ Ends(k, y - 1) /\ Ends(3 * j, z - 1)
  BY <1>1, <1>2, <1>9
<1>11. j' + i' - 1 = x /\ k' + i' - 1 = y /\ 3 * j' + i' - 1 = z
  BY <1>1, <1>7 DEF Numbers
<1> HIDE DEF x, y, z
<1>12. DOMAIN W \subseteq 0..(size - 1)
  BY <1>1, <1>4, <1>5 DEF Float, Both, Sized
<1>13. Store(W) /\ InTable'
  BY <1>1, <1>4, <1>7, <1>12, Accessed DEF Numbers
<1>14. /\ Cells'
       /\ \A d \in Nat : d < size /\ (F(d) \/ d \in {size - x, size - y, size - z}) => F(d)'
       /\ \A v \in Nat : /\ 2 * v + 1 < size - x /\ 2 * v + 1 < size - y
                         /\ 2 * v + 1 < size - z /\ D(v)
                         => D(v)'
  <2>1. x < size /\ y < size /\ z < size
    BY <1>4, <1>5
  <2> HIDE DEF W
  <2>2. Store(Both(Float(size - z, -z), Both(Float(size - y, -y), Float(size - x, -x))))
    BY <1>13 DEF W
  <2> QED
    BY <1>1, <1>5, <1>7, <2>1, <2>2, ThreeFloats
<1>15. \A t \in 1..(j - 1) : D(t)'
  <2> TAKE t \in 1..(j - 1)
  <2>1. /\ t \in Nat /\ 2 * t + 1 < half /\ D(t)
    BY <1>1, <1>2, <1>4 DEF Front, Numbers
  <2> QED
    BY <1>4, <1>5, <1>14, <2>1
<1>16. ASSUME NEW c \in Nat, 1 <= c, c < size, F(size - c) \/ c \in {x, y, z}
       PROVE  F(size - c)'
  <2>1. /\ size - c \in Nat /\ size - c < size
        /\ F(size - c) \/ size - c \in {size - x, size - y, size - z}
    BY <1>1, <1>16 DEF Sized
  <2> QED
    BY <1>7, <1>14, <2>1 DEF F
<1>17. \A c \in 1..x : F(size - c)'
  BY <1>4, <1>5, <1>10, <1>16 DEF Ends
<1>18. \A c \in k..y : F(size - c)'
  BY <1>1, <1>2, <1>4, <1>5, <1>10, <1>16 DEF Ends, Numbers
<1>19. \A c \in (3 * j)..z : F(size - c)'
  BY <1>1, <1>2, <1>4, <1>5, <1>10, <1>16 DEF Ends, Numbers
<1>20. Ends(1, j + i - 1)' /\ Ends(k, k + i - 1)' /\ Ends(3 * j, 3 * j + i - 1)'
  BY <1>7, <1>11, <1>17, <1>18, <1>19 DEF Ends
<1>21. OddEighth'
  BY <1>1, <1>2, <1>3, <1>7, <1>15, <1>20 DEF OddEighth, Front, Numbers
<1>22. InThree'
  BY <1>1, <1>7, <1>8, <1>20, <1>21 DEF InThree, Numbers
<1> QED
  BY <1>1, <1>7, <1>13, <1>14, <1>22 DEF Working, Sized, Numbers, EvenLoops, OddLoops, Known

LEMMA OddThreeEndsKept ==
    ASSUME Working, OddThreeEnds
    PROVE  Working'
<1>1. /\ Sized /\ Numbers /\ Cells /\ size % 2 = 1
      /\ OddEighth /\ len = half - 3 * j /\ i = len
      /\ Ends(k, k + i - 1) /\ Ends(3 * j, 3 * j + i - 1)
  BY Half DEF Working, OddThreeEnds, OddLoops, Known, InThree, Numbers
<1>2. size' = size /\ len' = j /\ j' = j /\ k' = k /\ i' = i /\ pc' = "two"
  BY DEF OddThreeEnds, Goto
<1>3. Cells' /\ InTable' /\ mem' = mem
  BY NotAccessed, <1>2 DEF OddThreeEnds
<1>4. half' = half /\ half \in Nat
  BY <1>1, <1>2, Half DEF half
<1>5. 3 * j + i - 1 = half - 1 /\ half > 3 * j
  BY <1>1, <1>4 DEF OddEighth, Numbers
<1>6. OddEighth' /\ Ends(k, k + i - 1)' /\ Ends(3 * j, half - 1)'
  BY <1>1, <1>2, <1>3, <1>4, <1>5 DEF OddEighth, Front, Ends, D, F
<1>7. InTwo'
  BY <1>2, <1>4, <1>5, <1>6 DEF InTwo
<1> QED
  BY <1>1, <1>2, <1>3, <1>7 DEF Working, Sized, Numbers, EvenLoops, OddLoops, Known

LEMMA OddTwoKept ==
    ASSUME Working, OddTwo
    PROVE  Working'
<1>1. /\ Sized /\ Numbers /\ Cells /\ size % 2 = 1
      /\ OddEighth /\ i < len /\ Ends(k, k + i - 1)
      /\ \/ len = j /\ half > 3 * j /\ Ends(3 * j, half - 1)
         \/ len = half - k /\ len <= j
  BY DEF Working, OddTwo, OddLoops, Known, InTwo
<1>2. /\ j >= 1 /\ k = 2 * j /\ 1 <= i /\ size <= 8 * j /\ (j = 1 \/ 4 * j < size)
      /\ Front(j - 1) /\ Ends(1, j + i - 1)
  BY <1>1 DEF OddEighth
<1>3. i < j
  BY <1>1, <1>2 DEF Numbers
<1>4. /\ half \in Nat /\ size = 2 * half - 1 /\ half >= 2 /\ 2 * j < half
      /\ D(i) /\ 2 * i + 1 < size /\ DoubleAt(i) = i
  BY <1>1, <1>3, EighthRead
<1> DEFINE x == j + i
           y == k + i
           W == Both(Float(size - y, -y), Float(size - x, -x))
<1>5. /\ x \in Nat /\ y \in Nat /\ 1 <= x /\ 1 <= y /\ x < half /\ y < half /\ half < size
      /\ x < 2 * j
  BY <1>1, <1>2, <1>3, <1>4 DEF Numbers
<1>6. size - i - k = size - y /\ size - i - j = size - x
  BY <1>1, <1>2 DEF Numbers, Sized
<1>7. /\ size' = size /\ len' = len /\ j' = j /\ k' = k /\ i' = i + 1 /\ pc' = "two"
      /\ Access({i}, {}, W)
  BY <1>4, <1>6 DEF OddTwo
<1>8. half' = half
  BY <1>7 DEF half
<1>9. x - 1 = j + i - 1 /\ y - 1 = k + i - 1
  BY <1>1 DEF Numbers
<1>10. Ends(1, x - 1) /\ Ends(k, y - 1)
  BY <1>1, <1>2, <1>9
<1>11. j' + i' - 1 = x /\ k' + i' - 1 = y
  BY <1>1, <1>7 DEF Numbers
<1> HIDE DEF x, y
<1>12. DOMAIN W \subseteq 0..(size - 1)
  BY <1>1, <1>4, <1>5 DEF Float, Both, Sized
<1>13. Store(W) /\ InTable'
  BY <1>1, <1>4, <1>7, <1>12, Accessed DEF Numbers
<1>14. /\ Cells'
       /\ \A d \in Nat : d < size /\ (F(d) \/ d \in {size - x, size - y}) => F(d)'
       /\ \A v \in Nat : 2 * v + 1 < size - x /\ 2 * v + 1 < size - y /\ D(v) => D(v)'
  <2>1. x < size /\ y < size
    BY <1>4, <1>5
  <2> HIDE DEF W
  <2>2. Store(Both(Float(size - y, -y), Float(size - x, -x)))
    BY <1>13 DEF W
  <2> QED
    BY <1>1, <1>5, <1>7, <2>1, <2>2, TwoFloats
<1>15. \A t \in 1..(j - 1) : D(t)'
  <2> TAKE t \in 1..(j - 1)
  <2>1. /\ t \in Nat /\ 2 * t + 1 < half /\ D(t)
    BY <1>1, <1>2, <1>4 DEF Front, Numbers
  <2> QED
    BY <1>4, <1>5, <1>14, <2>1
<1>16. ASSUME NEW c \in Nat, 1 <= c, c < size, F(size - c) \/ c \in {x, y}
       PROVE  F(size - c)'
  <2>1. /\ size - c \in Nat /\ size - c < size
        /\ F(size - c) \/ size - c \in {size - x, size - y}
    BY <1>1, <1>16 DEF Sized
  <2> QED
    BY <1>7, <1>14, <2>1 DEF F
<1>17. \A c \in 1..x : F(size - c)'
  BY <1>4, <1>5, <1>10, <1>16 DEF Ends
<1>18. \A c \in k..y : F(size - c)'
  BY <1>1, <1>2, <1>4, <1>5, <1>10, <1>16 DEF Ends, Numbers
<1>19. ASSUME Ends(3 * j, half - 1) PROVE Ends(3 * j, half - 1)'
  <2> SUFFICES ASSUME NEW c \in (3 * j)..(half - 1) PROVE F(size - c)'
    BY <1>7, <1>8 DEF Ends
  <2>1. c \in Nat /\ 1 <= c /\ c < size /\ F(size - c)
    BY <1>1, <1>2, <1>4, <1>19 DEF Ends, Numbers
  <2> QED
    BY <1>16, <2>1
<1>20. Ends(1, j + i - 1)' /\ Ends(k, k + i - 1)'
  BY <1>7, <1>11, <1>17, <1>18 DEF Ends
<1>21. OddEighth'
  BY <1>1, <1>2, <1>3, <1>7, <1>15, <1>20 DEF OddEighth, Front, Numbers
<1>22. InTwo'
  BY <1>1, <1>7, <1>8, <1>19, <1>20, <1>21 DEF InTwo, Numbers
<1> QED
  BY <1>1, <1>7, <1>13, <1>14, <1>22 DEF Working, Sized, Numbers, EvenLoops, OddLoops, Known

\* What the first loops left out is done: the higher half but the angles from j on.
LEMMA OddTwoEndsKept ==
    ASSUME Working, OddTwoEnds
    PROVE  Working'
<1>1. /\ Sized /\ Numbers /\ Cells /\ size % 2 = 1
      /\ OddEighth /\ i >= len /\ InTwo
  BY DEF Working, OddTwoEnds, OddLoops, Known, InTwo
<1>2. size' = size /\ len' = len /\ j' = j /\ k' = k /\ i' = i /\ pc' = "one"
  BY DEF OddTwoEnds, Goto, locals
<1>3. Cells' /\ InTable' /\ mem' = mem
  BY NotAccessed, <1>2 DEF OddTwoEnds
<1>4. half' = half /\ half \in Nat
  BY <1>1, <1>2, Half DEF half
<1>5. Ends(k, half - 1)
  <2>1. CASE len = j /\ half > 3 * j /\ Ends(3 * j, half - 1)
    BY <1>1, <1>4, <2>1 DEF InTwo, OddEighth, Ends, Numbers
  <2>2. CASE len = half - k /\ (i <= len \/ (len = 0 /\ i = 1))
    BY <1>1, <1>4, <2>2 DEF InTwo, Ends, Numbers
  <2> QED
    BY <1>1, <2>1, <2>2 DEF InTwo
<1>6. InOne'
  BY <1>1, <1>2, <1>3, <1>4, <1>5 DEF InOne, OddEighth, Front, Ends, D, F
<1> QED
  BY <1>1, <1>2, <1>3, <1>6 DEF Working, Sized, Numbers, EvenLoops, OddLoops, Known

LEMMA OddOneKept ==
    ASSUME Working, OddOne
    PROVE  Working'
<1>1. /\ Sized /\ Numbers /\ Cells /\ size % 2 = 1
      /\ OddEighth /\ i < j /\ Ends(k, half - 1)
  BY DEF Working, OddOne, OddLoops, Known, InOne
<1>2. /\ j >= 1 /\ k = 2 * j /\ 1 <= i /\ Front(j - 1) /\ Ends(1, j + i - 1)
  BY <1>1 DEF OddEighth
<1>3. /\ half \in Nat /\ size = 2 * half - 1 /\ half >= 2 /\ 2 * j < half
      /\ D(i) /\ 2 * i + 1 < size /\ DoubleAt(i) = i
  BY <1>1, EighthRead
<1> DEFINE x == j + i
           W == Float(size - x, -x)
<1>4. x \in Nat /\ 1 <= x /\ x < half /\ half < size /\ size - i - j = size - x
  BY <1>1, <1>2, <1>3 DEF Numbers, Sized
<1>5. /\ size' = size /\ len' = len /\ j' = j /\ k' = k /\ i' = i + 1 /\ pc' = "one"
      /\ Access({i}, {}, W)
  BY <1>3, <1>4 DEF OddOne
<1>6. half' = half
  BY <1>5 DEF half
<1>7. x - 1 = j + i - 1 /\ j' + i' - 1 = x
  BY <1>1, <1>5 DEF Numbers
<1>8. Ends(1, x - 1)
  BY <1>2, <1>7
<1> HIDE DEF x
<1>9. DOMAIN W \subseteq 0..(size - 1) /\ size - x \in Nat /\ size - x < size
  BY <1>1, <1>3, <1>4 DEF Float, Sized
<1>10. Store(W) /\ InTable'
  BY <1>1, <1>3, <1>5, <1>9, Accessed DEF Numbers
<1>11. (-x) % size = size - x /\ -x \in Int
  <2>1. x < size
    BY <1>3, <1>4
  <2> QED
    BY <1>1, <1>4, <2>1, NegativeAngle
<1>12. /\ Cells'
       /\ \A d \in Nat : d < size /\ (F(d) \/ d = size - x) => F(d)'
       /\ \A v \in Nat : 2 * v + 1 < size /\ 2 * v + 1 < size - x /\ D(v) => D(v)'
  BY <1>1, <1>5, <1>9, <1>10, <1>11, OneFloat
<1>13. \A t \in 1..(j - 1) : D(t)'
  <2> TAKE t \in 1..(j - 1)
  <2>1. /\ t \in Nat /\ 2 * t + 1 < half /\ D(t)
    BY <1>1, <1>2, <1>3 DEF Front, Numbers
  <2> QED
    BY <1>3, <1>4, <1>12, <2>1
<1>14. ASSUME NEW c \in Nat, 1 <= c, c < size, F(size - c) \/ c = x
       PROVE  F(size - c)'
  <2>1. size - c \in Nat /\ size - c < size /\ (F(size - c) \/ size - c = size - x)
    BY <1>1, <1>14 DEF Sized
  <2> QED
    BY <1>5, <1>12, <2>1 DEF F
<1>15. \A c \in 1..x : F(size - c)'
  BY <1>3, <1>4, <1>8, <1>14 DEF Ends
<1>16. \A c \in k..(half - 1) : F(size - c)'
  BY <1>1, <1>2, <1>3, <1>14 DEF Ends, Numbers
<1>17. Ends(1, j + i - 1)' /\ Ends(k, half - 1)'
  BY <1>5, <1>6, <1>7, <1>15, <1>16 DEF Ends
<1>18. InOne'
  BY <1>1, <1>5, <1>6, <1>13, <1>17 DEF InOne, OddEighth, Front, Numbers
<1> QED
  BY <1>1, <1>5, <1>10, <1>12, <1>18 DEF Working, Sized, Numbers, EvenLoops, OddLoops, Known

LEMMA OddOneEndsKept ==
    ASSUME Working, OddOneEnds
    PROVE  Working'
<1>1. /\ Sized /\ Numbers /\ Cells /\ size % 2 = 1
      /\ k = 2 * j /\ j >= 1 /\ i = j /\ Ends(1, j + i - 1) /\ Ends(k, half - 1)
  BY DEF Working, OddOneEnds, OddLoops, Known, InOne, OddEighth, Numbers
<1>2. half \in Nat /\ size = 2 * half - 1 /\ size \div 2 = half - 1 /\ half >= 2
  BY <1>1, Half
<1>3. size' = size /\ len' = half - 1 /\ j' = j /\ k' = k /\ i' = 1 /\ pc' = "lower"
  BY <1>2 DEF OddOneEnds, Goto
<1>4. Cells' /\ InTable' /\ mem' = mem
  BY NotAccessed, <1>3 DEF OddOneEnds
<1>5. Ends(1, half - 1)
  BY <1>1, <1>2 DEF Ends, Numbers
<1>6. InLower' /\ (size = 2 * len + 1)'
  BY <1>1, <1>2, <1>3, <1>4, <1>5 DEF InLower, Ends, Floats, F
<1>7. Numbers'
  BY <1>1, <1>2, <1>3 DEF Numbers
<1> QED
  BY <1>1, <1>3, <1>4, <1>6, <1>7 DEF Working, Sized, EvenLoops, OddLoops, Known

LEMMA LowerKept ==
    ASSUME Working, Lower
    PROVE  Working'
<1>1. /\ Sized /\ Numbers /\ Cells /\ size % 2 = 1 /\ size = 2 * len + 1
      /\ 1 <= i /\ i <= len /\ Ends(1, len) /\ Floats(1, i - 1)
  BY DEF Working, Lower, OddLoops, Known, InLower
<1>2. F(size - i) /\ size - i \in Nat /\ size - i < size /\ 1 <= size - i /\ i < size
  BY <1>1 DEF Ends, Numbers, Sized
<1>3. FloatAt(size - i) = size - i
  BY <1>1, <1>2, ReadFloat
<1>4. /\ size' = size /\ len' = len /\ j' = j /\ k' = k /\ i' = i + 1 /\ pc' = "lower"
      /\ Access({}, {size - i}, Float(i, -(size - i)))
  BY <1>3 DEF Lower
<1>5. DOMAIN Float(i, -(size - i)) \subseteq 0..(size - 1) /\ size - i \in 0..(size - 1)
  BY <1>1, <1>2 DEF Float, Numbers, Sized
<1>6. Store(Float(i, -(size - i))) /\ InTable'
  BY <1>1, <1>4, <1>5, Accessed
<1>7. (-(size - i)) % size = i /\ -(size - i) \in Int
  <2>1. (-(size - i)) % size = size - (size - i)
    BY <1>1, <1>2, NegativeAngle
  <2> QED
    BY <1>1, <1>2, <2>1 DEF Numbers, Sized
<1>8. Cells' /\ \A d \in Nat : d < size /\ (F(d) \/ d = i) => F(d)'
  BY <1>1, <1>2, <1>4, <1>6, <1>7, OneFloat DEF Numbers
<1>9. \A c \in 1..i : F(c)'
  BY <1>1, <1>2, <1>8 DEF Floats, Numbers, Sized
<1>10. \A c \in 1..len : F(size - c)'
  <2> TAKE c \in 1..len
  <2>1. size - c \in Nat /\ size - c < size /\ F(size - c)
    BY <1>1 DEF Ends, Numbers, Sized
  <2> QED
    BY <1>4, <1>8, <2>1 DEF F
<1>11. InLower'
  BY <1>1, <1>4, <1>9, <1>10 DEF InLower, Floats, Ends, Numbers
<1> QED
  BY <1>1, <1>4, <1>6, <1>8, <1>11 DEF Working, Sized, Numbers, EvenLoops, OddLoops, Known

LEMMA LowerEndsKept ==
    ASSUME Working, LowerEnds
    PROVE  Working'
<1>1. /\ Sized /\ Numbers /\ Cells /\ size = 2 * len + 1
      /\ i = len + 1 /\ Ends(1, len) /\ Floats(1, len)
  <2>1. Numbers /\ i = len + 1 /\ Floats(1, i - 1)
    BY DEF Working, LowerEnds, OddLoops, Known, InLower, Numbers
  <2>2. i - 1 = len
    BY <2>1 DEF Numbers
  <2> QED
    BY <2>1, <2>2 DEF Working, LowerEnds, OddLoops, Known, InLower
<1>2. size' = size /\ len' = len /\ j' = j /\ k' = k /\ i' = i /\ pc' = "exit"
  BY DEF LowerEnds, Goto, locals
<1>3. Cells' /\ InTable' /\ mem' = mem
  BY NotAccessed, <1>2 DEF LowerEnds
<1>4. Floats(1, size - 1)
  <2> SUFFICES ASSUME NEW c \in 1..(size - 1) PROVE F(c)
    BY DEF Floats
  <2>1. CASE c <= len
    BY <1>1, <2>1 DEF Floats, Numbers, Sized
  <2>2. CASE c > len
    <3>1. size - c \in 1..len /\ size - (size - c) = c
      BY <1>1, <2>2 DEF Numbers, Sized
    <3> QED
      BY <1>1, <3>1 DEF Ends
  <2> QED
    BY <1>1, <2>1, <2>2 DEF Numbers, Sized
<1>5. Floats(1, size - 1)'
  BY <1>2, <1>3, <1>4 DEF Floats, F
<1> QED
  BY <1>1, <1>2, <1>3, <1>5 DEF Working, Sized, Numbers, EvenLoops, OddLoops, Known

-----------------------------------------------------------------------------
(* The theorems.                                                           *)

\* A size of two or more begins with the invariant.
LEMMA BeginKept ==
    ASSUME Sized, NEW s, Begin(s)
    PROVE  Working
<1>1. size = s /\ i = 0 /\ j = 1 /\ k = 0 /\ touched = {}
  BY DEF Begin
<1>2. Cells /\ InTable
  BY <1>1 DEF Begin, Cells, InTable
<1>3. CASE size % 2 = 1
  <2>1. Multiple = "odd"
    BY <1>3, Z3 DEF Multiple, Sized
  <2>2. pc = "oddDouble" /\ len = size \div 2
    BY <2>1 DEF Begin
  <2>3. Numbers
    BY <1>1, <1>3, <2>2, Half DEF Numbers
  <2>4. InOddDouble
    BY <1>1 DEF InOddDouble, Front, Ends
  <2> QED
    BY <1>2, <1>3, <2>2, <2>3, <2>4 DEF Working, EvenLoops, OddLoops, Known
<1>4. CASE size % 2 # 1
  <2>1. size % 2 = 0 /\ pc = "double"
    BY <1>4, Z3 DEF Begin, Multiple, Sized
  <2>2. len \in Nat /\ len >= 1 /\ Part
    <3>1. CASE size % 4 = 0
      <4>1. len = size \div 4
        BY <3>1 DEF Begin, Multiple
      <4>2. size = 4 * (size \div 4) /\ size \div 4 \in Nat /\ size \div 4 >= 1
        BY <3>1, Z3 DEF Sized
      <4> QED
        BY <3>1, <4>1, <4>2 DEF Part
    <3>2. CASE size % 4 # 0
      <4>1. len = size \div 2
        BY <3>2 DEF Begin, Multiple
      <4>2. size = 2 * (size \div 2) /\ size \div 2 \in Nat /\ size \div 2 >= 1
        BY <2>1, Z3 DEF Sized
      <4> QED
        BY <3>2, <4>1, <4>2 DEF Part
    <3> QED
      BY <3>1, <3>2
  <2>3. Numbers
    BY <1>1, <2>2 DEF Numbers
  <2>4. InDouble
    BY <1>1, <2>2 DEF InDouble, Front, Back
  <2> QED
    BY <1>2, <2>1, <2>2, <2>3, <2>4 DEF Working, EvenLoops, OddLoops, Known
<1> QED
  BY <1>3, <1>4

\* The invariant is kept by every step of every loop.
LEMMA StepKept ==
    ASSUME CosSinInv, Next
    PROVE  Working'
<1>1. CASE NoTable
  BY <1>1 DEF NoTable, Next, Doubling, DoublingInner, DoublingNext, DoublingEnds, Rest,
     RestInner, RestNext, RestEnds, Convert, ConvertEnds, Quarter, QuarterEnds, Mirror,
     MirrorEnds, OddDoubling, OddDoublingInner, OddDoublingNext, OddDoublingEnds, OddThree,
     OddThreeEnds, OddTwo, OddTwoEnds, OddOne, OddOneEnds, Lower, LowerEnds, Exit
<1>2. CASE Working
  BY <1>2, DoublingKept, DoublingInnerKept, DoublingNextKept, DoublingEndsKept, RestKept,
     RestInnerKept, RestNextKept, RestEndsKept, ConvertKept, ConvertEndsKept, QuarterKept,
     QuarterEndsKept, MirrorKept, MirrorEndsKept, OddDoublingKept, OddDoublingInnerKept,
     OddDoublingNextKept, OddDoublingEndsKept, OddThreeKept, OddThreeEndsKept, OddTwoKept,
     OddTwoEndsKept, OddOneKept, OddOneEndsKept, LowerKept, LowerEndsKept, ExitKept
     DEF Next
<1> QED
  BY <1>1, <1>2 DEF CosSinInv

LEMMA Stuttering ==
    ASSUME CosSinInv, UNCHANGED vars
    PROVE  CosSinInv'
<1>1. /\ size' = size /\ pc' = pc /\ i' = i /\ j' = j /\ k' = k /\ len' = len
      /\ mem' = mem /\ touched' = touched
  BY DEF vars, locals
<1>2. CASE NoTable
  BY <1>1, <1>2 DEF NoTable, CosSinInv
<1>3. CASE Working
  <2>1. /\ Front(j - 1)' <=> Front(j - 1)
        /\ Front(j + i - 1)' <=> Front(j + i - 1)
        /\ Front(len - 1)' <=> Front(len - 1)
        /\ Back(i)' <=> Back(i)
        /\ Back(len - j + 1)' <=> Back(len - j + 1)
        /\ Back(len - j - i + 1)' <=> Back(len - j - i + 1)
    BY <1>1 DEF Front, Back, D
  <2>2. /\ Floats(1, i - 1)' <=> Floats(1, i - 1)
        /\ Floats(1, len + i - 1)' <=> Floats(1, len + i - 1)
        /\ Floats(1, len)' <=> Floats(1, len)
        /\ Floats(1, size - 1)' <=> Floats(1, size - 1)
        /\ Floats(0, size - 1)' <=> Floats(0, size - 1)
    BY <1>1 DEF Floats, F
  <2>3. half' = half
    BY <1>1 DEF half
  <2>4. /\ Ends(1, i - 1)' <=> Ends(1, i - 1)
        /\ Ends(1, j - 1)' <=> Ends(1, j - 1)
        /\ Ends(1, j + i - 1)' <=> Ends(1, j + i - 1)
        /\ Ends(k, k + i - 1)' <=> Ends(k, k + i - 1)
        /\ Ends(3 * j, 3 * j + i - 1)' <=> Ends(3 * j, 3 * j + i - 1)
        /\ Ends(k, half - 1)' <=> Ends(k, half - 1)
        /\ Ends(3 * j, half - 1)' <=> Ends(3 * j, half - 1)
        /\ Ends(1, len)' <=> Ends(1, len)
    BY <1>1, <2>3 DEF Ends, F
  <2>5. /\ InDouble' <=> InDouble
        /\ InDoubleInner' <=> InDoubleInner
        /\ InRestInner' <=> InRestInner
        /\ InConvert' <=> InConvert
        /\ InQuarter' <=> InQuarter
        /\ InMirror' <=> InMirror
    BY <1>1, <2>1, <2>2, <2>4 DEF InDouble, InDoubleInner, InRestInner, InConvert, InQuarter, InMirror
  <2>6. OddEighth' <=> OddEighth
    BY <1>1, <2>1, <2>4 DEF OddEighth
  <2>7. /\ InRest' <=> InRest
        /\ InOddDouble' <=> InOddDouble
        /\ InOddInner' <=> InOddInner
        /\ InThree' <=> InThree
        /\ InTwo' <=> InTwo
        /\ InOne' <=> InOne
        /\ InLower' <=> InLower
    BY <1>1, <2>1, <2>2, <2>3, <2>4, <2>5, <2>6
      DEF InRest, InOddDouble, InOddInner, InThree, InTwo, InOne, InLower
  <2>8. Known'
    BY <1>1, <1>3, <2>1, <2>2, <2>5, <2>7 DEF Working, Known
  <2> QED
    BY <1>1, <1>3, <2>8 DEF CosSinInv, Working, Sized, Numbers, Part, Cells, InTable
<1> QED
  BY <1>2, <1>3 DEF CosSinInv

\* The invariant says what is promised of the table.
LEMMA InvariantTable ==
    ASSUME CosSinInv
    PROVE  InTable /\ TableComplete
<1>1. CASE NoTable
  BY <1>1 DEF NoTable, InTable, TableComplete
<1>2. CASE Working
  <2>1. ASSUME pc = "done", NEW c \in 0..(size - 1) PROVE mem[c] = Single(c)
    <3>1. F(c) /\ Sized
      BY <1>2, <2>1 DEF Working, Known, Floats
    <3>2. c % size = c
      BY <3>1, OwnAngle DEF Sized
    <3> QED
      BY <3>1, <3>2 DEF F, Single
  <2> QED
    BY <1>2, <2>1 DEF Working, TableComplete
<1> QED
  BY <1>1, <1>2 DEF CosSinInv

\* The invariant is inductive.
THEOREM CosSinInductive == CosSinSpec => []CosSinInv
<1>1. CosSinInit => CosSinInv
  BY BeginKept DEF CosSinInit, CosSinInv, Sized
<1>2. CosSinInv /\ [Next]_vars => CosSinInv'
  BY StepKept, Stuttering DEF CosSinInv
<1> QED
  BY <1>1, <1>2, PTL DEF CosSinSpec

\* For every size, no step reads or writes outside the table, although doubles take two
\* of its cells each (ffts_trig.c:426-719).
THEOREM AlwaysInTable == CosSinSpec => []InTable
  BY CosSinInductive, InvariantTable, PTL

\* For every size, when the function returns each cell holds the cosine and sine of its
\* own angle (ffts_trig.c:426-719).
THEOREM AlwaysComplete == CosSinSpec => []TableComplete
  BY CosSinInductive, InvariantTable, PTL
===============================================================================
