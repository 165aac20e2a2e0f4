--------------------------- MODULE PlanTablesProofs ---------------------------
(***************************************************************************)
(* Buneman's generator is right for every number of slots, and the twiddle *)
(* factors that plans take from its tables stay in their memory and are    *)
(* the ones that the passes look for.                                      *)
(*                                                                         *)
(* The inductive invariant says which angle each entry of w is kept for:   *)
(* w[l] is the next odd multiple of 2^l that the loop comes to.  It is     *)
(* unique, so that w[l] is the angle i when l counts the trailing zeros of *)
(* i; and the two entries of which the next one is the mean are the angles *)
(* 2^l below and above it, one of them at l + 1, the other as far up as    *)
(* the carry of an addition to i goes.                                     *)
(***************************************************************************)
EXTENDS PlanTables, TLAPS, WellFoundedInduction

-----------------------------------------------------------------------------
(* Powers of two.                                                          *)

Pow == [e \in 0..31 |-> 2^e]

\* Each is twice the one before.
LEMMA PowStep ==
    /\ Pow[0] = 1
    /\ \A a \in 0..31 : 2^a = Pow[a] /\ Pow[a] \in Nat /\ Pow[a] >= 1
    /\ \A a \in 0..30 : Pow[a + 1] = 2 * Pow[a]
<1>1. /\ Pow[0] = 1 /\ Pow[1] = 2 /\ Pow[2] = 4 /\ Pow[3] = 8 /\ Pow[4] = 16
      /\ Pow[5] = 32 /\ Pow[6] = 64 /\ Pow[7] = 128 /\ Pow[8] = 256 /\ Pow[9] = 512
      /\ Pow[10] = 1024 /\ Pow[11] = 2048 /\ Pow[12] = 4096 /\ Pow[13] = 8192 /\ Pow[14] = 16384
      /\ Pow[15] = 32768 /\ Pow[16] = 65536 /\ Pow[17] = 131072 /\ Pow[18] = 262144 /\ Pow[19] = 524288
      /\ Pow[20] = 1048576 /\ Pow[21] = 2097152 /\ Pow[22] = 4194304 /\ Pow[23] = 8388608 /\ Pow[24] = 16777216
      /\ Pow[25] = 33554432 /\ Pow[26] = 67108864 /\ Pow[27] = 134217728 /\ Pow[28] = 268435456 /\ Pow[29] = 536870912
      /\ Pow[30] = 1073741824 /\ Pow[31] = 2147483648
  BY DEF Pow
<1>2. ASSUME NEW a \in 0..30 PROVE Pow[a] \in Nat /\ Pow[a] >= 1 /\ Pow[a + 1] = 2 * Pow[a]
  <2>1. a \in {0, 1, 2, 3, 4, 5, 6, 7, 8, 9, 10,
               11, 12, 13, 14, 15, 16, 17, 18, 19, 20, 21,
               22, 23, 24, 25, 26, 27, 28, 29, 30}
    BY <1>2
  <2> QED
    BY <1>1, <2>1
<1>3. \A a \in 0..31 : 2^a = Pow[a]
  BY DEF Pow
<1>4. \A a \in 0..31 : Pow[a] \in Nat /\ Pow[a] >= 1
  <2> TAKE a \in 0..31
  <2>1. a \in 0..30 \/ a = 31
    OBVIOUS
  <2> QED
    BY <1>1, <1>2, <2>1
<1> QED
  BY <1>1, <1>2, <1>3, <1>4

\* The least of a set of numbers.
LeastOf(S) == CHOOSE m \in S : \A k \in S : m <= k

LEMMA Least ==
    ASSUME NEW S \in SUBSET Nat, S # {}
    PROVE  LeastOf(S) \in S /\ \A k \in S : LeastOf(S) <= k
<1>1. \E below : /\ \E m \in S : \A k \in S : <<k, m>> \notin below
                 /\ \A k, m \in Nat : k < m => <<k, m>> \in below
  <2> WITNESS OpToRel(<, Nat)
  <2>1. \E m \in S : \A k \in S : <<k, m>> \notin OpToRel(<, Nat)
    BY NatLessThanWellFounded, WFMin
  <2>2. \A k, m \in Nat : k < m => <<k, m>> \in OpToRel(<, Nat)
    BY DEF OpToRel
  <2> QED
    BY <2>1, <2>2, Zenon
<1>2. PICK below : /\ \E m \in S : \A k \in S : <<k, m>> \notin below
                   /\ \A k, m \in Nat : k < m => <<k, m>> \in below
  BY <1>1
<1>3. PICK m \in S : \A k \in S : <<k, m>> \notin below
  BY <1>2
<1>4. ASSUME NEW k \in S PROVE m <= k
  <2>1. ~(k < m)
    BY <1>2, <1>3, Zenon
  <2> QED
    BY <2>1
<1> QED
  BY <1>4 DEF LeastOf

\* A power is an even multiple of each smaller one.
LEMMA PowDivides ==
    ASSUME NEW a \in 0..31, NEW b \in 0..31, a < b
    PROVE  \E d \in Nat : d >= 1 /\ Pow[b] = 2 * (d * Pow[a])
<1> DEFINE Even(n) == \E d \in Nat : d >= 1 /\ Pow[n] = 2 * (d * Pow[a])
           S == {n \in Nat : a < n /\ n <= 31 /\ ~Even(n)}
<1>1. SUFFICES ASSUME S # {} PROVE FALSE
  OBVIOUS
<1> DEFINE m == LeastOf(S)
<1>2. m \in S /\ \A n \in S : m <= n
  BY <1>1, Least
<1> HIDE DEF m
<1>3. m \in Nat /\ a < m /\ m <= 31 /\ m - 1 \in Nat /\ m - 1 \in 0..30
  BY <1>2
<1>4. Pow[m] = 2 * Pow[m - 1]
  BY <1>3, PowStep
<1>5. Even(m)
  <2>1. CASE m - 1 = a
    <3>1. Pow[m] = 2 * (1 * Pow[a]) /\ 1 \in Nat /\ 1 >= 1
      BY <1>4, <2>1, PowStep
    <3> QED
      BY <3>1
  <2>2. CASE m - 1 # a
    <3>1. m - 1 \notin S /\ a < m - 1
      BY <1>2, <1>3, <2>2
    <3>2. PICK d \in Nat : d >= 1 /\ Pow[m - 1] = 2 * (d * Pow[a])
      BY <1>3, <3>1
    <3>3. Pow[m] = 2 * ((2 * d) * Pow[a]) /\ 2 * d \in Nat /\ 2 * d >= 1
      BY <1>4, <3>2, PowStep
    <3> QED
      BY <3>3
  <2> QED
    BY <2>1, <2>2
<1> QED
  BY <1>2, <1>5

-----------------------------------------------------------------------------
(* Odd multiples of powers of two, and division.                           *)

OddMultiple(x, l) == \E q \in Nat : x = (2 * q + 1) * Pow[l]

LEMMA Cancel ==
    ASSUME NEW x \in Int, NEW y \in Int, NEW a \in Nat, a >= 1, x * a = y * a
    PROVE  x = y
<1>1. CASE x < y
  <2>1. x * a < y * a
    BY <1>1, Z3
  <2> QED
    BY <2>1, Z3
<1>2. CASE y < x
  <2>1. y * a < x * a
    BY <1>2, Z3
  <2> QED
    BY <2>1, Z3
<1> QED
  BY <1>1, <1>2

\* The power is determined by the number.
LEMMA OddLess ==
    ASSUME NEW x \in Nat, NEW a \in 0..31, NEW b \in 0..31, a < b,
           OddMultiple(x, a), OddMultiple(x, b)
    PROVE  FALSE
<1>1. PICK q \in Nat : x = (2 * q + 1) * Pow[a]
  BY DEF OddMultiple
<1>2. PICK r \in Nat : x = (2 * r + 1) * Pow[b]
  BY DEF OddMultiple
<1>3. PICK d \in Nat : d >= 1 /\ Pow[b] = 2 * (d * Pow[a])
  BY PowDivides
<1> DEFINE P == Pow[a]
           y == (2 * r + 1) * d
<1>4. P \in Nat /\ P >= 1 /\ y \in Nat
  BY PowStep
<1>5. (2 * q + 1) * P = (2 * y) * P
  BY <1>1, <1>2, <1>3, <1>4, Z3
<1> HIDE DEF P, y
<1>6. 2 * q + 1 = 2 * y
  BY <1>4, <1>5, Cancel
<1> QED
  BY <1>4, <1>6

LEMMA OddUnique ==
    ASSUME NEW x \in Nat, NEW a \in 0..31, NEW b \in 0..31,
           OddMultiple(x, a), OddMultiple(x, b)
    PROVE  a = b
<1>1. ~(a < b) /\ ~(b < a)
  BY OddLess
<1> QED
  BY <1>1

\* Every number that is not zero is an odd multiple of some power.
LEMMA OddExists ==
    ASSUME NEW n \in 0..31, NEW x \in Nat, 1 <= x, x < Pow[n]
    PROVE  \E l \in Nat : l < n /\ OddMultiple(x, l)
<1> DEFINE Bad(m, y) == 1 <= y /\ y < Pow[m] /\ ~(\E l \in Nat : l < m /\ OddMultiple(y, l))
           S == {m \in Nat : m <= 31 /\ \E y \in Nat : Bad(m, y)}
<1>1. SUFFICES ASSUME S # {} PROVE FALSE
  <2>1. n \notin S
    BY <1>1
  <2> QED
    BY <2>1
<1> DEFINE m == LeastOf(S)
<1>2. m \in S /\ \A k \in S : m <= k
  BY <1>1, Least
<1>3. PICK y \in Nat : Bad(m, y)
  BY <1>2
<1> HIDE DEF m
<1>4. m \in Nat /\ m <= 31 /\ m # 0
  BY <1>2, <1>3, PowStep
<1>5. m - 1 \in Nat /\ m - 1 \in 0..30 /\ m - 1 \notin S /\ Pow[m] = 2 * Pow[m - 1]
  BY <1>2, <1>4, PowStep
<1>6. CASE y % 2 = 1
  <2>1. y = (2 * (y \div 2) + 1) * Pow[0] /\ y \div 2 \in Nat
    BY <1>6, PowStep
  <2>2. OddMultiple(y, 0)
    BY <2>1 DEF OddMultiple
  <2> QED
    BY <1>3, <1>4, <2>2
<1>7. CASE y % 2 # 1
  <2>1. PICK z \in Nat : y = 2 * z
    <3>1. y = 2 * (y \div 2) /\ y \div 2 \in Nat
      BY <1>7
    <3> QED
      BY <3>1
  <2>2. 1 <= z /\ z < Pow[m - 1]
    BY <1>3, <1>5, <2>1, PowStep
  <2>3. PICK l \in Nat : l < m - 1 /\ OddMultiple(z, l)
    BY <1>5, <2>2
  <2>4. PICK q \in Nat : z = (2 * q + 1) * Pow[l]
    BY <2>3 DEF OddMultiple
  <2>5. Pow[l + 1] = 2 * Pow[l] /\ Pow[l] \in Nat
    <3>1. l \in 0..30 /\ l \in 0..31
      BY <1>4, <2>3
    <3> QED
      BY <3>1, PowStep
  <2>6. y = (2 * q + 1) * Pow[l + 1]
    BY <2>1, <2>4, <2>5, Z3
  <2>7. OddMultiple(y, l + 1) /\ l + 1 \in Nat /\ l + 1 < m
    BY <1>4, <2>3, <2>6 DEF OddMultiple
  <2> QED
    BY <1>3, <2>7
<1> QED
  BY <1>6, <1>7

\* Quotient and remainder are determined.
LEMMA Division ==
    ASSUME NEW a \in Nat, NEW d \in Nat, d >= 1, NEW q \in Nat, NEW r \in Nat, r < d,
           a = d * q + r
    PROVE  a \div d = q /\ a % d = r
<1> DEFINE Q == a \div d
           R == a % d
<1>1. Q \in Int /\ R \in Nat /\ R < d /\ a = d * Q + R
  BY Z3
<1> HIDE DEF Q, R
<1>2. Q = q
  <2>1. CASE q < Q
    <3>1. d * Q >= d * q + d
      BY <1>1, <2>1, Z3
    <3> QED
      BY <1>1, <3>1, Z3
  <2>2. CASE Q < q
    <3>1. d * q >= d * Q + d
      BY <1>1, <2>2, Z3
    <3> QED
      BY <1>1, <3>1, Z3
  <2> QED
    BY <1>1, <2>1, <2>2
<1>3. R = r
  BY <1>1, <1>2, Z3
<1> QED
  BY <1>2, <1>3 DEF Q, R

\* ffts_ctzl counts the power of which a number is an odd multiple.
LEMMA Zeros ==
    ASSUME NEW x \in Nat, NEW l \in 0..31, OddMultiple(x, l)
    PROVE  TrailingZeros(x) = l
<1>1. PICK q \in Nat : x = (2 * q + 1) * Pow[l]
  BY DEF OddMultiple
<1>2. x \div 2^l = 2 * q + 1 /\ x % 2^l = 0
  <2>1. 2^l = Pow[l] /\ Pow[l] \in Nat /\ Pow[l] >= 1
    BY PowStep
  <2> DEFINE P == Pow[l]
  <2>2. x = P * (2 * q + 1) + 0
    BY <1>1, <2>1, Z3
  <2> HIDE DEF P
  <2>3. x \div P = 2 * q + 1 /\ x % P = 0
    <3>1. P \in Nat /\ P >= 1 /\ 0 < P /\ 2 * q + 1 \in Nat /\ 0 \in Nat
      BY <2>1 DEF P
    <3> QED
      BY <2>2, <3>1, Division
  <2> QED
    BY <2>1, <2>3 DEF P
<1>3. (x \div 2^l) % 2 = 1
  <2>1. (2 * q + 1) % 2 = 1
    OBVIOUS
  <2> QED
    BY <1>2, <2>1
<1> DEFINE T == TrailingZeros(x)
<1>4. T \in 0..31 /\ x % 2^T = 0 /\ (x \div 2^T) % 2 = 1
  BY <1>2, <1>3 DEF TrailingZeros
<1> HIDE DEF T
<1>5. OddMultiple(x, T)
  <2> DEFINE P == Pow[T]
             c == x \div P
  <2>1. 2^T = P /\ P \in Nat /\ P >= 1
    BY <1>4, PowStep
  <2>2. x = P * c /\ c \in Nat
    <3>1. x % P = 0
      BY <1>4, <2>1
    <3> HIDE DEF P
    <3> QED
      BY <2>1, <3>1, Z3
  <2>3. c % 2 = 1
    BY <1>4, <2>1
  <2> HIDE DEF c
  <2>4. c = 2 * (c \div 2) + 1 /\ c \div 2 \in Nat
    BY <2>2, <2>3
  <2>5. x = (2 * (c \div 2) + 1) * P
    <3> DEFINE h == c \div 2
    <3>1. c = 2 * h + 1 /\ h \in Nat
      BY <2>4
    <3> HIDE DEF h, P
    <3>2. x = (2 * h + 1) * P
      BY <2>1, <2>2, <3>1, Z3
    <3> QED
      BY <3>2 DEF h
  <2> QED
    BY <2>4, <2>5 DEF OddMultiple
<1> QED
  BY <1>4, <1>5, OddUnique DEF T

\* Of the odd multiples of a power there is one in each stretch of twice its length.
LEMMA Between ==
    ASSUME NEW P \in Nat, P >= 1, NEW q \in Nat, NEW r \in Nat, NEW x \in Int,
           x <= (2 * q + 1) * P, (2 * q + 1) * P < x + 2 * P,
           x <= (2 * r + 1) * P, (2 * r + 1) * P < x + 2 * P
    PROVE  q = r
<1> DEFINE a == q * P
           b == r * P
<1>1. a \in Int /\ b \in Int /\ (2 * q + 1) * P = 2 * a + P /\ (2 * r + 1) * P = 2 * b + P
  BY Z3
<1>2. CASE q < r
  <2>1. a + P <= b
    BY <1>2, Z3
  <2> HIDE DEF a, b
  <2> QED
    BY <1>1, <2>1
<1>3. CASE r < q
  <2>1. b + P <= a
    BY <1>3, Z3
  <2> HIDE DEF a, b
  <2> QED
    BY <1>1, <2>1
<1> QED
  BY <1>2, <1>3

LEMMA NextOdd ==
    ASSUME NEW l \in 0..30, NEW x \in Int, NEW y \in Nat, NEW z \in Nat,
           OddMultiple(y, l), x <= y, y < x + Pow[l + 1],
           OddMultiple(z, l), x <= z, z < x + Pow[l + 1]
    PROVE  y = z
<1>1. PICK q \in Nat : y = (2 * q + 1) * Pow[l]
  BY DEF OddMultiple
<1>2. PICK r \in Nat : z = (2 * r + 1) * Pow[l]
  BY DEF OddMultiple
<1>3. Pow[l] \in Nat /\ Pow[l] >= 1 /\ Pow[l + 1] = 2 * Pow[l]
  BY PowStep
<1> DEFINE P == Pow[l]
<1>4. /\ P \in Nat /\ P >= 1 /\ y = (2 * q + 1) * P /\ z = (2 * r + 1) * P
      /\ y < x + 2 * P /\ z < x + 2 * P
  BY <1>1, <1>2, <1>3
<1> HIDE DEF P
<1>5. q = r
  BY <1>4, Between
<1> QED
  BY <1>4, <1>5

\* The offset is where the carry of an addition to i stops: there the next multiple of
\* 2^(l + 2) above i is an odd one.
LEMMA Carry ==
    ASSUME NEW n \in 0..30, NEW l \in Nat, l + 2 <= n, i \in Nat, i < Pow[n]
    PROVE  /\ Partner(l) \in (l + 2)..n
           /\ OddMultiple(i + (Pow[l + 2] - (i % Pow[l + 2])), Partner(l))
<1> DEFINE Bit(u) == (i \div 2^(l + 2 + u)) % 2
           Stops(t) == Bit(t) = 0 /\ \A u \in 0..(t - 1) : Bit(u) = 1
           t0 == n - l - 2
           T == CHOOSE t \in 0..31 : Stops(t)
           c(u) == i \div Pow[l + 2 + u]
           x == i + (Pow[l + 2] - (i % Pow[l + 2]))
           Up(u) == x = (c(u) + 1) * Pow[l + 2 + u]
<1>1. t0 \in Nat /\ t0 <= 28 /\ l + 2 + t0 = n
  OBVIOUS
<1>2. \A u \in 0..t0 : /\ l + 2 + u \in 0..30 /\ 2^(l + 2 + u) = Pow[l + 2 + u]
                       /\ Pow[l + 2 + u] \in Nat /\ Pow[l + 2 + u] >= 1
  <2> TAKE u \in 0..t0
  <2>1. l + 2 + u \in 0..30 /\ l + 2 + u \in 0..31
    BY <1>1
  <2> QED
    BY <2>1, PowStep
<1>3. \A u \in 0..t0 : c(u) \in Nat /\ Bit(u) = c(u) % 2 /\ Bit(u) \in {0, 1}
  <2> TAKE u \in 0..t0
  <2> DEFINE P == Pow[l + 2 + u]
  <2>1. P \in Nat /\ P >= 1 /\ 2^(l + 2 + u) = P
    BY <1>2
  <2>2. i \div P \in Nat
    <3> HIDE DEF P
    <3> QED
      BY <2>1, Z3
  <2> QED
    BY <2>1, <2>2
<1>4. Bit(t0) = 0
  <2> DEFINE P == Pow[n]
  <2>1. P \in Nat /\ P >= 1 /\ i < P
    BY PowStep
  <2>2. i \div P = 0
    <3> HIDE DEF P
    <3>1. i = P * 0 + i
      BY <2>1
    <3> QED
      BY <2>1, <3>1, Division
  <2>3. c(t0) = 0 /\ t0 \in 0..t0
    BY <1>1, <2>2
  <2>4. Bit(t0) = c(t0) % 2
    BY <1>3, <2>3
  <2> HIDE DEF Bit, c, t0
  <2> QED
    BY <2>3, <2>4
<1> HIDE DEF Bit, c
<1>5. T \in 0..t0 /\ Stops(T)
  <2> DEFINE S == {t \in Nat : t <= t0 /\ Bit(t) = 0}
             m == LeastOf(S)
  <2>1. m \in S /\ \A t \in S : m <= t
    <3>1. t0 \in S
      BY <1>1, <1>4
    <3> QED
      BY <3>1, Least
  <2> HIDE DEF m
  <2>2. Bit(m) = 0 /\ m \in 0..31
    BY <1>1, <2>1
  <2>3. \A u \in 0..(m - 1) : Bit(u) = 1
    BY <1>1, <1>3, <2>1
  <2>4. \E t \in 0..31 : Stops(t)
    BY <2>2, <2>3
  <2>5. T \in 0..31 /\ Stops(T)
    BY <2>4
  <2>6. T <= t0
    <3> HIDE DEF T
    <3> SUFFICES ASSUME t0 < T PROVE FALSE
      BY <1>1, <2>5
    <3>1. t0 \in 0..(T - 1)
      BY <1>1, <2>5
    <3> QED
      BY <1>4, <2>5, <3>1
  <2>7. T \in 0..t0
    <3> HIDE DEF T, t0
    <3> QED
      BY <1>1, <2>5, <2>6
  <2> QED
    BY <2>5, <2>7
<1>6. Partner(l) = l + 2 + T
  BY DEF Partner, Bit
<1> HIDE DEF T, t0
<1>7. \A u \in 0..T : Up(u)
  <2> DEFINE S == {u \in Nat : u <= T /\ ~Up(u)}
             m == LeastOf(S)
  <2>1. SUFFICES ASSUME S # {} PROVE FALSE
    BY <1>5
  <2>2. m \in S /\ \A u \in S : m <= u
    BY <2>1, Least
  <2> HIDE DEF m
  <2>3. m \in Nat /\ m <= T /\ ~Up(m) /\ m \in 0..t0
    BY <1>1, <1>5, <2>2
  <2>4. CASE m = 0
    <3> DEFINE P == Pow[l + 2]
               q == i \div P
               r == i % P
    <3>1. P \in Nat /\ P >= 1 /\ l + 2 + 0 = l + 2
      BY <1>1, <1>2
    <3>2. i = P * q + r /\ q \in Int /\ r \in Int
      <4> HIDE DEF P
      <4> QED
        BY <3>1, Z3
    <3>3. c(0) = q /\ x = i + (P - r)
      <4>1. c(0) = i \div Pow[l + 2 + 0]
        BY DEF c
      <4>2. l + 2 + 0 = l + 2
        BY <3>1
      <4> QED
        BY <4>1, <4>2
    <3> HIDE DEF P, q, r
    <3>4. i + (P - r) = (q + 1) * P
      BY <3>1, <3>2, Z3
    <3>5. Up(0)
      BY <3>1, <3>3, <3>4 DEF P
    <3> QED
      BY <2>3, <2>4, <3>5
  <2>5. CASE m # 0
    <3>1. m - 1 \in Nat /\ m - 1 \in 0..t0 /\ m - 1 \in 0..(T - 1) /\ Up(m - 1)
      <4>1. m - 1 \in Nat /\ m - 1 \in 0..t0 /\ m - 1 \in 0..(T - 1) /\ m - 1 <= T /\ ~(m <= m - 1)
        BY <1>1, <1>5, <2>3, <2>5
      <4>2. \A u \in Nat : u <= T /\ ~Up(u) => m <= u
        BY <2>2
      <4> HIDE DEF Up
      <4>3. Up(m - 1)
        BY <4>1, <4>2
      <4> QED
        BY <4>1, <4>3
    <3> DEFINE e == l + 2 + (m - 1)
               P == Pow[e]
               q == c(m - 1)
               r == i % P
    <3>2. /\ e \in 0..30 /\ P \in Nat /\ P >= 1 /\ Pow[e + 1] = 2 * P /\ l + 2 + m = e + 1
      BY <1>2, <2>3, <3>1, PowStep
    <3>3. q \in Nat /\ q % 2 = 1
      BY <1>3, <1>5, <3>1
    <3>4. i = P * q + r /\ r \in Nat /\ r < P
      <4>1. q = i \div P
        BY DEF c
      <4> HIDE DEF P
      <4>2. i = P * (i \div P) + r /\ r \in Nat /\ r < P
        BY <3>2, Z3
      <4> QED
        BY <4>1, <4>2
    <3>5. PICK h \in Nat : q = 2 * h + 1
      <4> HIDE DEF q
      <4>1. q = 2 * (q \div 2) + 1 /\ q \div 2 \in Nat
        BY <3>3
      <4> QED
        BY <4>1
    <3>6. x = (q + 1) * P
      BY <3>1
    <3>7. c(m) = i \div Pow[e + 1]
      BY <3>2 DEF c
    <3> HIDE DEF P, q, r, e, x
    <3>8. i = (2 * P) * h + (P + r) /\ P + r \in Nat /\ P + r < 2 * P
      BY <3>2, <3>4, <3>5, Z3
    <3>9. c(m) = h
      <4>1. 2 * P \in Nat /\ 2 * P >= 1
        BY <3>2
      <4>2. i \div (2 * P) = h
        BY <3>8, <4>1, Division
      <4> QED
        BY <3>2, <3>7, <4>2
    <3>10. x = (h + 1) * (2 * P)
      BY <3>2, <3>5, <3>6, Z3
    <3>11. Up(m)
      BY <3>2, <3>9, <3>10
    <3> QED
      BY <2>3, <3>11
  <2> QED
    BY <2>4, <2>5
<1>8. OddMultiple(x, l + 2 + T)
  <2>1. Up(T) /\ c(T) % 2 = 0 /\ c(T) \in Nat
    BY <1>3, <1>5, <1>7
  <2>2. PICK h \in Nat : c(T) = 2 * h
    <3>1. c(T) = 2 * (c(T) \div 2) /\ c(T) \div 2 \in Nat
      BY <2>1
    <3> QED
      BY <3>1
  <2>3. x = (2 * h + 1) * Pow[l + 2 + T]
    BY <2>1, <2>2
  <2> QED
    BY <2>3 DEF OddMultiple
<1> QED
  BY <1>1, <1>5, <1>6, <1>8 DEF t0

-----------------------------------------------------------------------------
(* The loop.                                                               *)

\* No two multiples of a number lie closer together than it.
LEMMA Multiples ==
    ASSUME NEW P \in Nat, P >= 1, NEW a \in Nat, NEW b \in Nat, a * P < b * P
    PROVE  a * P + P <= b * P
<1>1. ~(b <= a)
  <2> SUFFICES ASSUME b <= a PROVE FALSE
    OBVIOUS
  <2>1. b * P <= a * P
    BY Z3
  <2> DEFINE ap == a * P
             bp == b * P
  <2>2. ap \in Int /\ bp \in Int /\ ap < bp /\ bp <= ap
    BY <2>1, Z3
  <2> HIDE DEF ap, bp
  <2> QED
    BY <2>2
<1>2. a + 1 <= b
  BY <1>1
<1>3. (a + 1) * P <= b * P
  BY <1>2, Z3
<1>4. (a + 1) * P = a * P + P
  BY Z3
<1> QED
  BY <1>3, <1>4

\* The mean of the two entries that are kept is the next odd multiple, if it is needed.
LEMMA MeanIsNext ==
    ASSUME NEW n \in 0..27, NEW l \in Nat, l < n, i \in Nat,
           OddMultiple(i, l), i + 2 * Pow[l] <= Pow[n],
           \A e \in 0..n : \A x \in Nat :
               OddMultiple(x, e) /\ i <= x /\ x < i + Pow[e + 1] /\ x <= Pow[n] => w[e] = x
    PROVE  /\ l + 2 <= n
           /\ \/ w[l + 1] = i + Pow[l] /\ w[Partner(l)] = i + 3 * Pow[l]
              \/ w[l + 1] = i + 3 * Pow[l] /\ w[Partner(l)] = i + Pow[l]
<1> DEFINE P == Pow[l]
           Q == Pow[n]
<1>1. /\ P \in Nat /\ P >= 1 /\ Pow[l + 1] = 2 * P /\ Q \in Nat /\ Q >= 1
      /\ l \in 0..30 /\ l + 1 \in 0..30
      /\ Pow[l + 1 + 1] = 4 * P
  <2>1. l \in 0..30 /\ l \in 0..31 /\ l + 1 \in 0..30 /\ n \in 0..31
    OBVIOUS
  <2>2. /\ P \in Nat /\ P >= 1 /\ Pow[l + 1] = 2 * P /\ Q \in Nat /\ Q >= 1
        /\ Pow[l + 1 + 1] = 2 * Pow[l + 1]
    BY <2>1, PowStep
  <2> QED
    BY <2>1, <2>2
<1>2. PICK m \in Nat : i = (2 * m + 1) * P
  BY DEF OddMultiple
<1>3. PICK d \in Nat : d >= 1 /\ Q = 2 * (d * P)
  <2>1. l \in 0..31 /\ n \in 0..31
    OBVIOUS
  <2> QED
    BY <2>1, PowDivides
<1>4. i + 3 * P <= Q /\ 3 * P <= i + 2 * P
  <2> DEFINE a == 2 * m + 3
             b == 2 * d
  <2>1. a \in Nat /\ b \in Nat /\ a # b /\ i + 2 * P = a * P /\ Q = b * P
    <3>1. a \in Nat /\ b \in Nat /\ a # b
      OBVIOUS
    <3> HIDE DEF P, Q
    <3>2. i + 2 * P = (2 * m + 3) * P /\ Q = (2 * d) * P
      BY <1>1, <1>2, <1>3, Z3
    <3> QED
      BY <3>1, <3>2
  <2>2. a * P <= b * P
    BY <2>1
  <2>3. a * P # b * P
    <3> HIDE DEF P, a, b
    <3> QED
      BY <1>1, <2>1, Cancel
  <2> HIDE DEF P, Q, a, b
  <2>4. a * P < b * P
    <3> DEFINE ap == a * P
               bp == b * P
    <3>1. ap \in Int /\ bp \in Int
      BY <1>1, <2>1, Z3
    <3> HIDE DEF ap, bp
    <3>2. ap < bp
      BY <2>2, <2>3, <3>1 DEF ap, bp
    <3> QED
      BY <3>2 DEF ap, bp
  <2>5. a * P + P <= b * P
    BY <1>1, <2>1, <2>4, Multiples
  <2>6. i + 3 * P <= Q
    BY <1>1, <2>1, <2>5
  <2>7. m * P \in Nat /\ i = 2 * (m * P) + P
    BY <1>1, <1>2, Z3
  <2> QED
    BY <1>1, <2>6, <2>7
<1>5. l + 2 <= n
  <2> SUFFICES ASSUME l + 1 = n PROVE FALSE
    OBVIOUS
  <2>1. Q = 2 * P
    BY <1>1
  <2> HIDE DEF P, Q
  <2> QED
    BY <1>1, <1>4, <2>1
<1> DEFINE x == i + (Pow[l + 2] - (i % Pow[l + 2]))
           p == Partner(l)
<1>6. p \in (l + 2)..n /\ OddMultiple(x, p)
  <2>1. n \in 0..30 /\ i < Pow[n]
    BY <1>1
  <2> QED
    BY <1>5, <2>1, Carry
<1>7. p \in 0..n /\ Pow[p + 1] >= 8 * P /\ l + 1 \in 0..n /\ Pow[l + 2] = 4 * P
  <2>1. p \in 0..n /\ p \in 0..30 /\ l + 1 \in 0..31 /\ p \in 0..31 /\ l + 1 < p
    BY <1>6
  <2>2. Pow[p + 1] = 2 * Pow[p] /\ Pow[p] \in Nat
    BY <2>1, PowStep
  <2>3. PICK g \in Nat : g >= 1 /\ Pow[p] = 2 * (g * Pow[l + 1])
    BY <2>1, PowDivides
  <2>4. Pow[p] = 4 * (g * P)
    <3> HIDE DEF P
    <3> QED
      BY <1>1, <2>3, Z3
  <2>5. g * P >= P /\ g * P \in Nat
    <3> HIDE DEF P
    <3> QED
      BY <1>1, <2>3, Z3
  <2>6. l + 1 + 1 = l + 2
    OBVIOUS
  <2> QED
    BY <1>1, <1>5, <2>1, <2>2, <2>4, <2>5, <2>6
<1>8. CASE \E h \in Nat : m = 2 * h
  <2>1. PICK h \in Nat : m = 2 * h
    BY <1>8
  <2> DEFINE R == 4 * P
  <2>2. i = R * h + P /\ R \in Nat /\ R >= 1 /\ P < R
    <3> HIDE DEF P
    <3> QED
      BY <1>1, <1>2, <2>1, Z3
  <2>3. i % R = P
    <3> HIDE DEF P, R
    <3> QED
      BY <1>1, <2>2, Division
  <2>4. x = i + 3 * P
    <3>1. x = i + (R - (i % R))
      BY <1>7
    <3> HIDE DEF x, R
    <3>2. x = i + (R - P)
      BY <2>3, <3>1
    <3>3. R = 4 * P
      BY DEF R
    <3> HIDE DEF P
    <3> QED
      BY <1>1, <3>2, <3>3
  <2>5. w[p] = i + 3 * P
    <3>1. x \in Nat /\ i <= x /\ x < i + Pow[p + 1] /\ x <= Pow[n]
      <4>1. Pow[p + 1] \in Int
        <5>1. p + 1 \in 0..31
          BY <1>6
        <5> HIDE DEF p
        <5> QED
          BY <5>1, PowStep
      <4> HIDE DEF P, Q, x, p
      <4>2. Pow[n] = Q
        BY DEF Q
      <4> QED
        BY <1>1, <1>4, <1>7, <2>4, <4>1, <4>2
    <3> HIDE DEF x, p, P
    <3> QED
      BY <1>6, <1>7, <2>4, <3>1
  <2>6. w[l + 1] = i + P
    <3> DEFINE y == i + P
    <3>1. y = (2 * h + 1) * Pow[l + 1]
      <4> HIDE DEF P
      <4> QED
        BY <1>1, <1>2, <2>1, Z3
    <3>2. OddMultiple(y, l + 1)
      BY <3>1 DEF OddMultiple
    <3>3. y \in Nat /\ i <= y /\ y < i + Pow[l + 1 + 1] /\ y <= Pow[n]
      <4> HIDE DEF P
      <4> QED
        BY <1>1, <1>4
    <3> HIDE DEF y
    <3>4. w[l + 1] = y
      BY <1>7, <3>2, <3>3
    <3> QED
      BY <3>4 DEF y
  <2> QED
    BY <1>5, <2>5, <2>6
<1>9. CASE \E h \in Nat : m = 2 * h + 1
  <2>1. PICK h \in Nat : m = 2 * h + 1
    BY <1>9
  <2> DEFINE R == 4 * P
             S == 3 * P
  <2>2. i = R * h + S /\ R \in Nat /\ R >= 1 /\ S < R /\ S \in Nat
    <3> HIDE DEF P
    <3> QED
      BY <1>1, <1>2, <2>1, Z3
  <2>3. i % R = S
    <3> HIDE DEF P, R, S
    <3> QED
      BY <1>1, <2>2, Division
  <2>4. x = i + P
    <3>1. x = i + (R - (i % R))
      BY <1>7
    <3> HIDE DEF x, R, S
    <3>2. x = i + (R - S)
      BY <2>3, <3>1
    <3>3. R = 4 * P /\ S = 3 * P
      BY DEF R, S
    <3> HIDE DEF P
    <3> QED
      BY <1>1, <3>2, <3>3
  <2>5. w[p] = i + P
    <3>1. x \in Nat /\ i <= x /\ x < i + Pow[p + 1] /\ x <= Pow[n]
      <4>1. Pow[p + 1] \in Int
        <5>1. p + 1 \in 0..31
          BY <1>6
        <5> HIDE DEF p
        <5> QED
          BY <5>1, PowStep
      <4> HIDE DEF P, Q, x, p
      <4>2. Pow[n] = Q
        BY DEF Q
      <4> QED
        BY <1>1, <1>4, <1>7, <2>4, <4>1, <4>2
    <3> HIDE DEF x, p, P
    <3> QED
      BY <1>6, <1>7, <2>4, <3>1
  <2>6. w[l + 1] = i + 3 * P
    <3> DEFINE y == i + 3 * P
    <3>1. y = (2 * (h + 1) + 1) * Pow[l + 1] /\ h + 1 \in Nat
      <4> HIDE DEF P
      <4> QED
        BY <1>1, <1>2, <2>1, Z3
    <3>2. OddMultiple(y, l + 1)
      BY <3>1 DEF OddMultiple
    <3>3. y \in Nat /\ i <= y /\ y < i + Pow[l + 1 + 1] /\ y <= Pow[n]
      <4> HIDE DEF P
      <4> QED
        BY <1>1, <1>4
    <3> HIDE DEF y
    <3>4. w[l + 1] = y
      BY <1>7, <3>2, <3>3
    <3> QED
      BY <3>4 DEF y
  <2> QED
    BY <1>5, <2>5, <2>6
<1>10. (\E h \in Nat : m = 2 * h) \/ (\E h \in Nat : m = 2 * h + 1)
  <2>1. /\ m \div 2 \in Nat
        /\ m = 2 * (m \div 2) \/ m = 2 * (m \div 2) + 1
    OBVIOUS
  <2> QED
    BY <2>1
<1> QED
  BY <1>8, <1>9, <1>10

-----------------------------------------------------------------------------
(* The invariant.                                                          *)

\* w has the angles that are still to come.
Kept(l) ==
    \A x \in Nat :
        OddMultiple(x, l) /\ i <= x /\ x < i + Pow[l + 1] /\ x <= Pow[log - 1] => w[l] = x

TypeInv ==
    /\ kind \in {"pow2", "real"}
    /\ log \in 1..28
    /\ pc \in {"load", "fill", "middle", "done"}
    /\ i \in 1..Pow[log - 1]
    /\ w \in [0..31 -> Int]
    /\ table \in [0..(Pow[log] - 1) -> Int]

\* The slots are filled from both ends.
Filled == \A k \in 0..(Pow[log] - 1) : k < i \/ k > Pow[log] - i => table[k] = k

GeneratorInv ==
    /\ TypeInv
    /\ Filled
    /\ pc = "load" => log >= 2 /\ i = 1
    /\ pc = "fill" => log >= 2 /\ \A l \in 0..(log - 1) : Kept(l)
    /\ pc \in {"middle", "done"} => i = Pow[log - 1]
    /\ pc = "done" => table[i] = i

\* What the constants of the module are in terms of the powers.
LEMMA Sizes ==
    ASSUME TypeInv
    PROVE  /\ Top = Pow[log] /\ Top = 2 * Pow[log - 1] /\ Top \div 2 = Pow[log - 1]
           /\ Pow[log - 1] \in Nat /\ Pow[log - 1] >= 1
<1>0. log \in 1..28
  BY DEF TypeInv
<1>1. log \in 0..31 /\ log - 1 \in 0..31 /\ log - 1 \in 0..30 /\ log - 1 + 1 = log
  BY <1>0
<1>2. /\ 2^log = Pow[log] /\ Pow[log - 1 + 1] = 2 * Pow[log - 1]
      /\ Pow[log - 1] \in Nat /\ Pow[log - 1] >= 1
  BY <1>1, PowStep
<1> HIDE DEF Pow
<1>3. Pow[log] = 2 * Pow[log - 1]
  BY <1>1, <1>2
<1> QED
  BY <1>2, <1>3 DEF Top

LEMMA InitialTables == Init => GeneratorInv
<1> SUFFICES ASSUME Init PROVE GeneratorInv
  OBVIOUS
<1>1. kind \in {"pow2", "real"} /\ log \in 1..28 /\ i = 1
  BY LogsAssumption, KindsAssumption DEF Init
<1>2. 2^log = Pow[log] /\ Pow[log - 1] \in Nat /\ Pow[log - 1] >= 1 /\ Pow[log] \in Nat
  <2>1. log \in 0..31 /\ log - 1 \in 0..31
    BY <1>1
  <2> QED
    BY <2>1, PowStep
<1>3. table = [k \in 0..(Pow[log] - 1) |-> IF k = 0 THEN 0 ELSE Unknown]
  BY <1>2 DEF Init
<1>4. TypeInv
  <2>1. w \in [0..31 -> Int]
    BY DEF Init, Unknown
  <2>2. table \in [0..(Pow[log] - 1) -> Int]
    BY <1>3 DEF Unknown
  <2>3. pc \in {"load", "fill", "middle", "done"} /\ i \in 1..Pow[log - 1]
    BY <1>1, <1>2 DEF Init
  <2> QED
    BY <1>1, <2>1, <2>2, <2>3 DEF TypeInv
<1>5. Filled
  BY <1>1, <1>2, <1>3 DEF Filled
<1>6. log = 1 => i = Pow[log - 1]
  BY <1>1, PowStep
<1>7. pc = IF log = 1 THEN "middle" ELSE "load"
  BY DEF Init
<1> QED
  BY <1>1, <1>4, <1>5, <1>6, <1>7 DEF GeneratorInv

\* In the beginning w has the powers themselves.
LEMMA LoadKeeps == GeneratorInv /\ Load => GeneratorInv'
<1> SUFFICES ASSUME GeneratorInv, Load PROVE GeneratorInv'
  OBVIOUS
<1>1. TypeInv /\ Filled /\ log >= 2 /\ i = 1
  BY DEF GeneratorInv, Load
<1>2. UNCHANGED <<kind, log, i, table>> /\ pc' = "fill"
  BY DEF Load
<1>3. w' = [l \in 0..31 |-> IF l <= LastLoaded /\ Start + l <= LastAngle THEN Pow[l] ELSE Unknown]
  BY PowStep DEF Load
<1>4. TypeInv'
  <2>1. w' \in [0..31 -> Int]
    BY <1>3, PowStep DEF Unknown
  <2> QED
    BY <1>1, <1>2, <2>1 DEF TypeInv
<1>5. Filled'
  BY <1>1, <1>2 DEF Filled
<1>6. ASSUME NEW l \in 0..(log - 1) PROVE Kept(l)'
  <2>1. l \in 0..31 /\ l \in 0..30 /\ l <= LastLoaded /\ Start + l <= LastAngle
    <3>1. log \in 1..28 /\ kind \in {"pow2", "real"}
      BY <1>1 DEF TypeInv
    <3> QED
      BY <3>1 DEF LastLoaded, Start, LastAngle
  <2>2. w'[l] = Pow[l]
    BY <1>3, <2>1
  <2>3. Pow[l] \in Nat /\ Pow[l] >= 1 /\ Pow[l + 1] = 2 * Pow[l]
    BY <2>1, PowStep
  <2>4. OddMultiple(Pow[l], l)
    <3>1. Pow[l] = (2 * 0 + 1) * Pow[l]
      BY <2>3
    <3> QED
      BY <3>1 DEF OddMultiple
  <2>5. ASSUME NEW x \in Nat, OddMultiple(x, l), 1 <= x, x < 1 + Pow[l + 1]
        PROVE  x = Pow[l]
    <3> DEFINE P == Pow[l]
    <3>1. P \in Nat /\ OddMultiple(P, l) /\ 1 <= P /\ P < 1 + Pow[l + 1] /\ 1 \in Int
      BY <2>3, <2>4
    <3>2. l \in 0..30
      BY <2>1
    <3> HIDE DEF P
    <3>3. x = P
      BY <2>5, <3>1, <3>2, NextOdd
    <3> QED
      BY <3>3 DEF P
  <2> QED
    BY <1>1, <1>2, <2>2, <2>5 DEF Kept
<1> QED
  BY <1>1, <1>2, <1>4, <1>5, <1>6 DEF GeneratorInv

\* The angle that is stored is i; the entry of w is then the next one for its power.
LEMMA FillKeeps == GeneratorInv /\ Fill => GeneratorInv'
<1> SUFFICES ASSUME GeneratorInv, Fill PROVE GeneratorInv'
  OBVIOUS
<1> DEFINE Q == Pow[log - 1]
           l == TrailingZeros(i)
<1>1. /\ TypeInv /\ Filled /\ log >= 2
      /\ Top = Pow[log] /\ Top = 2 * Q /\ Top \div 2 = Q /\ Q \in Nat /\ Q >= 1
  BY Sizes DEF GeneratorInv, Fill
<1>2. \A e \in 0..(log - 1) : Kept(e)
  BY DEF GeneratorInv, Fill
<1>3. log \in 2..28 /\ i \in Nat /\ 1 <= i /\ i < Q
  <2>1. log \in 1..28 /\ i \in 1..Q
    BY <1>1 DEF TypeInv
  <2>2. i < Q
    BY <1>1 DEF Fill
  <2> HIDE DEF Q
  <2> QED
    BY <1>1, <2>1, <2>2
<1>4. l \in Nat /\ l < log - 1 /\ OddMultiple(i, l)
  <2>1. log - 1 \in 0..31
    BY <1>3
  <2>2. PICK e \in Nat : e < log - 1 /\ OddMultiple(i, e)
    BY <1>3, <2>1, OddExists
  <2>3. e \in 0..31
    BY <1>3, <2>2
  <2>4. l = e
    BY <1>3, <2>2, <2>3, Zeros
  <2> QED
    BY <2>2, <2>4
<1>5. /\ table' = [table EXCEPT ![i] = w[l], ![Top - i] = Mirror(w[l])]
      /\ w' = [w EXCEPT ![l] = Mean(l, w[l + 1], w[Partner(l)])]
      /\ i' = i + 1 /\ UNCHANGED <<kind, log, pc>> /\ pc = "fill"
  BY DEF Fill
<1> HIDE DEF l
<1> DEFINE P == Pow[l]
<1>6. /\ l \in 0..30 /\ l \in 0..31 /\ l \in 0..(log - 1)
      /\ P \in Nat /\ P >= 1 /\ Pow[l + 1] = 2 * P
  <2>1. l \in 0..30 /\ l \in 0..31 /\ l \in 0..(log - 1)
    BY <1>3, <1>4
  <2> QED
    BY <2>1, PowStep
<1> HIDE DEF Q, P
<1>7. w[l] = i
  <2>1. i < i + Pow[l + 1] /\ i <= Pow[log - 1] /\ i <= i
    BY <1>1, <1>3, <1>6 DEF Q
  <2> QED
    BY <1>2, <1>3, <1>4, <1>6, <2>1 DEF Kept
<1>8. Mirror(w[l]) = Top - i
  BY <1>3, <1>7 DEF Mirror, Unknown
<1>9. TypeInv'
  <2>1. Mean(l, w[l + 1], w[Partner(l)]) \in Int
    <3> DEFINE a == w[l + 1]
               b == w[Partner(l)]
    <3> HIDE DEF a, b
    <3>1. a \in Int
      <4>1. l + 1 \in 0..31
        BY <1>3, <1>4
      <4> QED
        BY <1>1, <4>1 DEF TypeInv, a
    <3>2. ASSUME a - b \in {2^(l + 1), -(2^(l + 1))} PROVE (a + b) \div 2 \in Int
      <4> DEFINE g == 2^(l + 1)
      <4>1. g \in Int
        <5>1. l + 1 \in 0..31
          BY <1>6
        <5> QED
          BY <1>6, <5>1, PowStep
      <4>2. a - b \in {g, -g}
        BY <3>2
      <4> HIDE DEF g
      <4>3. b \in Int
        <5>1. Partner(l) \in (l + 2)..log
          <6>1. log \in 0..30 /\ l + 2 <= log /\ i < Pow[log]
            BY <1>1, <1>3, <1>4
          <6> QED
            BY <1>3, <1>4, <6>1, Carry
        <5>2. Partner(l) \in 0..31
          BY <1>3, <1>4, <5>1
        <5> QED
          BY <1>1, <5>2 DEF TypeInv, b
      <4> QED
        BY <3>1, <4>3
    <3>3. Mean(l, a, b) \in Int
      BY <3>1, <3>2 DEF Mean, Unknown
    <3> QED
      BY <3>3 DEF a, b
  <2>2. w' \in [0..31 -> Int]
    BY <1>1, <1>5, <2>1 DEF TypeInv
  <2>3. table' \in [0..(Pow[log] - 1) -> Int]
    <3>1. i \in 0..(Pow[log] - 1) /\ Top - i \in 0..(Pow[log] - 1) /\ i \in Int /\ Top - i \in Int
      BY <1>1, <1>3
    <3>2. table \in [0..(Pow[log] - 1) -> Int]
      BY <1>1 DEF TypeInv
    <3>3. table' = [table EXCEPT ![i] = i, ![Top - i] = Top - i]
      BY <1>5, <1>7, <1>8
    <3> QED
      BY <3>1, <3>2, <3>3
  <2>4. i' \in 1..Q
    BY <1>1, <1>3, <1>5
  <2> QED
    BY <1>1, <1>5, <2>2, <2>3, <2>4 DEF TypeInv, Q
<1>10. Filled'
  <2> SUFFICES ASSUME NEW k \in 0..(Top - 1), k < i + 1 \/ k > Top - (i + 1)
               PROVE  table'[k] = k
    BY <1>1, <1>5 DEF Filled
  <2>1. table'[k] = IF k = Top - i THEN Top - i ELSE IF k = i THEN i ELSE table[k]
    BY <1>1, <1>3, <1>5, <1>7, <1>8 DEF TypeInv
  <2>2. k # i /\ k # Top - i => k < i \/ k > Top - i
    BY <1>1, <1>3
  <2> QED
    BY <1>1, <2>1, <2>2 DEF Filled
<1>11. ASSUME NEW e \in 0..(log - 1) PROVE Kept(e)'
  <2> SUFFICES ASSUME NEW x \in Nat, OddMultiple(x, e), i + 1 <= x, x < i + 1 + Pow[e + 1], x <= Q
               PROVE  w'[e] = x
    BY <1>5 DEF Kept, Q
  <2>1. /\ e \in 0..30 /\ e \in 0..31
        /\ Pow[e] \in Nat /\ Pow[e] >= 1 /\ Pow[e + 1] = 2 * Pow[e]
    <3>1. e \in 0..30 /\ e \in 0..31
      BY <1>3
    <3> QED
      BY <3>1, PowStep
  <2>2. PICK q \in Nat : x = (2 * q + 1) * Pow[e]
    BY DEF OddMultiple
  <2>3. x = i + Pow[e + 1] => OddMultiple(i, e)
    <3> SUFFICES ASSUME x = i + Pow[e + 1] PROVE OddMultiple(i, e)
      OBVIOUS
    <3> DEFINE R == Pow[e]
    <3>1. R \in Nat /\ R >= 1 /\ x = (2 * q + 1) * R /\ x = i + 2 * R
      BY <2>1, <2>2
    <3> HIDE DEF R
    <3>2. q # 0
      BY <1>3, <3>1
    <3>3. q - 1 \in Nat /\ i = (2 * (q - 1) + 1) * R
      BY <1>3, <3>1, <3>2, Z3
    <3> QED
      BY <3>3 DEF OddMultiple, R
  <2>4. CASE e # l
    <3>1. x # i + Pow[e + 1]
      BY <1>3, <1>4, <1>6, <2>1, <2>3, <2>4, OddUnique
    <3>2. i <= x /\ x < i + Pow[e + 1]
      BY <1>3, <2>1, <3>1
    <3>3. w[e] = x
      BY <1>2, <3>2 DEF Kept, Q
    <3>4. w'[e] = w[e]
      BY <1>1, <1>5, <1>6, <2>1, <2>4 DEF TypeInv
    <3> QED
      BY <3>3, <3>4
  <2>5. CASE e = l
    <3>1. x = i + 2 * P
      <4> DEFINE y == i + 2 * P
      <4>1. OddMultiple(y, e) /\ y \in Nat
        <5>1. PICK r \in Nat : i = (2 * r + 1) * P
          BY <1>4 DEF OddMultiple, P
        <5>2. y = (2 * (r + 1) + 1) * P /\ r + 1 \in Nat /\ y \in Nat
          BY <1>3, <1>6, <5>1, Z3
        <5> QED
          BY <2>5, <5>2 DEF OddMultiple, P
      <4>2. i + 1 <= y /\ y < i + 1 + Pow[e + 1]
        BY <1>3, <1>6, <2>5
      <4> HIDE DEF y
      <4>3. x = y
        <5>1. i + 1 \in Int
          BY <1>3
        <5> QED
          BY <2>1, <4>1, <4>2, <5>1, NextOdd
      <4> QED
        BY <4>3 DEF y
    <3>2. /\ l + 2 <= log - 1
          /\ \/ w[l + 1] = i + P /\ w[Partner(l)] = i + 3 * P
             \/ w[l + 1] = i + 3 * P /\ w[Partner(l)] = i + P
      <4>1. log - 1 \in 0..27 /\ i + 2 * Pow[l] <= Pow[log - 1]
        BY <1>3, <3>1 DEF P, Q
      <4> QED
        BY <1>2, <1>3, <1>4, <4>1, MeanIsNext DEF Kept, P
    <3>3. 2^(l + 1) = 2 * P
      <4>1. l + 1 \in 0..31
        BY <1>6
      <4> QED
        BY <1>6, <4>1, PowStep
    <3>4. Start + l <= LastSecant
      BY <1>3, <1>4, <3>2 DEF Start, LastSecant
    <3> DEFINE a == w[l + 1]
               b == w[Partner(l)]
    <3> HIDE DEF a, b
    <3>5. /\ a \in Nat /\ b \in Nat /\ a + b = 2 * x
          /\ a - b = 2 * P \/ a - b = -(2 * P)
      BY <1>3, <1>6, <3>1, <3>2 DEF a, b
    <3>6. (a + b) \div 2 = x
      BY <3>5
    <3>7. Mean(l, a, b) = x
      BY <3>3, <3>4, <3>5, <3>6 DEF Mean, Unknown
    <3> QED
      BY <1>1, <1>5, <1>6, <2>5, <3>7 DEF TypeInv, a, b
  <2> QED
    BY <2>4, <2>5
<1>12. pc' = "fill" /\ log' = log
  BY <1>5
<1> QED
  BY <1>1, <1>9, <1>10, <1>11, <1>12 DEF GeneratorInv

LEMMA FillEndsKeeps == GeneratorInv /\ FillEnds => GeneratorInv'
<1> SUFFICES ASSUME GeneratorInv, FillEnds PROVE GeneratorInv'
  OBVIOUS
<1>1. TypeInv /\ Filled /\ i = Pow[log - 1]
  BY Sizes DEF GeneratorInv, FillEnds
<1>2. UNCHANGED <<kind, log, i, w, table>> /\ pc' = "middle"
  BY DEF FillEnds
<1>3. TypeInv' /\ Filled'
  BY <1>1, <1>2 DEF TypeInv, Filled
<1> QED
  BY <1>1, <1>2, <1>3 DEF GeneratorInv

LEMMA MiddleKeeps == GeneratorInv /\ Middle => GeneratorInv'
<1> SUFFICES ASSUME GeneratorInv, Middle PROVE GeneratorInv'
  OBVIOUS
<1> DEFINE Q == Pow[log - 1]
<1>1. /\ TypeInv /\ Filled /\ i = Q /\ Q \in Nat /\ Q >= 1
      /\ Top = Pow[log] /\ Top = 2 * Q /\ Top \div 2 = Q
  BY Sizes DEF GeneratorInv, Middle
<1>2. /\ UNCHANGED <<kind, log, i, w>> /\ pc' = "done"
      /\ table' = [table EXCEPT ![i] = Q]
  BY <1>1 DEF Middle
<1> HIDE DEF Q
<1>3. i \in 0..(Pow[log] - 1)
  BY <1>1
<1>4. TypeInv'
  <2>1. table' \in [0..(Pow[log] - 1) -> Int]
    BY <1>1, <1>2, <1>3 DEF TypeInv
  <2> QED
    BY <1>1, <1>2, <2>1 DEF TypeInv
<1>5. table'[i] = i
  BY <1>1, <1>2, <1>3 DEF TypeInv
<1>6. Filled'
  BY <1>1, <1>2, <1>3, <1>5 DEF TypeInv, Filled
<1> QED
  BY <1>1, <1>2, <1>4, <1>5, <1>6 DEF GeneratorInv, Q

LEMMA GeneratorInductive == GeneratorInv /\ [Next]_vars => GeneratorInv'
<1> SUFFICES ASSUME GeneratorInv, [Next]_vars PROVE GeneratorInv'
  OBVIOUS
<1>1. CASE Load
  BY <1>1, LoadKeeps
<1>2. CASE Fill
  BY <1>2, FillKeeps
<1>3. CASE FillEnds
  BY <1>3, FillEndsKeeps
<1>4. CASE Middle
  BY <1>4, MiddleKeeps
<1>5. CASE UNCHANGED vars
  BY <1>5 DEF vars, GeneratorInv, TypeInv, Filled, Kept
<1> QED
  BY <1>1, <1>2, <1>3, <1>4, <1>5 DEF Next

LEMMA CompleteThen == GeneratorInv => TableComplete
<1> SUFFICES ASSUME GeneratorInv, pc = "done", NEW k \in 0..(Top - 1) PROVE table[k] = k
  BY DEF TableComplete
<1>1. /\ TypeInv /\ Filled /\ i = Pow[log - 1] /\ table[i] = i
      /\ Top = Pow[log] /\ Top = 2 * Pow[log - 1] /\ Pow[log - 1] \in Nat
  BY Sizes DEF GeneratorInv
<1>2. k < i \/ k > Pow[log] - i \/ k = i
  BY <1>1
<1> QED
  BY <1>1, <1>2 DEF Filled

-----------------------------------------------------------------------------
(* The theorems.                                                           *)

\* The generator of either kind fills every slot with its own angle, for every number
\* of slots up to 2^28 (ffts_trig.c, ffts_generate_cosine_sine_pow2_32f and _64f,
\* ffts_generate_table_1d_real_32f).
THEOREM AlwaysComplete == Spec => []TableComplete
<1>1. Init => GeneratorInv
  BY InitialTables
<1>2. GeneratorInv /\ [Next]_vars => GeneratorInv'
  BY GeneratorInductive
<1>3. GeneratorInv => TableComplete
  BY CompleteThen
<1> QED
  BY <1>1, <1>2, <1>3, PTL DEF Spec

\* The plans that are made from the tables, and executed, leave them as they are.
LEMMA PlansKeepTables == NextTables => [Next]_vars
<1> SUFFICES ASSUME NextTables PROVE Next \/ UNCHANGED vars
  OBVIOUS
<1>1. CASE RealPlans
  BY <1>1 DEF RealPlans, Next1d, MakeTable, ExecuteReal, ExecuteRealInv, TwoFloats, FourFloats, Finish
<1>2. ASSUME NEW b \in Twiddles!LutBuilds, BeginTwiddles(b) PROVE UNCHANGED vars
  BY <1>2 DEF BeginTwiddles
<1>3. CASE PickTwiddles
  BY <1>3 DEF PickTwiddles
<1> QED
  BY <1>1, <1>2, <1>3 DEF NextTables

\* The tables are complete whenever a plan is made from them (ffts_trig.c; ffts.c:254,
\* ffts_real.c:603), for every number of slots up to 2^28.
THEOREM TablesAlwaysComplete == SpecTables => []TableComplete
<1>1. InitTables => GeneratorInv
  BY InitialTables DEF InitTables, Init1d
<1>2. GeneratorInv /\ [NextTables]_<<vars, realVars, lutVars>> => GeneratorInv'
  <2> SUFFICES ASSUME GeneratorInv, [NextTables]_<<vars, realVars, lutVars>> PROVE GeneratorInv'
    OBVIOUS
  <2>1. [Next]_vars
    BY PlansKeepTables
  <2> QED
    BY <2>1, GeneratorInductive
<1>3. GeneratorInv => TableComplete
  BY CompleteThen
<1> QED
  BY <1>1, <1>2, <1>3, PTL DEF SpecTables

-----------------------------------------------------------------------------
(* Twiddle factors: the levels in p->ws.                                   *)

\* Twiddle factors of a group, complex numbers they take, and how many for each.
Wide(b) == IF b = "sse" THEN 2 ELSE IF b = "neon" THEN 4 ELSE 1
Room(b) == IF b = "vfp" THEN 1 ELSE 4
Spread(b) == IF b = "sse" THEN 2 ELSE 1

\* Groups that belong together, twiddle factors of one kind, and the start of level l.
LutParts(l) == IF l = 0 THEN 1 ELSE 3
LutWidth(l) == IF l = 0 THEN 4 ELSE Pow[l + 1]
LutBegins(l) == IF l = 0 THEN 0 ELSE Spread(lutBuild) * (3 * Pow[l + 1] - 8)

\* The angle of twiddle factor k in one of the parts of level l.
LutAngle(l, part, k) ==
    IF l = 0 THEN k * Pow[s - 4]
    ELSE (IF part = 1 THEN 2 * k ELSE IF part = 2 THEN k ELSE Pow[l + 1] + k) * Pow[s - 4 - l]

\* Where group q of a part goes.
LutPlace(l, q, part) == LutBegins(l) + (q * LutParts(l) + part - 1) * Room(lutBuild)

LutTyped ==
    /\ lutBuild \in {"sse", "neon", "vfp"}
    /\ s \in 5..30 /\ log = s - 2
    /\ pc = "done"
    /\ level \in 0..(s - 3)
    /\ points = Pow[level + 4]
    /\ level < s - 3 => stride = Pow[s - 4 - level]
    /\ first \in 0..LutWidth(level)
    /\ first = (first \div Wide(lutBuild)) * Wide(lutBuild)
    /\ level = s - 3 => first = 0
    /\ begin = LutBegins(level)

LutOffsets ==
    /\ wsIs \in Seq(Int)
    /\ Len(wsIs) = level + (IF first = 0 THEN 0 ELSE 1)
    /\ \A l \in 0..(Len(wsIs) - 1) : wsIs[l + 1] = LutBegins(l)

LutEnd == begin + ((first \div Wide(lutBuild)) * LutParts(level)) * Room(lutBuild)

LutWithin == \A p \in DOMAIN ws : p \in Nat /\ p + Room(lutBuild) <= LutEnd

\* What is written of level l.
LutSoFar(l) == IF l < level THEN LutWidth(l) ELSE first

LutHolds(l, part, q) ==
    /\ LutPlace(l, q, part) \in DOMAIN ws
    /\ \A r \in 0..(Wide(lutBuild) - 1) :
           ws[LutPlace(l, q, part)][r + 1] = LutAngle(l, part, q * Wide(lutBuild) + r)

LutContent ==
    \A l \in 0..level : \A part \in 1..LutParts(l) : \A q \in Nat :
        q * Wide(lutBuild) < LutSoFar(l) => LutHolds(l, part, q)

LutInv ==
    \/ s = 0 /\ level = 0 /\ first = 0 /\ begin = 0 /\ ws = <<>> /\ wsIs = <<>>
    \/ LutTyped /\ LutOffsets /\ LutWithin /\ LutContent

LEMMA PowLess ==
    ASSUME NEW a \in 0..31, NEW b \in 0..31
    PROVE  /\ a < b => Pow[a] < Pow[b]
           /\ a <= b => Pow[a] <= Pow[b]
           /\ Pow[a] = Pow[b] => a = b
<1>1. ASSUME NEW x \in 0..31, NEW y \in 0..31, x < y PROVE Pow[x] < Pow[y]
  <2>1. PICK d \in Nat : d >= 1 /\ Pow[y] = 2 * (d * Pow[x])
    BY <1>1, PowDivides
  <2> DEFINE P == Pow[x]
  <2>2. P \in Nat /\ P >= 1 /\ Pow[y] = 2 * (d * P)
    BY <2>1, PowStep
  <2> HIDE DEF P
  <2>3. d * P >= P /\ d * P \in Nat
    BY <2>1, <2>2, Z3
  <2>4. P < Pow[y]
    BY <2>2, <2>3
  <2> QED
    BY <2>4 DEF P
<1>2. Pow[a] \in Nat /\ Pow[b] \in Nat
  BY PowStep
<1>3. a < b \/ a = b \/ b < a
  OBVIOUS
<1>4. (a < b => Pow[a] < Pow[b]) /\ (b < a => Pow[b] < Pow[a])
  BY <1>1
<1> QED
  BY <1>2, <1>3, <1>4

LEMMA PowSum ==
    ASSUME NEW a \in 0..31, NEW b \in 0..31, a + b <= 31
    PROVE  Pow[a + b] = Pow[a] * Pow[b]
<1> DEFINE S == {n \in Nat : a + n <= 31 /\ Pow[a + n] # Pow[a] * Pow[n]}
<1>1. SUFFICES ASSUME S # {} PROVE FALSE
  <2>1. b \notin S
    BY <1>1
  <2> QED
    BY <2>1
<1> DEFINE m == LeastOf(S)
<1>2. m \in S /\ \A n \in S : m <= n
  BY <1>1, Least
<1> HIDE DEF m
<1> DEFINE P == Pow[a]
<1>3. P \in Nat
  BY PowStep
<1>4. m \in Nat /\ a + m <= 31 /\ Pow[a + m] # P * Pow[m]
  BY <1>2
<1> HIDE DEF P
<1>5. CASE m = 0
  BY <1>3, <1>4, <1>5, PowStep DEF P
<1>6. CASE m # 0
  <2>1. m - 1 \in Nat /\ m - 1 \notin S /\ a + (m - 1) <= 31
    BY <1>2, <1>4, <1>6
  <2>2. Pow[a + (m - 1)] = P * Pow[m - 1]
    BY <2>1 DEF P
  <2>3. m - 1 \in 0..30 /\ a + (m - 1) \in 0..30 /\ m - 1 + 1 = m /\ a + (m - 1) + 1 = a + m
    BY <1>4, <2>1
  <2>4. Pow[m] = 2 * Pow[m - 1] /\ Pow[a + m] = 2 * Pow[a + (m - 1)] /\ Pow[m - 1] \in Nat
    <3> DEFINE x == m - 1
               y == a + (m - 1)
    <3>1. x \in 0..30 /\ y \in 0..30 /\ x \in 0..31 /\ x + 1 = m /\ y + 1 = a + m
      BY <2>3
    <3> HIDE DEF x, y
    <3>2. Pow[x + 1] = 2 * Pow[x] /\ Pow[y + 1] = 2 * Pow[y] /\ Pow[x] \in Nat
      BY <3>1, PowStep
    <3>3. Pow[m] = 2 * Pow[x] /\ Pow[a + m] = 2 * Pow[y]
      BY <3>1, <3>2
    <3> QED
      BY <3>2, <3>3 DEF x, y
  <2> DEFINE Q == Pow[m - 1]
  <2>5. P * (2 * Q) = 2 * (P * Q)
    <3>1. Q \in Nat
      BY <2>4
    <3> HIDE DEF Q
    <3> QED
      BY <1>3, <3>1, Z3
  <2> QED
    BY <1>4, <2>2, <2>4, <2>5
<1> QED
  BY <1>5, <1>6

LEMMA GroupSizes ==
    ASSUME lutBuild \in {"sse", "neon", "vfp"}
    PROVE  /\ Twiddles!Group = Wide(lutBuild) /\ Twiddles!GroupSize = Room(lutBuild)
           /\ Wide(lutBuild) \in {1, 2, 4} /\ Room(lutBuild) \in {1, 4}
           /\ Spread(lutBuild) \in {1, 2} /\ Room(lutBuild) = Spread(lutBuild) * Wide(lutBuild)
<1>1. CASE lutBuild = "sse"
  BY <1>1 DEF Wide, Room, Spread, Twiddles!Group, Twiddles!GroupSize
<1>2. CASE lutBuild = "neon"
  BY <1>2 DEF Wide, Room, Spread, Twiddles!Group, Twiddles!GroupSize
<1>3. CASE lutBuild = "vfp"
  BY <1>3 DEF Wide, Room, Spread, Twiddles!Group, Twiddles!GroupSize
<1> QED
  BY <1>1, <1>2, <1>3

\* Where one level ends the next one begins.
LEMMA LevelEnds ==
    ASSUME lutBuild \in {"sse", "neon", "vfp"}, NEW l \in 0..29
    PROVE  /\ LutWidth(l) \in Nat /\ LutWidth(l) >= 4
           /\ LutWidth(l) = (LutWidth(l) \div Wide(lutBuild)) * Wide(lutBuild)
           /\ LutBegins(l) \in Nat
           /\ LutBegins(l + 1) =
                LutBegins(l) + ((LutWidth(l) \div Wide(lutBuild)) * LutParts(l)) * Room(lutBuild)
<1> DEFINE V == Pow[l + 1]
<1>1. /\ V \in Nat /\ V >= 2 /\ Pow[l + 1 + 1] = 2 * V
      /\ l = 0 => V = 2
      /\ l >= 1 => \E c \in Nat : c >= 1 /\ V = 4 * c
  <2>1. l \in 0..30 /\ l \in 0..31 /\ l + 1 \in 0..30 /\ l + 1 \in 0..31
    OBVIOUS
  <2>2. V = 2 * Pow[l] /\ Pow[l] \in Nat /\ Pow[l] >= 1 /\ Pow[l + 1 + 1] = 2 * V
    BY <2>1, PowStep
  <2>3. l = 0 => V = 2
    BY <2>2, PowStep
  <2>4. ASSUME l >= 1 PROVE \E c \in Nat : c >= 1 /\ V = 4 * c
    <3>1. l - 1 \in 0..30 /\ l - 1 \in 0..31 /\ l - 1 + 1 = l
      BY <2>4
    <3>2. Pow[l] = 2 * Pow[l - 1] /\ Pow[l - 1] \in Nat /\ Pow[l - 1] >= 1
      BY <3>1, PowStep
    <3>3. V = 4 * Pow[l - 1]
      BY <2>2, <3>2
    <3> QED
      BY <3>2, <3>3
  <2> QED
    BY <2>2, <2>3, <2>4
<1> HIDE DEF V
<1>2. /\ LutWidth(l) = IF l = 0 THEN 4 ELSE V
      /\ LutBegins(l) = IF l = 0 THEN 0 ELSE Spread(lutBuild) * (3 * V - 8)
      /\ LutBegins(l + 1) = Spread(lutBuild) * (6 * V - 8)
  <2>1. l + 1 # 0 /\ Pow[l + 1 + 1] = 2 * V
    BY <1>1
  <2>2. LutBegins(l + 1) = Spread(lutBuild) * (3 * Pow[l + 1 + 1] - 8)
    BY <2>1 DEF LutBegins
  <2>3. 3 * (2 * V) - 8 = 6 * V - 8
    BY <1>1
  <2> QED
    BY <2>1, <2>2, <2>3 DEF V, LutBegins, LutWidth
<1>3. CASE l = 0
  BY <1>1, <1>2, <1>3 DEF Wide, Room, Spread, LutParts
<1>4. CASE l >= 1
  <2>1. PICK c \in Nat : c >= 1 /\ V = 4 * c
    BY <1>1, <1>4
  <2>2. /\ LutWidth(l) = 4 * c /\ LutBegins(l) = Spread(lutBuild) * (12 * c - 8)
        /\ LutBegins(l + 1) = Spread(lutBuild) * (24 * c - 8) /\ LutParts(l) = 3
    BY <1>2, <1>4, <2>1 DEF LutParts
  <2>3. (4 * c) \div 1 = 4 * c /\ (4 * c) \div 2 = 2 * c /\ (4 * c) \div 4 = c
    OBVIOUS
  <2>4. CASE lutBuild = "sse"
    BY <2>1, <2>2, <2>3, <2>4 DEF Wide, Room, Spread
  <2>5. CASE lutBuild = "neon"
    BY <2>1, <2>2, <2>3, <2>5 DEF Wide, Room, Spread
  <2>6. CASE lutBuild = "vfp"
    BY <2>1, <2>2, <2>3, <2>6 DEF Wide, Room, Spread
  <2> QED
    BY <2>4, <2>5, <2>6
<1> QED
  BY <1>3, <1>4

\* A plan begins with an empty p->ws.
LEMMA BeginKeeps ==
    ASSUME LeafLog = 3, GeneratorInv, LutInv, NEW b \in Twiddles!LutBuilds, BeginTwiddles(b)
    PROVE  LutInv'
<1>1. PICK size \in 1..(log + 3) : Twiddles!Begin(size, b)
  BY DEF BeginTwiddles
<1>2. /\ s = 0 /\ size >= 5 /\ lutBuild' = b /\ s' = size
      /\ DOMAIN table = 0..(Twiddles!TmpSize(size) - 1)
      /\ points' = Twiddles!Leaf * 2 /\ stride' = 2^(size - LeafLog - 1)
      /\ UNCHANGED <<level, first, begin, ws, wsIs>>
  BY <1>1 DEF Twiddles!Begin
<1>3. level = 0 /\ first = 0 /\ begin = 0 /\ ws = <<>> /\ wsIs = <<>>
  BY <1>2 DEF LutInv, LutTyped
<1>4. b \in {"sse", "neon", "vfp"} /\ pc = "done" /\ UNCHANGED <<log, pc>>
  BY DEF Twiddles!LutBuilds, BeginTwiddles, vars
<1>5. log \in 1..28 /\ table \in [0..(Pow[log] - 1) -> Int]
  BY DEF GeneratorInv, TypeInv
<1>6. size \in 5..31 /\ log \in 0..31 /\ size - 2 \in 0..31 /\ size - 4 \in 0..31
  BY <1>2, <1>5
<1>7. Twiddles!TmpSize(size) = Pow[size - 2]
  <2>1. LeafLog + (size - LeafLog - 2) = size - 2
    BY <1>6
  <2>2. Twiddles!TmpSize(size) = 2^(size - 2)
    BY <2>1 DEF Twiddles!TmpSize
  <2> QED
    BY <1>6, <2>2, PowStep
<1>8. log = size - 2
  <2> DEFINE x == Pow[log]
             y == Pow[size - 2]
  <2>1. x \in Nat /\ x >= 1 /\ y \in Nat /\ y >= 1
    BY <1>6, PowStep
  <2>2. 0..(x - 1) = 0..(y - 1)
    BY <1>2, <1>5, <1>7
  <2> HIDE DEF x, y
  <2>3. x - 1 \in 0..(y - 1) /\ y - 1 \in 0..(x - 1)
    <3>1. x - 1 \in 0..(x - 1) /\ y - 1 \in 0..(y - 1)
      BY <2>1
    <3> QED
      BY <2>2, <3>1
  <2>4. x = y
    BY <2>1, <2>3
  <2> QED
    BY <1>6, <2>4, PowLess DEF x, y
<1>9. points' = Pow[4] /\ stride' = Pow[size - 4]
  <2>1. Twiddles!Leaf = Pow[3] /\ Pow[4] = 2 * Pow[3] /\ Pow[3] \in Nat
    <3>1. 3 \in 0..31 /\ 3 \in 0..30
      OBVIOUS
    <3>2. Twiddles!Leaf = 2^3
      BY DEF Twiddles!Leaf
    <3>3. 2^3 = Pow[3] /\ Pow[3] \in Nat /\ Pow[3 + 1] = 2 * Pow[3]
      BY <3>1, PowStep
    <3> QED
      BY <3>2, <3>3
  <2>2. size - LeafLog - 1 = size - 4
    BY <1>6
  <2>3. 2^(size - 4) = Pow[size - 4]
    BY <1>6, PowStep
  <2> QED
    BY <1>2, <2>1, <2>2, <2>3
<1>10. LutTyped'
  <2>1. Wide(b) \in {1, 2, 4} /\ 0 \div Wide(b) = 0
    BY DEF Wide
  <2>2. first' = 0 /\ begin' = 0 /\ level' = 0 /\ s' = size /\ lutBuild' = b /\ s' \in 5..30
    BY <1>2, <1>3, <1>5, <1>6, <1>8
  <2>3. first' \in 0..LutWidth(level)' /\ begin' = LutBegins(level)'
    BY <2>2 DEF LutWidth, LutBegins
  <2>4. first' = (first' \div Wide(lutBuild')) * Wide(lutBuild')
    BY <2>1, <2>2
  <2>5. points' = Pow[level' + 4] /\ stride' = Pow[s' - 4 - level']
    BY <1>6, <1>9, <2>2
  <2> QED
    BY <1>4, <1>6, <1>8, <2>2, <2>3, <2>4, <2>5 DEF LutTyped
<1>11. LutOffsets'
  BY <1>2, <1>3 DEF LutOffsets
<1>12. LutWithin'
  BY <1>2, <1>3 DEF LutWithin
<1>13. LutContent'
  <2> SUFFICES ASSUME NEW l \in 0..level', NEW part \in 1..LutParts(l), NEW q \in Nat,
                      q * Wide(lutBuild') < LutSoFar(l)'
               PROVE  FALSE
    BY DEF LutContent
  <2>1. l = 0 /\ LutSoFar(l)' = 0
    BY <1>2, <1>3 DEF LutSoFar
  <2>2. Wide(lutBuild') \in Nat
    BY DEF Wide
  <2>3. q * Wide(lutBuild') \in Nat
    <3> HIDE DEF Wide
    <3> QED
      BY <2>2
  <2> QED
    BY <2>1, <2>3
<1> QED
  BY <1>10, <1>11, <1>12, <1>13 DEF LutInv

\* Of tmp a group takes the angles that its place says.
LEMMA PickedAngle ==
    ASSUME GeneratorInv, pc = "done", lutBuild \in {"sse", "neon", "vfp"},
           NEW off \in Nat, NEW step \in Nat, NEW r \in 0..(Wide(lutBuild) - 1), first \in Nat,
           (off + first + r) * step < Pow[log]
    PROVE  Twiddles!Picked(off, step)[r + 1] = (off + first + r) * step
<1> DEFINE t == (off + first + r) * step
           u == (off + first + (r + 1) - 1) * step
<1>1. Twiddles!Group = Wide(lutBuild) /\ Wide(lutBuild) \in Nat
  BY GroupSizes
<1>2. r \in Nat /\ r + 1 \in 1..Wide(lutBuild)
  BY <1>1
<1>3. u = t
  <2>1. off + first + (r + 1) - 1 = off + first + r
    BY <1>2
  <2> QED
    BY <2>1
<1>4. t \in Nat /\ t < Pow[log]
  <2>1. off + first + r \in Nat
    BY <1>2
  <2> DEFINE x == off + first + r
  <2>2. x \in Nat
    BY <2>1
  <2> HIDE DEF x
  <2>3. x * step \in Nat
    BY <2>2
  <2> QED
    BY <2>3 DEF x
<1>5. Twiddles!Picked(off, step)[r + 1] = IF u \in DOMAIN table THEN table[u] ELSE -1
  BY <1>1, <1>2 DEF Twiddles!Picked
<1> HIDE DEF t, u
<1>6. TypeInv /\ TableComplete /\ Top = Pow[log]
  BY CompleteThen, Sizes DEF GeneratorInv
<1>7. Pow[log] \in Nat /\ log \in 1..28
  <2>1. log \in 1..28 /\ log \in 0..31
    BY <1>6 DEF TypeInv
  <2> QED
    BY <2>1, PowStep
<1>8. t \in DOMAIN table /\ table[t] = t
  <2>1. DOMAIN table = 0..(Pow[log] - 1)
    BY <1>6 DEF TypeInv
  <2>2. t \in 0..(Pow[log] - 1)
    BY <1>4, <1>7
  <2>3. \A k \in 0..(Pow[log] - 1) : table[k] = k
    BY <1>6 DEF TableComplete
  <2> QED
    BY <2>1, <2>2, <2>3
<1> QED
  BY <1>3, <1>5, <1>8 DEF t

\* Sizes of the level that the loop is at.
LEMMA LevelFacts ==
    ASSUME LeafLog = 3, LutTyped, level < s - 3
    PROVE  /\ level \in 0..26 /\ s - 4 - level \in 0..26
           /\ Twiddles!Width = LutWidth(level)
           /\ Pow[level + 1] \in Nat /\ points \div 8 = Pow[level + 1]
           /\ stride \in Nat /\ stride = Pow[s - 4 - level] /\ stride >= 1
           /\ Pow[log] = 2 * (Pow[level + 1] * stride)
<1>1. level \in 0..26 /\ s - 4 - level \in 0..26 /\ s \in 5..30 /\ log = s - 2
  BY DEF LutTyped
<1> DEFINE V == Pow[level + 1]
<1>2. V \in Nat /\ points = 8 * V
  <2> DEFINE a == level + 1
             b == level + 1 + 1
             c == level + 1 + 1 + 1
  <2>1. a \in 0..30 /\ b \in 0..30 /\ c \in 0..30 /\ a + 1 = b /\ b + 1 = c /\ c + 1 = level + 4
        /\ a \in 0..31
    BY <1>1
  <2> HIDE DEF a, b, c
  <2>2. Pow[a + 1] = 2 * Pow[a] /\ Pow[b + 1] = 2 * Pow[b] /\ Pow[c + 1] = 2 * Pow[c] /\ Pow[a] \in Nat
    BY <2>1, PowStep
  <2>3. Pow[b] = 2 * Pow[a] /\ Pow[c] = 2 * Pow[b] /\ Pow[level + 4] = 2 * Pow[c]
    BY <2>1, <2>2
  <2>4. Pow[level + 4] = 8 * Pow[a]
    BY <2>2, <2>3
  <2> QED
    BY <2>2, <2>4 DEF LutTyped, a
<1>3. level = 0 => V = 2
  BY PowStep
<1>4. stride = Pow[s - 4 - level] /\ stride \in Nat /\ stride >= 1
  <2>1. stride = Pow[s - 4 - level]
    BY DEF LutTyped
  <2>2. s - 4 - level \in 0..31
    BY <1>1
  <2> QED
    BY <2>1, <2>2, PowStep
<1>5. Pow[log] = 2 * (V * stride)
  <2> DEFINE a == level + 1
             b == s - 4 - level
             c == a + b
  <2>1. a \in 0..31 /\ b \in 0..31 /\ a + b <= 31 /\ c \in 0..30 /\ c + 1 = log
    BY <1>1
  <2> HIDE DEF a, b
  <2>2. Pow[c] = Pow[a] * Pow[b]
    BY <2>1, PowSum
  <2> HIDE DEF c
  <2>3. Pow[c + 1] = 2 * Pow[c]
    BY <2>1, PowStep
  <2>4. Pow[log] = 2 * (Pow[a] * Pow[b])
    BY <2>1, <2>2, <2>3
  <2> QED
    BY <1>4, <2>4 DEF a, b
<1> HIDE DEF V
<1>6. points \div 8 = V /\ (level = 0 => points \div 4 = 4)
  BY <1>2, <1>3
<1>7. Twiddles!Width = IF level = 0 THEN points \div 4 ELSE points \div 8
  BY DEF Twiddles!Width
<1>8. Twiddles!Width = LutWidth(level)
  BY <1>6, <1>7 DEF LutWidth, V
<1> QED
  BY <1>1, <1>2, <1>4, <1>5, <1>6, <1>8 DEF V

\* A group of the loop holds the angles of its place.
LEMMA GroupAngles ==
    ASSUME LeafLog = 3, GeneratorInv, LutTyped, level < s - 3, first < LutWidth(level),
           first + Wide(lutBuild) <= LutWidth(level)
    PROVE  /\ Len(Twiddles!Groups) = LutParts(level)
           /\ \A part \in 1..LutParts(level) : \A r \in 0..(Wide(lutBuild) - 1) :
                  Twiddles!Groups[part][r + 1] = LutAngle(level, part, first + r)
<1> DEFINE V == Pow[level + 1]
           n == Pow[log]
<1>1. /\ V \in Nat /\ points \div 8 = V /\ stride \in Nat /\ stride >= 1
      /\ stride = Pow[s - 4 - level] /\ n = 2 * (V * stride)
  BY LevelFacts
<1>2. /\ pc = "done" /\ lutBuild \in {"sse", "neon", "vfp"} /\ first \in Nat
  <2>1. first \in 0..LutWidth(level)
    BY DEF LutTyped
  <2> QED
    BY <2>1 DEF LutTyped
<1>3. Wide(lutBuild) \in {1, 2, 4}
  BY <1>2, GroupSizes
<1> HIDE DEF V, n
<1>4. CASE level = 0
  <2>1. Twiddles!Groups = << Twiddles!Picked(0, stride) >> /\ LutParts(level) = 1 /\ LutWidth(level) = 4
    BY <1>4 DEF Twiddles!Groups, Twiddles!FirstLevel, LutParts, LutWidth
  <2>2. V = 2 /\ stride = Pow[s - 4]
    <3>1. V = 2
      BY <1>4, PowStep DEF V
    <3>2. s - 4 - level = s - 4
      BY <1>4 DEF LutTyped
    <3> QED
      BY <1>1, <3>1, <3>2
  <2>3. ASSUME NEW r \in 0..(Wide(lutBuild) - 1)
        PROVE  Twiddles!Picked(0, stride)[r + 1] = (first + r) * stride
    <3>1. first + r \in Nat /\ first + r < 4 /\ 0 + first + r = first + r
      BY <1>2, <1>3, <2>1
    <3> DEFINE x == first + r
    <3> HIDE DEF x
    <3>2. x * stride < n
      <4>1. x \in Nat /\ x < 4 /\ n = 4 * stride
        BY <1>1, <2>2, <3>1 DEF x
      <4> QED
        BY <1>1, <4>1, Z3
    <3>3. (0 + first + r) * stride < Pow[log]
      BY <3>1, <3>2 DEF x, n
    <3>4. Twiddles!Picked(0, stride)[r + 1] = (0 + first + r) * stride
      BY <1>1, <1>2, <3>3, PickedAngle
    <3> QED
      BY <3>1, <3>4
  <2>4. \A r \in 0..(Wide(lutBuild) - 1) : LutAngle(level, 1, first + r) = (first + r) * stride
    BY <1>4, <2>2 DEF LutAngle
  <2>5. Len(Twiddles!Groups) = 1 /\ Twiddles!Groups[1] = Twiddles!Picked(0, stride)
    BY <2>1
  <2> QED
    BY <2>1, <2>3, <2>4, <2>5
<1>5. CASE level # 0
  <2>1. /\ Twiddles!Groups = << Twiddles!Picked(0, 2 * stride), Twiddles!Picked(0, stride),
                                 Twiddles!Picked(V, stride) >>
        /\ LutParts(level) = 3 /\ LutWidth(level) = V
    BY <1>1, <1>5 DEF Twiddles!Groups, Twiddles!OtherLevels, LutParts, LutWidth, V
  <2>2. ASSUME NEW r \in 0..(Wide(lutBuild) - 1)
        PROVE  /\ Twiddles!Picked(0, 2 * stride)[r + 1] = (first + r) * (2 * stride)
               /\ Twiddles!Picked(0, stride)[r + 1] = (first + r) * stride
               /\ Twiddles!Picked(V, stride)[r + 1] = (V + first + r) * stride
    <3>1. first + r \in Nat /\ first + r < V /\ 0 + first + r = first + r /\ V + first + r = V + (first + r)
      BY <1>1, <1>2, <1>3, <2>1
    <3> DEFINE x == first + r
    <3>2. x \in Nat /\ x < V
      BY <3>1
    <3> HIDE DEF x
    <3>3. x * (2 * stride) < n /\ x * stride < n /\ (V + x) * stride < n
      <4>1. x * stride < V * stride /\ x * stride \in Nat /\ V * stride \in Nat
        BY <1>1, <3>2, Z3
      <4>2. x * (2 * stride) = 2 * (x * stride) /\ (V + x) * stride = V * stride + x * stride
        BY <1>1, <3>2, Z3
      <4> DEFINE xs == x * stride
                 vs == V * stride
      <4>3. xs < vs /\ xs \in Nat /\ vs \in Nat /\ n = 2 * vs
            /\ x * (2 * stride) = 2 * xs /\ (V + x) * stride = vs + xs
        BY <1>1, <4>1, <4>2
      <4> HIDE DEF xs, vs
      <4>4. 2 * xs < n /\ xs < n /\ vs + xs < n
        BY <4>3
      <4> QED
        BY <4>3, <4>4 DEF xs
    <3>4. /\ (0 + first + r) * (2 * stride) < Pow[log] /\ (0 + first + r) * stride < Pow[log]
          /\ (V + first + r) * stride < Pow[log]
      BY <3>1, <3>3 DEF x, n
    <3>5. 2 * stride \in Nat /\ 0 \in Nat
      BY <1>1
    <3>6. Twiddles!Picked(0, 2 * stride)[r + 1] = (0 + first + r) * (2 * stride)
      BY <1>2, <3>4, <3>5, PickedAngle
    <3>7. Twiddles!Picked(0, stride)[r + 1] = (0 + first + r) * stride
      BY <1>1, <1>2, <3>4, <3>5, PickedAngle
    <3>8. Twiddles!Picked(V, stride)[r + 1] = (V + first + r) * stride
      BY <1>1, <1>2, <3>4, PickedAngle
    <3> QED
      BY <3>1, <3>6, <3>7, <3>8
  <2>3. ASSUME NEW r \in 0..(Wide(lutBuild) - 1)
        PROVE  /\ LutAngle(level, 1, first + r) = (first + r) * (2 * stride)
               /\ LutAngle(level, 2, first + r) = (first + r) * stride
               /\ LutAngle(level, 3, first + r) = (V + first + r) * stride
    <3>1. first + r \in Nat /\ V + (first + r) = V + first + r
      BY <1>1, <1>2, <1>3
    <3>2. /\ LutAngle(level, 1, first + r) = (2 * (first + r)) * stride
          /\ LutAngle(level, 2, first + r) = (first + r) * stride
          /\ LutAngle(level, 3, first + r) = (V + (first + r)) * stride
      BY <1>1, <1>5 DEF LutAngle, V
    <3> DEFINE x == first + r
    <3>3. x \in Nat
      BY <3>1
    <3> HIDE DEF x
    <3>4. (2 * x) * stride = x * (2 * stride)
      BY <1>1, <3>3, Z3
    <3> QED
      BY <3>1, <3>2, <3>4 DEF x
  <2>4. /\ Len(Twiddles!Groups) = 3
        /\ Twiddles!Groups[1] = Twiddles!Picked(0, 2 * stride)
        /\ Twiddles!Groups[2] = Twiddles!Picked(0, stride)
        /\ Twiddles!Groups[3] = Twiddles!Picked(V, stride)
    BY <2>1
  <2> SUFFICES ASSUME NEW part \in 1..3, NEW r \in 0..(Wide(lutBuild) - 1)
               PROVE  Twiddles!Groups[part][r + 1] = LutAngle(level, part, first + r)
    BY <2>1, <2>4
  <2>5. part = 1 \/ part = 2 \/ part = 3
    OBVIOUS
  <2> QED
    BY <2>2, <2>3, <2>4, <2>5
<1> QED
  BY <1>4, <1>5

LEMMA PickKeeps ==
    ASSUME LeafLog = 3, GeneratorInv, LutInv, Twiddles!Pick, UNCHANGED vars
    PROVE  LutInv'
<1> DEFINE g == Wide(lutBuild)
           room == Room(lutBuild)
           P == LutParts(level)
           W == LutWidth(level)
           Q == first \div g
           new == Twiddles!Written
<1>1. /\ level < s - 3 /\ first < Twiddles!Width
      /\ ws' = [p \in DOMAIN ws \cup new |->
                   IF p \in new
                   THEN Twiddles!Groups[CHOOSE k \in 1..Len(Twiddles!Groups) : p = Twiddles!Target(k)]
                   ELSE ws[p]]
      /\ wsIs' = IF first = 0 THEN Append(wsIs, begin) ELSE wsIs
      /\ first' = first + Twiddles!Group
      /\ UNCHANGED <<lutBuild, s, level, points, stride, begin>>
  BY DEF Twiddles!Pick, Twiddles!nLuts
<1>2. LutTyped /\ LutOffsets /\ LutWithin /\ LutContent
  BY <1>1 DEF LutInv
<1>3. lutBuild \in {"sse", "neon", "vfp"} /\ first \in Nat /\ level \in 0..26 /\ Twiddles!Width = W
  <2>1. first \in 0..LutWidth(level) /\ lutBuild \in {"sse", "neon", "vfp"}
    BY <1>2 DEF LutTyped
  <2> QED
    BY <1>1, <1>2, <2>1, LevelFacts
<1>4. /\ Twiddles!Group = g /\ Twiddles!GroupSize = room /\ g \in {1, 2, 4} /\ room \in {1, 4}
      /\ W \in Nat /\ W = (W \div g) * g /\ LutBegins(level) \in Nat
  <2>1. level \in 0..29
    BY <1>3
  <2> QED
    BY <1>3, <2>1, GroupSizes, LevelEnds
<1>5. first = Q * g /\ P \in {1, 3} /\ begin = LutBegins(level)
  BY <1>2 DEF LutTyped, LutParts
<1> HIDE DEF g, room, W, P
<1>6. Q \in Nat /\ first + g <= W /\ (first + g) \div g = Q + 1
  BY <1>1, <1>3, <1>4, <1>5
<1> HIDE DEF Q
<1>7. /\ Len(Twiddles!Groups) = P
      /\ \A part \in 1..P : \A r \in 0..(g - 1) :
             Twiddles!Groups[part][r + 1] = LutAngle(level, part, Q * g + r)
  BY <1>1, <1>2, <1>3, <1>5, <1>6, GroupAngles DEF g, W, P
<1>8. \A k \in 1..P : Twiddles!Target(k) = LutPlace(level, Q, k)
  BY <1>4, <1>5, <1>7 DEF Twiddles!Target, LutPlace, Q, P, room, g
<1>9. ASSUME NEW k \in 1..P
      PROVE  /\ LutPlace(level, Q, k) \in Nat
             /\ LutPlace(level, Q, k) = begin + (Q * P + k - 1) * room
             /\ begin + (Q * P) * room <= LutPlace(level, Q, k)
             /\ LutPlace(level, Q, k) + room <= begin + ((Q + 1) * P) * room
  <2>1. LutPlace(level, Q, k) = begin + (Q * P + k - 1) * room
    BY <1>5 DEF LutPlace, P, room
  <2>2. begin \in Nat /\ k \in Nat /\ 1 <= k /\ k <= P
    BY <1>4, <1>5
  <2> DEFINE a == Q * P
             x == a + k - 1
             b == (Q + 1) * P
  <2>3. a \in Nat /\ b = a + P /\ x \in Nat /\ a <= x /\ x + 1 <= b /\ b \in Nat
    BY <1>5, <1>6, <2>2
  <2> HIDE DEF a, x, b
  <2>4. x * room \in Nat /\ a * room <= x * room /\ x * room + room <= b * room
    BY <1>4, <2>3
  <2>5. a * room \in Nat /\ b * room \in Nat /\ room \in Nat
    BY <1>4, <2>3
  <2> DEFINE ar == a * room
             xr == x * room
             br == b * room
  <2>6. LutPlace(level, Q, k) = begin + xr
    BY <2>1 DEF x, a
  <2> HIDE DEF ar, xr, br
  <2>7. begin + xr \in Nat /\ begin + ar <= begin + xr /\ begin + xr + room <= begin + br
    BY <2>2, <2>4, <2>5 DEF ar, xr, br
  <2> QED
    BY <2>1, <2>6, <2>7 DEF ar, br, a, b
<1>10. \A k \in 1..P, m \in 1..P : LutPlace(level, Q, k) = LutPlace(level, Q, m) => k = m
  <2> SUFFICES ASSUME NEW k \in 1..P, NEW m \in 1..P, LutPlace(level, Q, k) = LutPlace(level, Q, m)
               PROVE  k = m
    OBVIOUS
  <2> DEFINE a == Q * P
  <2>1. a \in Nat /\ begin \in Nat /\ k \in Nat /\ m \in Nat
    BY <1>4, <1>5, <1>6
  <2>2. begin + (a + k - 1) * room = begin + (a + m - 1) * room
    BY <1>9
  <2> HIDE DEF a
  <2> QED
    BY <1>4, <2>1, <2>2
<1>11. new = {LutPlace(level, Q, k) : k \in 1..P}
  BY <1>7, <1>8 DEF Twiddles!Written
<1>12. ASSUME NEW k \in 1..P
       PROVE  /\ LutPlace(level, Q, k) \in DOMAIN ws'
              /\ ws'[LutPlace(level, Q, k)] = Twiddles!Groups[k]
  <2> DEFINE x == LutPlace(level, Q, k)
  <2>1. x \in new
    BY <1>11
  <2>2. (CHOOSE m \in 1..P : x = Twiddles!Target(m)) = k
    BY <1>8, <1>10
  <2> HIDE DEF x, new
  <2>3. ws'[x] = Twiddles!Groups[CHOOSE m \in 1..P : x = Twiddles!Target(m)] /\ x \in DOMAIN ws'
    BY <1>1, <1>7, <2>1
  <2> QED
    BY <2>2, <2>3 DEF x
<1>13. \A p \in DOMAIN ws : p \in Nat /\ p + room <= begin + (Q * P) * room
  BY <1>2 DEF LutWithin, LutEnd, room, P, Q, g
<1>14. ASSUME NEW p \in DOMAIN ws
       PROVE  p \in DOMAIN ws' /\ ws'[p] = ws[p]
  <2>1. p \notin new
    <3> SUFFICES ASSUME NEW k \in 1..P, p = LutPlace(level, Q, k) PROVE FALSE
      BY <1>11
    <3> DEFINE e == begin + (Q * P) * room
    <3>1. p \in Nat /\ p + room <= e /\ e <= p /\ room >= 1 /\ room \in Nat
      BY <1>4, <1>9, <1>13
    <3>2. e \in Int
      <4>1. Q * P \in Nat /\ begin \in Nat
        BY <1>4, <1>5, <1>6
      <4> QED
        BY <1>4, <4>1
    <3> HIDE DEF e
    <3> QED
      BY <3>1, <3>2
  <2> HIDE DEF new
  <2> QED
    BY <1>1, <2>1
<1>15. first' = first + g /\ first' # 0 /\ first' \in Nat /\ LutWidth(level)' = W
  BY <1>1, <1>3, <1>4 DEF LutWidth, W
<1>16. LutTyped'
  <2>1. first' = (first' \div Wide(lutBuild')) * Wide(lutBuild')
    BY <1>1, <1>4, <1>5, <1>6, <1>15 DEF g
  <2>2. first' \in 0..LutWidth(level)'
    BY <1>4, <1>6, <1>15
  <2>3. begin' = LutBegins(level)'
    BY <1>1, <1>5 DEF LutBegins
  <2>4. s' = s /\ level' = level /\ lutBuild' = lutBuild /\ points' = points /\ stride' = stride
        /\ log' = log /\ pc' = pc
    BY <1>1 DEF vars
  <2> QED
    BY <1>1, <1>2, <2>1, <2>2, <2>3, <2>4 DEF LutTyped
<1>17. LutOffsets'
  <2>1. /\ wsIs \in Seq(Int) /\ Len(wsIs) = level + (IF first = 0 THEN 0 ELSE 1)
        /\ \A l \in 0..(Len(wsIs) - 1) : wsIs[l + 1] = LutBegins(l)
    BY <1>2 DEF LutOffsets
  <2>2. begin \in Int
    BY <1>4, <1>5
  <2>3. /\ wsIs' \in Seq(Int) /\ Len(wsIs') = level + 1
        /\ \A l \in 0..level : wsIs'[l + 1] = LutBegins(l)
    <3>1. CASE first = 0
      <4>1. wsIs' = Append(wsIs, begin) /\ Len(wsIs) = level
        BY <1>1, <1>3, <2>1, <3>1
      <4>2. wsIs' \in Seq(Int) /\ Len(wsIs') = level + 1 /\ wsIs'[level + 1] = begin
        BY <2>1, <2>2, <4>1
      <4>3. \A l \in 0..(level - 1) : wsIs'[l + 1] = wsIs[l + 1]
        BY <2>1, <2>2, <4>1
      <4> QED
        BY <1>3, <1>5, <2>1, <4>1, <4>2, <4>3
    <3>2. CASE first # 0
      <4>1. wsIs' = wsIs /\ Len(wsIs) = level + 1
        BY <1>1, <2>1, <3>2
      <4> QED
        BY <1>3, <2>1, <4>1
    <3> QED
      BY <3>1, <3>2
  <2> QED
    <3>1. \A l \in 0..level : LutBegins(l)' = LutBegins(l)
      BY <1>1 DEF LutBegins
    <3>2. level' = level /\ level + 1 - 1 = level /\ first' # 0
      BY <1>1, <1>3, <1>15
    <3>3. Len(wsIs') = level' + (IF first' = 0 THEN 0 ELSE 1) /\ Len(wsIs') - 1 = level
      <4>1. Len(wsIs') = level + 1
        BY <2>3
      <4>2. level \in Nat
        BY <1>3
      <4>3. Len(wsIs') = level' + 1
        BY <3>2, <4>1
      <4> QED
        BY <3>2, <4>1, <4>2, <4>3
    <3>4. \A l \in 0..level : wsIs'[l + 1] = LutBegins(l)'
      BY <2>3, <3>1
    <3> QED
      BY <2>3, <3>3, <3>4 DEF LutOffsets
<1>18. LutWithin'
  <2>1. LutEnd' = begin + ((Q + 1) * P) * room
    BY <1>1, <1>6, <1>15 DEF LutEnd, LutParts, P, room, g
  <2>2. Q * P \in Nat /\ (Q + 1) * P = Q * P + P /\ begin \in Nat
    BY <1>4, <1>5, <1>6
  <2>3. ASSUME NEW p \in DOMAIN ws PROVE p \in Nat /\ p + room <= begin + ((Q + 1) * P) * room
    <3> DEFINE a == Q * P
    <3>1. a \in Nat /\ p \in Nat /\ p + room <= begin + a * room
      BY <1>13, <2>2
    <3>2. (Q + 1) * P = a + P
      BY <2>2
    <3> HIDE DEF a
    <3>3. a * room <= (a + P) * room /\ a * room \in Nat /\ (a + P) * room \in Nat
      BY <1>4, <1>5, <3>1
    <3> DEFINE ar == a * room
               br == (a + P) * room
    <3> HIDE DEF ar, br
    <3>4. p + room <= begin + br
      <4>1. ar \in Nat /\ br \in Nat /\ ar <= br /\ p + room <= begin + ar
        BY <3>1, <3>3 DEF ar, br
      <4> QED
        BY <1>4, <2>2, <3>1, <4>1
    <3> QED
      BY <3>1, <3>2, <3>4 DEF br
  <2>4. DOMAIN ws' = DOMAIN ws \cup new
    <3> HIDE DEF new
    <3> QED
      BY <1>1
  <2> SUFFICES ASSUME NEW p \in DOMAIN ws' PROVE p \in Nat /\ p + room <= begin + ((Q + 1) * P) * room
    BY <1>1, <2>1 DEF LutWithin, room
  <2>5. CASE p \in DOMAIN ws
    BY <2>3, <2>5
  <2>6. CASE p \in new
    BY <1>9, <1>11, <2>6
  <2> QED
    BY <2>4, <2>5, <2>6
<1>19. LutContent'
  <2> SUFFICES ASSUME NEW l \in 0..level, NEW part \in 1..LutParts(l), NEW q \in Nat,
                      q * g < LutSoFar(l)'
               PROVE  LutHolds(l, part, q)'
    BY <1>1 DEF LutContent, g
  <2>1. /\ LutPlace(l, q, part)' = LutPlace(l, q, part)
        /\ \A r \in 0..(g - 1) : LutAngle(l, part, q * g + r)' = LutAngle(l, part, q * g + r)
    <3>1. LutPlace(l, q, part)' = LutPlace(l, q, part)
      BY <1>1 DEF LutPlace, LutBegins
    <3>2. ASSUME NEW r \in 0..(g - 1) PROVE LutAngle(l, part, q * g + r)' = LutAngle(l, part, q * g + r)
      <4> DEFINE k == q * g + r
      <4> HIDE DEF k
      <4>1. LutAngle(l, part, k)' = LutAngle(l, part, k)
        <5>1. g' = g /\ s' = s
          BY <1>1 DEF g
        <5>2. k' = k
          BY <5>1 DEF k
        <5> QED
          BY <5>1, <5>2 DEF LutAngle
      <4> QED
        BY <4>1 DEF k
    <3> QED
      BY <3>1, <3>2
  <2>2. CASE q * g < LutSoFar(l)
    <3>1. LutHolds(l, part, q)
      BY <1>2, <2>2 DEF LutContent, g
    <3>2. LutPlace(l, q, part) \in DOMAIN ws' /\ ws'[LutPlace(l, q, part)] = ws[LutPlace(l, q, part)]
      BY <1>14, <3>1 DEF LutHolds
    <3> QED
      BY <1>1, <2>1, <3>1, <3>2 DEF LutHolds, g
  <2>3. CASE ~(q * g < LutSoFar(l))
    <3>1. l = level
      <4> SUFFICES ASSUME l # level PROVE FALSE
        OBVIOUS
      <4>1. l < level /\ level' = level
        BY <1>1, <1>3
      <4>2. LutSoFar(l)' = LutWidth(l) /\ LutSoFar(l) = LutWidth(l)
        BY <4>1 DEF LutSoFar, LutWidth
      <4> QED
        BY <2>3, <4>2
    <3>2. q * g < first + g /\ ~(q * g < first)
      BY <1>1, <1>15, <2>3, <3>1 DEF LutSoFar
    <3>3. q = Q
      BY <1>4, <1>5, <1>6, <3>2
    <3>4. part \in 1..P
      BY <3>1 DEF P
    <3>5. LutPlace(l, q, part) \in DOMAIN ws' /\ ws'[LutPlace(l, q, part)] = Twiddles!Groups[part]
      BY <1>12, <3>1, <3>3, <3>4
    <3>6. \A r \in 0..(g - 1) : Twiddles!Groups[part][r + 1] = LutAngle(l, part, q * g + r)
      BY <1>7, <3>1, <3>3, <3>4
    <3> QED
      BY <1>1, <2>1, <3>5, <3>6 DEF LutHolds, g
  <2> QED
    BY <2>2, <2>3
<1> QED
  BY <1>16, <1>17, <1>18, <1>19 DEF LutInv

LEMMA NextLevelKeeps ==
    ASSUME LeafLog = 3, LutInv, Twiddles!NextLevel, UNCHANGED vars
    PROVE  LutInv'
<1> DEFINE g == Wide(lutBuild)
           room == Room(lutBuild)
           P == LutParts(level)
           W == LutWidth(level)
           Q == first \div g
<1>1. /\ level < s - 3 /\ first >= Twiddles!Width
      /\ level' = level + 1 /\ points' = 2 * points /\ stride' = stride \div 2
      /\ begin' = begin + Twiddles!LevelSize /\ first' = 0
      /\ UNCHANGED <<lutBuild, s, ws, wsIs>>
  BY DEF Twiddles!NextLevel, Twiddles!nLuts
<1>2. LutTyped /\ LutOffsets /\ LutWithin /\ LutContent
  BY <1>1 DEF LutInv
<1>3. lutBuild \in {"sse", "neon", "vfp"} /\ level \in 0..26 /\ Twiddles!Width = W /\ first \in 0..W
  BY <1>1, <1>2, LevelFacts DEF LutTyped
<1>4. /\ Twiddles!Group = g /\ Twiddles!GroupSize = room /\ g \in {1, 2, 4} /\ room \in {1, 4}
      /\ W \in Nat /\ W >= 4 /\ W = (W \div g) * g /\ LutBegins(level) \in Nat
      /\ LutBegins(level + 1) = LutBegins(level) + ((W \div g) * P) * room
  <2>1. level \in 0..29
    BY <1>3
  <2> QED
    BY <1>3, <2>1, GroupSizes, LevelEnds
<1>5. first = W /\ P \in {1, 3} /\ begin = LutBegins(level)
  BY <1>1, <1>2, <1>3, <1>4 DEF LutTyped, LutParts
<1>6. begin' = LutEnd /\ begin' = LutBegins(level + 1)
  <2>1. Len(Twiddles!Groups) = P
    <3>1. level = 0 => Len(Twiddles!Groups) = 1
      BY DEF Twiddles!Groups, Twiddles!FirstLevel
    <3>2. level # 0 => Len(Twiddles!Groups) = 3
      BY DEF Twiddles!Groups, Twiddles!OtherLevels
    <3> QED
      BY <3>1, <3>2 DEF LutParts
  <2>2. Twiddles!LevelSize = (W \div g) * P * room
    BY <1>3, <1>4, <2>1 DEF Twiddles!LevelSize
  <2>3. begin' = LutEnd
    BY <1>1, <1>5, <2>2 DEF LutEnd
  <2>4. begin' = LutBegins(level + 1)
    BY <1>1, <1>4, <1>5, <2>2
  <2> QED
    BY <2>3, <2>4
<1> HIDE DEF g, room, P, W
<1>7. g \in Nat /\ g >= 1 /\ 0 \div g = 0
  BY <1>4
<1>8. \A l \in Nat : LutBegins(l)' = LutBegins(l) /\ LutWidth(l)' = LutWidth(l)
  BY <1>1 DEF LutBegins, LutWidth
<1>9. LutTyped'
  <2>1. level' \in 0..(s - 3) /\ s \in 5..30
    BY <1>1, <1>2, <1>3 DEF LutTyped
  <2>2. points' = Pow[level' + 4]
    <3>1. level + 4 \in 0..30 /\ level + 4 + 1 = level' + 4
      BY <1>1, <1>3
    <3>2. Pow[level + 4 + 1] = 2 * Pow[level + 4]
      BY <3>1, PowStep
    <3> QED
      BY <1>1, <1>2, <3>1, <3>2 DEF LutTyped
  <2>3. level' < s - 3 => stride' = Pow[s - 4 - level']
    <3> SUFFICES ASSUME level' < s - 3 PROVE stride' = Pow[s - 4 - level']
      OBVIOUS
    <3> DEFINE x == s - 4 - level'
    <3>1. x \in 0..30 /\ x \in 0..31 /\ x + 1 = s - 4 - level
      BY <1>1, <1>3, <2>1
    <3> HIDE DEF x
    <3>2. Pow[x + 1] = 2 * Pow[x] /\ Pow[x] \in Nat
      BY <3>1, PowStep
    <3>3. stride = 2 * Pow[x]
      BY <1>1, <1>2, <3>1, <3>2 DEF LutTyped
    <3>4. stride' = Pow[x]
      BY <1>1, <3>2, <3>3
    <3> QED
      BY <3>4 DEF x
  <2>4. first' \in 0..LutWidth(level)' /\ begin' = LutBegins(level)'
    <3>1. level' \in Nat /\ level' \in 0..29
      BY <1>1, <1>3
    <3>2. LutWidth(level') \in Nat
      BY <1>3, <3>1, LevelEnds
    <3>3. LutWidth(level)' = LutWidth(level') /\ LutBegins(level)' = LutBegins(level')
      BY <1>1 DEF LutWidth, LutBegins
    <3> QED
      BY <1>1, <1>6, <3>2, <3>3
  <2>5. first' = (first' \div Wide(lutBuild')) * Wide(lutBuild')
    BY <1>1, <1>7 DEF g
  <2>6. s' = s /\ lutBuild' = lutBuild /\ log' = log /\ pc' = pc
    BY <1>1 DEF vars
  <2> QED
    BY <1>1, <1>2, <1>3, <2>1, <2>2, <2>3, <2>4, <2>5, <2>6 DEF LutTyped
<1>10. LutOffsets'
  <2>1. /\ wsIs' \in Seq(Int) /\ Len(wsIs') = level + 1
        /\ \A l \in 0..level : wsIs'[l + 1] = LutBegins(l)
    <3>1. /\ wsIs \in Seq(Int) /\ Len(wsIs) = level + 1
          /\ \A l \in 0..(Len(wsIs) - 1) : wsIs[l + 1] = LutBegins(l)
      BY <1>2, <1>4, <1>5 DEF LutOffsets
    <3>2. Len(wsIs) - 1 = level /\ wsIs' = wsIs
      BY <1>1, <1>3, <3>1
    <3> QED
      BY <3>1, <3>2
  <2>2. \A l \in 0..level : wsIs'[l + 1] = LutBegins(l)'
    BY <1>3, <1>8, <2>1
  <2>3. Len(wsIs') = level' + (IF first' = 0 THEN 0 ELSE 1) /\ Len(wsIs') - 1 = level
    BY <1>1, <1>3, <2>1
  <2> QED
    BY <2>1, <2>2, <2>3 DEF LutOffsets
<1>11. LutWithin'
  <2>1. LutEnd' = LutEnd
    <3>1. LutEnd' = begin' + ((0 \div g) * LutParts(level')) * room
      BY <1>1 DEF LutEnd, g, room, LutParts
    <3>2. (0 \div g) * LutParts(level') = 0 /\ 0 * room = 0
      BY <1>4, <1>7 DEF LutParts
    <3>3. begin' \in Nat
      <4>1. (W \div g) * P \in Nat
        <5>1. W \div g \in Nat
          BY <1>4
        <5> QED
          BY <1>5, <5>1
      <4>2. ((W \div g) * P) * room \in Nat
        BY <1>4, <4>1
      <4> QED
        BY <1>4, <1>6, <4>2
    <3> QED
      BY <1>6, <3>1, <3>2, <3>3
  <2>2. Room(lutBuild)' = Room(lutBuild)
    BY <1>1
  <2> QED
    BY <1>1, <1>2, <2>1, <2>2 DEF LutWithin
<1>12. LutContent'
  <2> SUFFICES ASSUME NEW l \in 0..level', NEW part \in 1..LutParts(l), NEW q \in Nat,
                      q * g < LutSoFar(l)'
               PROVE  LutHolds(l, part, q)'
    BY <1>1 DEF LutContent, g
  <2>1. q * g \in Nat
    BY <1>7
  <2>2. l \in 0..level
    <3> SUFFICES ASSUME l = level' PROVE FALSE
      BY <1>1, <1>3
    <3>1. LutSoFar(l)' = 0
      BY <1>1 DEF LutSoFar
    <3> QED
      BY <2>1, <3>1
  <2>3. LutSoFar(l)' = LutSoFar(l)
    <3>1. LutSoFar(l)' = LutWidth(l)
      BY <1>1, <1>3, <1>8, <2>2 DEF LutSoFar
    <3>2. LutSoFar(l) = LutWidth(l)
      <4>1. CASE l < level
        BY <4>1 DEF LutSoFar
      <4>2. CASE l = level
        BY <1>5, <4>2 DEF LutSoFar, W
      <4> QED
        BY <1>3, <2>2, <4>1, <4>2
    <3> QED
      BY <3>1, <3>2
  <2>4. LutHolds(l, part, q)
    BY <1>2, <2>2, <2>3 DEF LutContent, g
  <2>5. LutHolds(l, part, q)' <=> LutHolds(l, part, q)
    BY <1>1, <2>2 DEF LutHolds, LutPlace, LutBegins, LutAngle
  <2> QED
    BY <2>4, <2>5
<1> QED
  BY <1>9, <1>10, <1>11, <1>12 DEF LutInv

LEMMA LutInductive ==
    ASSUME LeafLog = 3, GeneratorInv, LutInv, [NextTables]_<<vars, realVars, lutVars>>
    PROVE  LutInv'
<1>1. CASE UNCHANGED lutVars /\ UNCHANGED vars
  BY <1>1 DEF lutVars, vars, LutInv, LutTyped, LutOffsets, LutWithin, LutEnd, LutContent, LutHolds,
              LutSoFar, LutPlace, LutAngle, LutBegins
<1>2. CASE RealPlans
  <2>1. UNCHANGED lutVars
    BY <1>2 DEF RealPlans
  <2>2. CASE UNCHANGED vars
    BY <1>1, <2>1, <2>2
  <2>3. CASE ~UNCHANGED vars
    <3>1. Next
      BY <1>2, <2>3, PlansKeepTables DEF NextTables
    <3>2. pc # "done"
      BY <3>1 DEF Next, Load, Fill, FillEnds, Middle
    <3>3. s = 0 /\ level = 0 /\ first = 0 /\ begin = 0 /\ ws = <<>> /\ wsIs = <<>>
      BY <3>2 DEF LutInv, LutTyped
    <3> QED
      BY <2>1, <3>3 DEF lutVars, LutInv
  <2> QED
    BY <2>2, <2>3
<1>3. ASSUME NEW b \in Twiddles!LutBuilds, BeginTwiddles(b) PROVE LutInv'
  BY <1>3, BeginKeeps
<1>4. CASE PickTwiddles
  <2>1. UNCHANGED vars /\ (Twiddles!Pick \/ Twiddles!NextLevel)
    BY <1>4 DEF PickTwiddles, Twiddles!Next
  <2> QED
    BY <2>1, PickKeeps, NextLevelKeeps
<1> QED
  BY <1>1, <1>2, <1>3, <1>4 DEF NextTables

\* The levels together are not longer than what is allocated for them.
LEMMA WithinThen ==
    ASSUME LeafLog = 3, LutInv
    PROVE  WritesInWs
<1>1. CASE s = 0 /\ ws = <<>>
  <2>1. DOMAIN ws = {}
    BY <1>1
  <2> QED
    BY <2>1 DEF WritesInWs, Twiddles!WritesInWs
<1>2. CASE LutTyped /\ LutOffsets /\ LutWithin /\ LutContent
  <2> DEFINE g == Wide(lutBuild)
             room == Room(lutBuild)
             f == Spread(lutBuild)
             X == Pow[s - 3]
             W == LutWidth(level)
             P == LutParts(level)
  <2>1. /\ lutBuild \in {"sse", "neon", "vfp"} /\ s \in 5..30 /\ level \in 0..27 /\ level <= s - 3
        /\ begin = LutBegins(level) /\ first \in 0..W /\ (level = s - 3 => first = 0)
    BY <1>2 DEF LutTyped
  <2>2. /\ Twiddles!Group = g /\ Twiddles!GroupSize = room /\ g \in {1, 2, 4} /\ room \in {1, 4}
        /\ f \in {1, 2}
    BY <2>1, GroupSizes
  <2>3. X \in Nat /\ X >= 4 /\ Pow[s - 2] = 2 * X /\ 2^(s - 3) = X
    <3>1. s - 3 \in 0..30 /\ s - 3 \in 0..31 /\ 2 \in 0..31 /\ 2 <= s - 3 /\ s - 3 + 1 = s - 2
          /\ 1 \in 0..30 /\ 1 + 1 = 2 /\ 0 \in 0..30 /\ 0 + 1 = 1
      BY <2>1
    <3>2. X \in Nat /\ Pow[s - 3 + 1] = 2 * X /\ 2^(s - 3) = X
      BY <3>1, PowStep
    <3>3. Pow[2] <= X
      BY <3>1, PowLess
    <3>4. Pow[2] = 4
      <4>1. Pow[0 + 1] = 2 * Pow[0] /\ Pow[1 + 1] = 2 * Pow[1] /\ Pow[0] = 1
        BY <3>1, PowStep
      <4> QED
        BY <4>1
    <3> QED
      BY <3>1, <3>2, <3>3, <3>4
  <2>4. Twiddles!Allocated = IF lutBuild = "vfp" THEN (8 * ((X - 2) * 3 + 1)) \div 2
                             ELSE 8 * ((X - 2) * 3 + 1)
    <3>1. Twiddles!Leaf = 8
      <4>1. Twiddles!Leaf = 2^3
        BY DEF Twiddles!Leaf
      <4> QED
        BY <4>1
    <3>2. Twiddles!nLuts = s - 3
      BY DEF Twiddles!nLuts
    <3> QED
      BY <2>3, <3>1, <3>2 DEF Twiddles!Allocated
  <2>5. f * (6 * X - 8) <= Twiddles!Allocated /\ Twiddles!Allocated \in Nat
    <3> HIDE DEF X
    <3>1. CASE lutBuild = "vfp"
      <4>1. f = 1
        BY <3>1 DEF Spread
      <4>2. (8 * ((X - 2) * 3 + 1)) \div 2 = 4 * (3 * X - 5)
        BY <2>3
      <4>3. 6 * X - 8 <= 4 * (3 * X - 5)
        BY <2>3
      <4> QED
        BY <2>3, <2>4, <3>1, <4>1, <4>2, <4>3
    <3>2. CASE lutBuild # "vfp"
      <4> HIDE DEF f
      <4>1. 8 * ((X - 2) * 3 + 1) = 24 * X - 40
        BY <2>3
      <4>2. f * (6 * X - 8) <= 24 * X - 40
        BY <2>2, <2>3
      <4> QED
        BY <2>3, <2>4, <3>2, <4>1, <4>2
    <3> QED
      BY <3>1, <3>2
  <2>6. ASSUME NEW l \in Nat, l <= s - 3 PROVE LutBegins(l) <= f * (6 * X - 8) /\ LutBegins(l) \in Nat
    <3>1. l \in 0..29 /\ l + 1 \in 0..31 /\ s - 2 \in 0..31 /\ l + 1 <= s - 2
      BY <2>1, <2>6
    <3>2. Pow[l + 1] <= 2 * X /\ Pow[l + 1] \in Nat
      BY <2>3, <3>1, PowLess, PowStep
    <3>3. LutBegins(l) \in Nat
      BY <2>1, <3>1, LevelEnds
    <3> DEFINE V == Pow[l + 1]
    <3> HIDE DEF f, X, V
    <3>4. f * (3 * V - 8) <= f * (6 * X - 8) /\ 0 <= f * (6 * X - 8)
      <4>1. V \in Nat /\ V <= 2 * X
        BY <3>2 DEF V
      <4> QED
        BY <2>2, <2>3, <4>1
    <3> QED
      BY <3>3, <3>4 DEF LutBegins, f, V
  <2>7. LutEnd \in Nat /\ LutEnd <= f * (6 * X - 8) /\ (first = 0 => LutEnd = begin)
    <3>1. /\ LutEnd = begin + ((first \div g) * P) * room /\ P \in {1, 3}
          /\ W \in Nat /\ LutBegins(level + 1) = LutBegins(level) + ((W \div g) * P) * room
      <4>1. level \in 0..29
        BY <2>1
      <4> QED
        BY <2>1, <4>1, LevelEnds DEF LutEnd, LutParts
    <3>2. LutBegins(level) \in Nat /\ LutBegins(level) <= f * (6 * X - 8)
      BY <2>1, <2>6
    <3>3. level < s - 3 => LutBegins(level + 1) <= f * (6 * X - 8)
      <4> SUFFICES ASSUME level < s - 3 PROVE LutBegins(level + 1) <= f * (6 * X - 8)
        OBVIOUS
      <4>1. level + 1 \in Nat /\ level + 1 <= s - 3
        BY <2>1
      <4> QED
        BY <2>6, <4>1
    <3> DEFINE a == first \div g
               b == W \div g
    <3>4. a \in Nat /\ b \in Nat /\ a <= b /\ (first = 0 => a = 0)
      <4> HIDE DEF g, W
      <4> QED
        BY <2>1, <2>2, <3>1
    <3> HIDE DEF a, b, P, W, g, room
    <3>5. (a * P) * room \in Nat /\ (b * P) * room \in Nat /\ (a * P) * room <= (b * P) * room
          /\ (first = 0 => (a * P) * room = 0)
      <4>1. a * P \in Nat /\ b * P \in Nat /\ a * P <= b * P /\ (first = 0 => a * P = 0)
        BY <3>1, <3>4
      <4> QED
        BY <2>2, <4>1
    <3> DEFINE x == (a * P) * room
               y == (b * P) * room
               z == f * (6 * X - 8)
    <3>6. /\ LutEnd = begin + x /\ LutBegins(level + 1) = begin + y
          /\ x \in Nat /\ y \in Nat /\ x <= y /\ (first = 0 => x = 0) /\ begin \in Nat
          /\ z \in Int /\ begin <= z
      BY <2>1, <2>2, <2>3, <3>1, <3>2, <3>5 DEF a, b
    <3>7. level < s - 3 => begin + y <= z
      BY <3>3, <3>6
    <3> HIDE DEF x, y, z
    <3>8. LutEnd \in Nat /\ LutEnd <= z /\ (first = 0 => LutEnd = begin)
      BY <2>1, <3>6, <3>7
    <3> QED
      BY <3>8 DEF z
  <2> HIDE DEF g, room, f, X, W, P
  <2> SUFFICES ASSUME NEW p \in DOMAIN ws
               PROVE  /\ p >= 0 /\ p + room <= Twiddles!Allocated
                      /\ first = 0 => p + room <= begin
    BY <2>2 DEF WritesInWs, Twiddles!WritesInWs
  <2>8. p \in Nat /\ p + room <= LutEnd
    BY <1>2 DEF LutWithin, room
  <2> DEFINE z == f * (6 * X - 8)
  <2>9. z \in Int /\ LutEnd <= z /\ z <= Twiddles!Allocated
    BY <2>2, <2>3, <2>5, <2>7
  <2> HIDE DEF z
  <2> QED
    BY <2>2, <2>5, <2>7, <2>8, <2>9
<1> QED
  BY <1>1, <1>2 DEF LutInv

\* What the passes read is what was written.
LEMMA ContentThen ==
    ASSUME LeafLog = 3, LutInv
    PROVE  TwiddlesFit
<1> SUFFICES ASSUME s > 0, level = Twiddles!nLuts PROVE TwiddlesFit
  BY DEF TwiddlesFit, Twiddles!TwiddlesFit
<1>1. LutTyped /\ LutOffsets /\ LutContent /\ Twiddles!nLuts = s - 3 /\ level = s - 3
  BY DEF LutInv, Twiddles!nLuts
<1>2. lutBuild \in {"sse", "neon", "vfp"} /\ s \in 5..30
  BY <1>1 DEF LutTyped
<1> DEFINE g == Wide(lutBuild)
           room == Room(lutBuild)
<1>3. Twiddles!Group = g /\ Twiddles!GroupSize = room /\ g \in {1, 2, 4} /\ room \in {1, 4}
  BY <1>2, GroupSizes
<1>4. \A l \in 0..(s - 4) : wsIs[l + 1] = LutBegins(l)
  <2>1. first = 0 /\ Len(wsIs) = s - 3
    BY <1>1, <1>2 DEF LutTyped, LutOffsets
  <2>2. Len(wsIs) - 1 = s - 4
    BY <1>2, <2>1
  <2> QED
    BY <1>1, <2>2 DEF LutOffsets
<1>5. ASSUME NEW l \in 0..(s - 4)
      PROVE  /\ Twiddles!Leaf * 2^(l + 1) = 8 * Pow[l + 1]
             /\ Pow[l + 1] \in Nat /\ Pow[l + 1] >= 1 /\ Pow[s - 4 - l] \in Nat
             /\ 2^s \div (8 * Pow[l + 1]) = Pow[s - 4 - l]
  <2> DEFINE a == l + 1
             b == s - 4 - l
             c == s - 3
  <2>1. a \in 0..31 /\ b \in 0..31 /\ a + b = c /\ c \in 0..30 /\ c + 1 \in 0..30 /\ c + 1 + 1 \in 0..30
        /\ c + 1 + 1 + 1 = s /\ s \in 0..31 /\ a + b <= 31
    BY <1>2
  <2> HIDE DEF a, b, c
  <2>2. /\ Pow[a] \in Nat /\ Pow[a] >= 1 /\ Pow[b] \in Nat /\ 2^a = Pow[a] /\ 2^s = Pow[s]
        /\ Pow[c + 1] = 2 * Pow[c] /\ Pow[c + 1 + 1] = 2 * Pow[c + 1] /\ Pow[c + 1 + 1 + 1] = 2 * Pow[c + 1 + 1]
    BY <2>1, PowStep
  <2>3. Pow[c] = Pow[a] * Pow[b]
    BY <2>1, PowSum
  <2> DEFINE PA == Pow[a]
             PB == Pow[b]
  <2>4. PA \in Nat /\ PA >= 1 /\ PB \in Nat /\ PA * PB \in Nat /\ Pow[c] = PA * PB
    BY <2>2, <2>3
  <2>5. Pow[s] = 8 * Pow[c]
    BY <2>1, <2>2, <2>4
  <2>6. Pow[s] = (8 * PA) * PB + 0
    <3> HIDE DEF PA, PB
    <3>1. 8 * (PA * PB) = (8 * PA) * PB + 0
      BY <2>4, Z3
    <3> QED
      BY <2>4, <2>5, <3>1
  <2>7. Pow[s] \div (8 * PA) = PB
    <3> HIDE DEF PA, PB
    <3>1. 8 * PA \in Nat /\ 8 * PA >= 1 /\ 0 < 8 * PA /\ 0 \in Nat
      BY <2>4
    <3>2. Pow[s] \in Nat
      BY <2>1, PowStep
    <3> QED
      BY <2>4, <2>6, <3>1, <3>2, Division
  <2>8. Twiddles!Leaf = 8
    <3>1. Twiddles!Leaf = 2^3
      BY DEF Twiddles!Leaf
    <3> QED
      BY <3>1
  <2> QED
    BY <2>2, <2>7, <2>8 DEF a, b
<1>6. ASSUME NEW l \in 0..(s - 4), NEW k \in Nat, k < LutWidth(l), NEW part \in 1..LutParts(l)
      PROVE  ws[wsIs[l + 1] + ((k \div g) * LutParts(l) + part - 1) * room][(k % g) + 1]
               = LutAngle(l, part, k)
  <2> DEFINE q == k \div g
             r == k % g
  <2>1. q \in Nat /\ r \in 0..(g - 1) /\ q * g + r = k
    <3> HIDE DEF g
    <3> QED
      BY <1>3
  <2> HIDE DEF q, r
  <2>2. q * g < LutWidth(l)
    <3>1. l \in 0..29
      BY <1>2
    <3>2. LutWidth(l) \in Nat /\ q * g <= k /\ q * g \in Nat
      <4>1. LutWidth(l) \in Nat
        BY <1>2, <3>1, LevelEnds
      <4> HIDE DEF g
      <4> QED
        BY <1>3, <2>1, <4>1
    <3> QED
      BY <1>6, <3>2
  <2>3. l \in 0..level /\ LutSoFar(l) = LutWidth(l)
    <3>1. l < level
      BY <1>1, <1>2
    <3> QED
      BY <1>1, <1>2, <3>1 DEF LutSoFar
  <2>4. LutHolds(l, part, q)
    BY <1>1, <2>1, <2>2, <2>3 DEF LutContent
  <2>5. wsIs[l + 1] + (q * LutParts(l) + part - 1) * room = LutPlace(l, q, part)
    BY <1>4 DEF LutPlace
  <2>6. ws[LutPlace(l, q, part)][r + 1] = LutAngle(l, part, q * g + r)
    BY <2>1, <2>4 DEF LutHolds
  <2> QED
    BY <2>1, <2>5, <2>6 DEF q, r
<1> HIDE DEF g, room
<1>7. ASSUME NEW l \in 0..(s - 4), NEW k \in Nat, k < LutWidth(l)
      PROVE  /\ l = 0 => ws[wsIs[l + 1] + ((k \div g) * 1 + 0) * room][(k % g) + 1] = k * Pow[s - 4 - l]
             /\ l # 0 =>
                   /\ ws[wsIs[l + 1] + ((k \div g) * 3 + 0) * room][(k % g) + 1] = 2 * k * Pow[s - 4 - l]
                   /\ ws[wsIs[l + 1] + ((k \div g) * 3 + 1) * room][(k % g) + 1] = k * Pow[s - 4 - l]
                   /\ ws[wsIs[l + 1] + ((k \div g) * 3 + 2) * room][(k % g) + 1]
                          = (k + Pow[l + 1]) * Pow[s - 4 - l]
  <2>1. k \div g \in Int
    BY <1>3
  <2> DEFINE q == k \div g
  <2> HIDE DEF q
  <2>2. q * 1 + 1 - 1 = q * 1 + 0 /\ q * 3 + 1 - 1 = q * 3 + 0 /\ q * 3 + 2 - 1 = q * 3 + 1
        /\ q * 3 + 3 - 1 = q * 3 + 2
    BY <2>1 DEF q
  <2>3. CASE l = 0
    <3>1. 1 \in 1..LutParts(l) /\ LutParts(l) = 1 /\ s - 4 - l = s - 4
      BY <1>2, <2>3 DEF LutParts
    <3>2. LutAngle(l, 1, k) = k * Pow[s - 4]
      BY <2>3 DEF LutAngle
    <3> QED
      BY <1>6, <1>7, <2>2, <2>3, <3>1, <3>2 DEF q
  <2>4. CASE l # 0
    <3>1. 1 \in 1..LutParts(l) /\ 2 \in 1..LutParts(l) /\ 3 \in 1..LutParts(l) /\ LutParts(l) = 3
      BY <2>4 DEF LutParts
    <3>2. /\ LutAngle(l, 1, k) = 2 * k * Pow[s - 4 - l]
          /\ LutAngle(l, 2, k) = k * Pow[s - 4 - l]
          /\ LutAngle(l, 3, k) = (Pow[l + 1] + k) * Pow[s - 4 - l]
      BY <2>4 DEF LutAngle
    <3>3. Pow[l + 1] + k = k + Pow[l + 1]
      BY <1>5
    <3> QED
      BY <1>6, <1>7, <2>2, <2>4, <3>1, <3>2, <3>3 DEF q
  <2> QED
    BY <2>3, <2>4
<1>8. ASSUME NEW l \in 0..(s - 4)
      PROVE  /\ l = 0 => (8 * Pow[l + 1]) \div 4 = LutWidth(l)
             /\ l # 0 => (8 * Pow[l + 1]) \div 8 = LutWidth(l)
             /\ (8 * Pow[l + 1]) \div 8 = Pow[l + 1] /\ LutWidth(l) \in Nat
  <2> DEFINE V == Pow[l + 1]
  <2>1. V \in Nat
    BY <1>5
  <2>2. l = 0 => V = 2
    BY PowStep
  <2> HIDE DEF V
  <2>3. (8 * V) \div 8 = V /\ (l = 0 => (8 * V) \div 4 = 4)
    BY <2>1, <2>2
  <2> QED
    BY <2>1, <2>3 DEF V, LutWidth
<1> SUFFICES ASSUME NEW l \in 0..(s - 4)
             PROVE  LET size == Twiddles!Leaf * 2^(l + 1)
                        unit == 2^s \div size
                        slot(k, part, parts) ==
                            ws[wsIs[l + 1] + ((k \div g) * parts + part) * room][(k % g) + 1]
                    IN IF l = 0
                       THEN \A k \in 0..(size \div 4 - 1) : slot(k, 0, 1) = k * unit
                       ELSE \A k \in 0..(size \div 8 - 1) :
                                /\ slot(k, 0, 3) = 2 * k * unit
                                /\ slot(k, 1, 3) = k * unit
                                /\ slot(k, 2, 3) = (k + size \div 8) * unit
  <2>1. Twiddles!nLuts - 1 = s - 4
    BY <1>1, <1>2
  <2> QED
    BY <1>3, <2>1 DEF TwiddlesFit, Twiddles!TwiddlesFit
<1> DEFINE size == Twiddles!Leaf * 2^(l + 1)
           unit == 2^s \div size
<1>9. size = 8 * Pow[l + 1] /\ unit = Pow[s - 4 - l]
  BY <1>5
<1> HIDE DEF size, unit
<1>10. CASE l = 0
  <2>1. \A k \in 0..(size \div 4 - 1) : k \in Nat /\ k < LutWidth(l)
    BY <1>8, <1>9, <1>10
  <2> QED
    BY <1>7, <1>9, <1>10, <2>1 DEF size, unit
<1>11. CASE l # 0
  <2>1. \A k \in 0..(size \div 8 - 1) : k \in Nat /\ k < LutWidth(l)
    BY <1>8, <1>9, <1>11
  <2>2. size \div 8 = Pow[l + 1]
    BY <1>8, <1>9
  <2> QED
    BY <1>7, <1>9, <1>11, <2>1, <2>2 DEF size, unit
<1> QED
  BY <1>10, <1>11

-----------------------------------------------------------------------------
(* The theorems about plans; leaf_N is 8 (ffts.c:424).                     *)

PlansInv == GeneratorInv /\ LutInv

LEMMA PlansInductive ==
    ASSUME LeafLog = 3
    PROVE  SpecTables => []PlansInv
<1>1. InitTables => PlansInv
  BY InitialTables DEF InitTables, Init1d, Twiddles!Init, PlansInv, LutInv
<1>2. PlansInv /\ [NextTables]_<<vars, realVars, lutVars>> => PlansInv'
  <2> SUFFICES ASSUME PlansInv, [NextTables]_<<vars, realVars, lutVars>> PROVE PlansInv'
    OBVIOUS
  <2>1. [Next]_vars
    BY PlansKeepTables
  <2>2. GeneratorInv'
    BY <2>1, GeneratorInductive DEF PlansInv
  <2>3. LutInv'
    BY LutInductive DEF PlansInv
  <2> QED
    BY <2>2, <2>3 DEF PlansInv
<1> QED
  BY <1>1, <1>2, PTL DEF SpecTables

\* ffts_generate_luts never writes outside of what it allocated for p->ws, and a level
\* begins where the ones before it have ended (ffts.c:228-459), for every build and for
\* plans of up to 2^30 points.
THEOREM AlwaysWritesInWs ==
    ASSUME LeafLog = 3
    PROVE  SpecTables => []WritesInWs
<1>1. PlansInv => WritesInWs
  BY WithinThen DEF PlansInv
<1> QED
  BY <1>1, PlansInductive, PTL

\* When p->ws is filled the passes of every size find in it the twiddle factors of their
\* size (ffts.c:254-459), for every build and for plans of up to 2^30 points.
THEOREM TwiddlesAlwaysFit ==
    ASSUME LeafLog = 3
    PROVE  SpecTables => []TwiddlesFit
<1>1. PlansInv => TwiddlesFit
  BY ContentThen DEF PlansInv
<1> QED
  BY <1>1, PlansInductive, PTL
===============================================================================
