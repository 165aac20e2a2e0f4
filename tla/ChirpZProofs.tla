----------------------------- MODULE ChirpZProofs -----------------------------
(***************************************************************************)
(* Chirp-z plans of every size compute Fourier transforms, given a right   *)
(* table of angles: the index of the chirp is the square reduced modulo    *)
(* 2 * N although it is only ever subtracted from, the two ends of the     *)
(* kernel do not meet, and the padding leaves no gap.                      *)
(***************************************************************************)
EXTENDS ChirpZ, TLAPS

-----------------------------------------------------------------------------
(* The specification: any plan may be made, of a table that is right.      *)

\* The sizes of which ffts_next_power_of_2 is known: its shifts have 32 bits.
PlanSizes == {n \in Nat : 1 <= n /\ n <= 32768}

ChirpNext == Next \/ \E n \in PlanSizes : Begin(n)

\* What CosSin fills the table with.
TableRight == \A c \in 0..(2 * N - 1) : lut[c] = c

ChirpSpec == Init /\ [][ChirpNext]_vars /\ []TableRight

-----------------------------------------------------------------------------
(* Remainders.                                                             *)

LEMMA Division ==
    ASSUME NEW m \in Nat, m > 0, NEW x \in Int
    PROVE  x = m * (x \div m) + (x % m)
  BY Z3

\* Two remainders that differ by a multiple are the same.
LEMMA RemainderUnique ==
    ASSUME NEW m \in Nat, m > 0, NEW t \in Int, NEW r \in 0..(m - 1), NEW s \in 0..(m - 1),
           r = s + t * m
    PROVE  r = s
  OBVIOUS

LEMMA Congruent ==
    ASSUME NEW m \in Nat, m > 0, NEW x \in Int, NEW y \in Int, NEW q \in Int, x = y + q * m
    PROVE  x % m = y % m
<1> DEFINE a == x \div m
           b == y \div m
           r == x % m
           s == y % m
           t == q + b - a
<1>1. a \in Int /\ b \in Int /\ r \in 0..(m - 1) /\ s \in 0..(m - 1)
  OBVIOUS
<1>2. x = m * a + r /\ y = m * b + s
  BY Division
<1> HIDE DEF a, b, r, s
<1>3. m * a + r = m * b + s + q * m
  BY <1>2
<1>4. t \in Int /\ r = s + t * m
  BY <1>1, <1>3, Z3
<1> HIDE DEF t
<1>5. r = s
  BY <1>1, <1>4, RemainderUnique
<1> QED
  BY <1>5 DEF r, s

LEMMA WrappedIndex ==
    ASSUME NEW m \in Nat, NEW d \in 1..(m - 1)
    PROVE  (-d) % m = m - d /\ d % m = d /\ 0 % m = 0
  OBVIOUS

\* The nested plan is long enough for both ends of the kernel.
LEMMA Padded ==
    ASSUME NEW n \in PlanSizes
    PROVE  NextPowerOf2(2 * n - 1) \in Nat /\ NextPowerOf2(2 * n - 1) > 2 * n - 1
<1> DEFINE x == 2 * n - 1
<1>1. x \in Nat /\ 1 <= x /\ x <= 65535
  BY DEF PlanSizes
<1> HIDE DEF x
<1> DEFINE powers == {2^e : e \in 0..16}
<1>2. /\ 2^1 = 2 /\ 2^2 = 4 /\ 2^3 = 8 /\ 2^4 = 16 /\ 2^5 = 32 /\ 2^6 = 64
      /\ 2^7 = 128 /\ 2^8 = 256 /\ 2^9 = 512 /\ 2^10 = 1024 /\ 2^11 = 2048 /\ 2^12 = 4096
      /\ 2^13 = 8192 /\ 2^14 = 16384 /\ 2^15 = 32768 /\ 2^16 = 65536
  OBVIOUS
<1>3. /\ 2 \in powers /\ 4 \in powers /\ 8 \in powers /\ 16 \in powers
      /\ 32 \in powers /\ 64 \in powers /\ 128 \in powers /\ 256 \in powers /\ 512 \in powers
      /\ 1024 \in powers /\ 2048 \in powers /\ 4096 \in powers /\ 8192 \in powers
      /\ 16384 \in powers /\ 32768 \in powers /\ 65536 \in powers
  BY <1>2
<1>4. powers \subseteq Nat
  OBVIOUS
<1> HIDE DEF powers
<1>5. \E m \in powers : m > x /\ m <= 2 * x
  <2>1. CASE x < 16
    BY <1>1, <1>3, <2>1
  <2>2. CASE 16 <= x /\ x < 256
    BY <1>1, <1>3, <2>2
  <2>3. CASE 256 <= x /\ x < 4096
    BY <1>1, <1>3, <2>3
  <2>4. CASE 4096 <= x
    BY <1>1, <1>3, <2>4
  <2> QED
    BY <1>1, <2>1, <2>2, <2>3, <2>4
<1>6. NextPowerOf2(x) \in powers /\ NextPowerOf2(x) > x
  BY <1>5 DEF NextPowerOf2, powers
<1> QED
  BY <1>4, <1>6 DEF x

-----------------------------------------------------------------------------
(* The inductive invariant.                                                *)

TypesOK ==
    /\ pc \in {"idle", "chirp", "kernel", "pad", "ready", "multiply", "padInput", "convolve"}
    /\ pc # "idle" =>
           /\ N \in Nat /\ N >= 1 /\ M \in Nat /\ M > 2 * N - 1
           /\ i \in Nat /\ j \in Nat
           /\ A \in [0..(N - 1) -> Int]
           /\ kernel \in [0..(M - 1) -> Int]
           /\ t1 \in [0..(M - 1) -> Int]

\* a is the square of m, reduced modulo 2 * N.
IsSquare(a, m) == a \in 0..(2 * N - 1) /\ \E q \in Int : a = m * m + q * (2 * N)

\* j is the square of i, although only differences of squares were added.
ChirpOK ==
    /\ pc = "chirp" =>
           /\ i <= N /\ (i < N => IsSquare(j, i))
           /\ \A m \in 0..(i - 1) : IsSquare(A[m], m)
    /\ pc \notin {"idle", "chirp"} => \A m \in 0..(N - 1) : IsSquare(A[m], m)

\* The chirp from both ends, and zeros between them.
KernelOK ==
    /\ pc = "kernel" =>
           /\ 1 <= i /\ i <= N
           /\ \A m \in 0..(i - 1) : kernel[m] = A[m]
           /\ \A m \in 1..(i - 1) : kernel[M - m] = A[m]
    /\ pc \notin {"idle", "chirp", "kernel"} =>
           /\ \A m \in 0..(N - 1) : kernel[m] = A[m]
           /\ \A m \in 1..(N - 1) : kernel[M - m] = A[m]
    /\ pc = "pad" =>
           /\ N <= i /\ i <= M - N + 1
           /\ \A m \in N..(i - 1) : kernel[m] = Zero
    /\ pc \in {"ready", "multiply", "padInput", "convolve"} =>
           \A m \in N..(M - N) : kernel[m] = Zero

InputOK ==
    /\ pc = "multiply" => i <= N /\ \A m \in 0..(i - 1) : t1[m] = A[m]
    /\ pc = "padInput" =>
           /\ N <= i /\ i <= M
           /\ \A m \in 0..(N - 1) : t1[m] = A[m]
           /\ \A m \in N..(i - 1) : t1[m] = Zero
    /\ pc = "convolve" =>
           \A m \in 0..(M - 1) : t1[m] = IF m < N THEN A[m] ELSE Zero

IInv == TypesOK /\ ChirpOK /\ KernelOK /\ InputOK

LEMMA BeginStep ==
    ASSUME NEW n \in PlanSizes, Begin(n)
    PROVE  IInv'
<1>1. /\ N' = n /\ M' = NextPowerOf2(2 * n - 1) /\ pc' = "chirp" /\ i' = 0 /\ j' = 0
      /\ A' = [m \in 0..(n - 1) |-> Old]
      /\ kernel' = [m \in 0..(M' - 1) |-> Old] /\ t1' = [m \in 0..(M' - 1) |-> Old]
  BY DEF Begin
<1>2. n \in Nat /\ n >= 1 /\ M' \in Nat /\ M' > 2 * n - 1
  <2>1. n \in Nat /\ n >= 1
    BY DEF PlanSizes
  <2>2. NextPowerOf2(2 * n - 1) \in Nat /\ NextPowerOf2(2 * n - 1) > 2 * n - 1
    BY Padded
  <2> QED
    BY <1>1, <2>1, <2>2
<1>3. TypesOK'
  BY <1>1, <1>2 DEF TypesOK, Old
<1>4. IsSquare(j, i)'
  <2>1. 0 \in 0..(2 * n - 1) /\ 0 = 0 * 0 + 0 * (2 * n)
    BY <1>2
  <2> QED
    BY <1>1, <2>1 DEF IsSquare
<1>5. ChirpOK'
  BY <1>1, <1>2, <1>4 DEF ChirpOK
<1>6. KernelOK' /\ InputOK'
  BY <1>1 DEF KernelOK, InputOK
<1> QED
  BY <1>3, <1>5, <1>6 DEF IInv

\* One subtraction is enough.
LEMMA NextSquare ==
    ASSUME N \in Nat, NEW k \in Nat, k + 1 < N, NEW a, IsSquare(a, k),
           NEW b, b = IF a + 2 * k + 1 >= 2 * N THEN a + 2 * k + 1 - 2 * N ELSE a + 2 * k + 1
    PROVE  IsSquare(b, k + 1)
<1>1. PICK q \in Int : a = k * k + q * (2 * N)
  BY DEF IsSquare
<1>2. a \in 0..(2 * N - 1)
  BY DEF IsSquare
<1>3. b \in 0..(2 * N - 1)
  BY <1>2
<1>4. (k + 1) * (k + 1) = k * k + 2 * k + 1
  BY Z3
<1>5. CASE a + 2 * k + 1 >= 2 * N
  <2>1. (q - 1) * (2 * N) = q * (2 * N) - 2 * N
    BY Z3
  <2>2. k * k \in Int /\ q * (2 * N) \in Int
    OBVIOUS
  <2>3. b = (k + 1) * (k + 1) + (q - 1) * (2 * N)
    BY <1>1, <1>4, <1>5, <2>1, <2>2
  <2> QED
    BY <1>3, <2>3 DEF IsSquare
<1>6. CASE ~ (a + 2 * k + 1 >= 2 * N)
  <2>1. k * k \in Int /\ q * (2 * N) \in Int
    OBVIOUS
  <2>2. b = (k + 1) * (k + 1) + q * (2 * N)
    BY <1>1, <1>4, <1>6, <2>1
  <2> QED
    BY <1>3, <2>2 DEF IsSquare
<1> QED
  BY <1>5, <1>6

LEMMA ChirpStepStep ==
    ASSUME IInv, TableRight, ChirpStep
    PROVE  IInv'
<1>1. /\ pc = "chirp" /\ i < N
      /\ A' = [A EXCEPT ![i] = lut[j]]
      /\ j' = IF j + 2 * i + 1 >= 2 * N THEN j + 2 * i + 1 - 2 * N ELSE j + 2 * i + 1
      /\ i' = i + 1
      /\ N' = N /\ M' = M /\ pc' = pc /\ kernel' = kernel /\ t1' = t1
  BY DEF ChirpStep
<1>2. /\ N \in Nat /\ N >= 1 /\ M \in Nat /\ M > 2 * N - 1 /\ i \in Nat /\ j \in Nat
      /\ A \in [0..(N - 1) -> Int] /\ IsSquare(j, i)
  BY <1>1 DEF IInv, TypesOK, ChirpOK
<1>3. j \in 0..(2 * N - 1) /\ lut[j] = j
  BY <1>2 DEF IsSquare, TableRight
<1>4. A' \in [0..(N - 1) -> Int] /\ j' \in Nat
  BY <1>1, <1>2, <1>3
<1>5. TypesOK'
  BY <1>1, <1>2, <1>4 DEF IInv, TypesOK
<1>6. \A m \in 0..(i' - 1) : IsSquare(A'[m], m)
  <2> SUFFICES ASSUME NEW m \in 0..(i' - 1) PROVE IsSquare(A'[m], m)
    OBVIOUS
  <2>1. CASE m = i
    BY <1>1, <1>2, <1>3, <2>1
  <2>2. CASE m # i
    BY <1>1, <1>2, <2>2 DEF IInv, ChirpOK
  <2> QED
    BY <2>1, <2>2
<1>7. i' < N => IsSquare(j', i')
  BY <1>1, <1>2, NextSquare
<1>8. ChirpOK'
  BY <1>1, <1>2, <1>6, <1>7 DEF ChirpOK, IsSquare
<1>9. KernelOK' /\ InputOK'
  BY <1>1 DEF KernelOK, InputOK
<1> QED
  BY <1>5, <1>8, <1>9 DEF IInv

LEMMA InitIInv ==
    ASSUME Init
    PROVE  IInv
  BY DEF Init, IInv, TypesOK, ChirpOK, KernelOK, InputOK

LEMMA ChirpEndsStep ==
    ASSUME IInv, ChirpEnds
    PROVE  IInv'
<1>1. /\ pc = "chirp" /\ i = N /\ kernel' = [kernel EXCEPT ![0] = A[0]]
      /\ i' = 1 /\ pc' = "kernel"
      /\ N' = N /\ M' = M /\ j' = j /\ A' = A /\ t1' = t1
  BY DEF ChirpEnds
<1>2. /\ N \in Nat /\ N >= 1 /\ M \in Nat /\ M > 2 * N - 1 /\ j \in Nat
      /\ A \in [0..(N - 1) -> Int] /\ kernel \in [0..(M - 1) -> Int]
      /\ t1 \in [0..(M - 1) -> Int]
  BY <1>1 DEF IInv, TypesOK
<1>3. TypesOK'
  BY <1>1, <1>2 DEF TypesOK
<1>4. ChirpOK'
  BY <1>1, <1>2 DEF IInv, ChirpOK, IsSquare
<1>5. KernelOK'
  BY <1>1, <1>2 DEF KernelOK
<1>6. InputOK'
  BY <1>1 DEF InputOK
<1> QED
  BY <1>3, <1>4, <1>5, <1>6 DEF IInv

\* The two cells that are written are apart, and apart from those written before.
LEMMA KernelStepStep ==
    ASSUME IInv, KernelStep
    PROVE  IInv'
<1>1. /\ pc = "kernel" /\ i < N
      /\ kernel' = [kernel EXCEPT ![i] = A[i], ![M - i] = A[i]]
      /\ i' = i + 1
      /\ N' = N /\ M' = M /\ pc' = pc /\ j' = j /\ A' = A /\ t1' = t1
  BY DEF KernelStep
<1>2. /\ N \in Nat /\ N >= 1 /\ M \in Nat /\ M > 2 * N - 1 /\ j \in Nat
      /\ A \in [0..(N - 1) -> Int] /\ kernel \in [0..(M - 1) -> Int]
      /\ t1 \in [0..(M - 1) -> Int]
      /\ i \in Nat /\ 1 <= i /\ i <= N
  BY <1>1 DEF IInv, TypesOK, KernelOK
<1>3. kernel' \in [0..(M - 1) -> Int]
  BY <1>1, <1>2
<1>4. TypesOK'
  <2>1. /\ pc' = "kernel" /\ i' = i + 1 /\ i' \in Nat
        /\ N' = N /\ M' = M /\ j' = j /\ A' = A /\ t1' = t1
    BY <1>1, <1>2
  <2> QED
    BY <1>2, <1>3, <2>1 DEF TypesOK
<1>5. ChirpOK'
  BY <1>1, <1>2 DEF IInv, ChirpOK, IsSquare
<1>6. /\ \A m \in 0..(i - 1) : kernel[m] = A[m]
      /\ \A m \in 1..(i - 1) : kernel[M - m] = A[m]
  BY <1>1 DEF IInv, KernelOK
<1>7. \A m \in 0..i : kernel'[m] = A[m]
  <2> SUFFICES ASSUME NEW m \in 0..i PROVE kernel'[m] = A[m]
    OBVIOUS
  <2>1. m \in 0..(M - 1) /\ m # M - i /\ i \in 0..(M - 1)
    BY <1>1, <1>2
  <2>2. kernel'[m] = IF m = i THEN A[i] ELSE kernel[m]
    BY <1>1, <1>2, <2>1
  <2> QED
    BY <1>2, <1>6, <2>2
<1>8. \A m \in 1..i : kernel'[M - m] = A[m]
  <2> SUFFICES ASSUME NEW m \in 1..i PROVE kernel'[M - m] = A[m]
    OBVIOUS
  <2>1. M - m \in 0..(M - 1) /\ M - m # i /\ (M - m = M - i <=> m = i)
    BY <1>1, <1>2
  <2>2. kernel'[M - m] = IF m = i THEN A[i] ELSE kernel[M - m]
    BY <1>1, <1>2, <2>1
  <2> QED
    BY <1>2, <1>6, <2>2
<1>9. KernelOK'
  <2>1. /\ pc' = "kernel" /\ N' = N /\ M' = M /\ A' = A
        /\ 1 <= i' /\ i' <= N /\ i' - 1 = i
    BY <1>1, <1>2
  <2> QED
    BY <1>7, <1>8, <2>1 DEF KernelOK
<1>10. InputOK'
  BY <1>1 DEF InputOK
<1> QED
  BY <1>4, <1>5, <1>9, <1>10 DEF IInv

LEMMA KernelEndsStep ==
    ASSUME IInv, KernelEnds
    PROVE  IInv'
<1>1. /\ pc = "kernel" /\ i = N /\ pc' = "pad"
      /\ N' = N /\ M' = M /\ i' = i /\ j' = j /\ A' = A /\ kernel' = kernel /\ t1' = t1
  BY DEF KernelEnds
<1>2. N \in Nat /\ N >= 1 /\ M \in Nat /\ M > 2 * N - 1
  BY <1>1 DEF IInv, TypesOK
<1>3. TypesOK'
  BY <1>1 DEF IInv, TypesOK
<1>4. ChirpOK'
  BY <1>1 DEF IInv, ChirpOK, IsSquare
<1>5. KernelOK'
  BY <1>1, <1>2 DEF IInv, KernelOK
<1>6. InputOK'
  BY <1>1 DEF InputOK
<1> QED
  BY <1>3, <1>4, <1>5, <1>6 DEF IInv

\* The zeros stay between the two ends.
LEMMA PadStep ==
    ASSUME IInv, Pad
    PROVE  IInv'
<1>1. /\ pc = "pad" /\ i <= M - N
      /\ kernel' = [kernel EXCEPT ![i] = Zero]
      /\ i' = i + 1
      /\ N' = N /\ M' = M /\ pc' = pc /\ j' = j /\ A' = A /\ t1' = t1
  BY DEF Pad, PadLast
<1>2. /\ N \in Nat /\ N >= 1 /\ M \in Nat /\ M > 2 * N - 1 /\ j \in Nat
      /\ A \in [0..(N - 1) -> Int] /\ kernel \in [0..(M - 1) -> Int]
      /\ t1 \in [0..(M - 1) -> Int]
      /\ i \in Nat /\ N <= i
  BY <1>1 DEF IInv, TypesOK, KernelOK
<1>3. kernel' \in [0..(M - 1) -> Int]
  BY <1>1, <1>2 DEF Zero
<1>4. TypesOK'
  BY <1>1, <1>2, <1>3 DEF TypesOK
<1>5. ChirpOK'
  BY <1>1, <1>2 DEF IInv, ChirpOK, IsSquare
<1>6. /\ \A m \in 0..(N - 1) : kernel[m] = A[m]
      /\ \A m \in 1..(N - 1) : kernel[M - m] = A[m]
      /\ \A m \in N..(i - 1) : kernel[m] = Zero
  BY <1>1 DEF IInv, KernelOK
<1>7. \A m \in 0..(M - 1) : kernel'[m] = IF m = i THEN Zero ELSE kernel[m]
  BY <1>1, <1>2
<1>8. \A m \in 0..(N - 1) : kernel'[m] = A[m]
  BY <1>2, <1>6, <1>7
<1>9. \A m \in 1..(N - 1) : kernel'[M - m] = A[m]
  <2> SUFFICES ASSUME NEW m \in 1..(N - 1) PROVE kernel'[M - m] = A[m]
    OBVIOUS
  <2>1. M - m \in 0..(M - 1) /\ M - m # i
    BY <1>1, <1>2
  <2> QED
    BY <1>6, <1>7, <2>1
<1>10. \A m \in N..i : kernel'[m] = Zero
  BY <1>1, <1>2, <1>6, <1>7
<1>11. KernelOK'
  BY <1>1, <1>2, <1>8, <1>9, <1>10 DEF KernelOK
<1>12. InputOK'
  BY <1>1 DEF InputOK
<1> QED
  BY <1>4, <1>5, <1>11, <1>12 DEF IInv

LEMMA PadEndsStep ==
    ASSUME IInv, PadEnds
    PROVE  IInv'
<1>1. /\ pc = "pad" /\ i > M - N /\ pc' = "ready"
      /\ N' = N /\ M' = M /\ i' = i /\ j' = j /\ A' = A /\ kernel' = kernel /\ t1' = t1
  BY DEF PadEnds, PadLast
<1>2. N \in Nat /\ N >= 1 /\ M \in Nat /\ M > 2 * N - 1 /\ i \in Nat
  BY <1>1 DEF IInv, TypesOK
<1>3. TypesOK'
  BY <1>1 DEF IInv, TypesOK
<1>4. ChirpOK'
  BY <1>1 DEF IInv, ChirpOK, IsSquare
<1>5. \A m \in N..(M - N) : kernel[m] = Zero
  BY <1>1, <1>2 DEF IInv, KernelOK
<1>6. KernelOK'
  BY <1>1, <1>5 DEF IInv, KernelOK
<1>7. InputOK'
  BY <1>1 DEF InputOK
<1> QED
  BY <1>3, <1>4, <1>6, <1>7 DEF IInv

LEMMA ExecuteStep ==
    ASSUME IInv, Execute
    PROVE  IInv'
<1>1. /\ pc = "ready" /\ pc' = "multiply" /\ i' = 0
      /\ N' = N /\ M' = M /\ j' = j /\ A' = A /\ kernel' = kernel /\ t1' = t1
  BY DEF Execute
<1>2. N \in Nat
  BY <1>1 DEF IInv, TypesOK
<1>3. TypesOK'
  BY <1>1 DEF IInv, TypesOK
<1>4. ChirpOK'
  BY <1>1 DEF IInv, ChirpOK, IsSquare
<1>5. KernelOK'
  BY <1>1 DEF IInv, KernelOK
<1>6. InputOK'
  BY <1>1, <1>2 DEF InputOK
<1> QED
  BY <1>3, <1>4, <1>5, <1>6 DEF IInv

LEMMA MultiplyStep ==
    ASSUME IInv, Multiply
    PROVE  IInv'
<1>1. /\ pc = "multiply" /\ i < N /\ t1' = [t1 EXCEPT ![i] = A[i]] /\ i' = i + 1
      /\ N' = N /\ M' = M /\ pc' = pc /\ j' = j /\ A' = A /\ kernel' = kernel
  BY DEF Multiply
<1>2. /\ N \in Nat /\ N >= 1 /\ M \in Nat /\ M > 2 * N - 1 /\ i \in Nat
      /\ A \in [0..(N - 1) -> Int] /\ t1 \in [0..(M - 1) -> Int]
      /\ \A m \in 0..(i - 1) : t1[m] = A[m]
  BY <1>1 DEF IInv, TypesOK, InputOK
<1>3. /\ t1' \in [0..(M - 1) -> Int]
      /\ \A m \in 0..(M - 1) : t1'[m] = IF m = i THEN A[i] ELSE t1[m]
  BY <1>1, <1>2
<1>4. TypesOK'
  BY <1>1, <1>2, <1>3 DEF IInv, TypesOK
<1>5. ChirpOK'
  BY <1>1 DEF IInv, ChirpOK, IsSquare
<1>6. KernelOK'
  BY <1>1 DEF IInv, KernelOK
<1>7. \A m \in 0..i : t1'[m] = A[m]
  BY <1>1, <1>2, <1>3
<1>8. InputOK'
  BY <1>1, <1>2, <1>7 DEF InputOK
<1> QED
  BY <1>4, <1>5, <1>6, <1>8 DEF IInv

LEMMA MultiplyEndsStep ==
    ASSUME IInv, MultiplyEnds
    PROVE  IInv'
<1>1. /\ pc = "multiply" /\ i = N /\ pc' = "padInput"
      /\ N' = N /\ M' = M /\ i' = i /\ j' = j /\ A' = A /\ kernel' = kernel /\ t1' = t1
  BY DEF MultiplyEnds
<1>2. N \in Nat /\ N >= 1 /\ M \in Nat /\ M > 2 * N - 1
  BY <1>1 DEF IInv, TypesOK
<1>3. TypesOK'
  BY <1>1 DEF IInv, TypesOK
<1>4. ChirpOK'
  BY <1>1 DEF IInv, ChirpOK, IsSquare
<1>5. KernelOK'
  BY <1>1 DEF IInv, KernelOK
<1>6. InputOK'
  BY <1>1, <1>2 DEF IInv, InputOK
<1> QED
  BY <1>3, <1>4, <1>5, <1>6 DEF IInv

LEMMA PadInputStep ==
    ASSUME IInv, PadInput
    PROVE  IInv'
<1>1. /\ pc = "padInput" /\ i < M /\ t1' = [t1 EXCEPT ![i] = Zero] /\ i' = i + 1
      /\ N' = N /\ M' = M /\ pc' = pc /\ j' = j /\ A' = A /\ kernel' = kernel
  BY DEF PadInput, InputEnd
<1>2. /\ N \in Nat /\ N >= 1 /\ M \in Nat /\ M > 2 * N - 1 /\ i \in Nat /\ N <= i
      /\ t1 \in [0..(M - 1) -> Int]
      /\ \A m \in 0..(N - 1) : t1[m] = A[m]
      /\ \A m \in N..(i - 1) : t1[m] = Zero
  BY <1>1 DEF IInv, TypesOK, InputOK
<1>3. /\ t1' \in [0..(M - 1) -> Int]
      /\ \A m \in 0..(M - 1) : t1'[m] = IF m = i THEN Zero ELSE t1[m]
  BY <1>1, <1>2 DEF Zero
<1>4. TypesOK'
  BY <1>1, <1>2, <1>3 DEF IInv, TypesOK
<1>5. ChirpOK'
  BY <1>1 DEF IInv, ChirpOK, IsSquare
<1>6. KernelOK'
  BY <1>1 DEF IInv, KernelOK
<1>7. \A m \in 0..(N - 1) : t1'[m] = A[m]
  BY <1>1, <1>2, <1>3
<1>8. \A m \in N..i : t1'[m] = Zero
  BY <1>1, <1>2, <1>3
<1>9. InputOK'
  BY <1>1, <1>2, <1>7, <1>8 DEF InputOK
<1> QED
  BY <1>4, <1>5, <1>6, <1>9 DEF IInv

LEMMA PadInputEndsStep ==
    ASSUME IInv, PadInputEnds
    PROVE  IInv'
<1>1. /\ pc = "padInput" /\ i = M /\ pc' = "convolve"
      /\ N' = N /\ M' = M /\ i' = i /\ j' = j /\ A' = A /\ kernel' = kernel /\ t1' = t1
  BY DEF PadInputEnds, InputEnd
<1>2. /\ N \in Nat /\ N >= 1 /\ M \in Nat /\ M > 2 * N - 1
      /\ \A m \in 0..(N - 1) : t1[m] = A[m]
      /\ \A m \in N..(i - 1) : t1[m] = Zero
  BY <1>1 DEF IInv, TypesOK, InputOK
<1>3. TypesOK'
  BY <1>1 DEF IInv, TypesOK
<1>4. ChirpOK'
  BY <1>1 DEF IInv, ChirpOK, IsSquare
<1>5. KernelOK'
  BY <1>1 DEF IInv, KernelOK
<1>6. InputOK'
  BY <1>1, <1>2 DEF InputOK
<1> QED
  BY <1>3, <1>4, <1>5, <1>6 DEF IInv

LEMMA ConvolveStep ==
    ASSUME IInv, Convolve
    PROVE  IInv'
<1>1. /\ pc = "convolve" /\ t1' = [m \in 0..(M - 1) |-> Old] /\ pc' = "ready"
      /\ N' = N /\ M' = M /\ i' = i /\ j' = j /\ A' = A /\ kernel' = kernel
  BY DEF Convolve
<1>2. TypesOK'
  BY <1>1 DEF IInv, TypesOK, Old
<1>3. ChirpOK'
  BY <1>1 DEF IInv, ChirpOK, IsSquare
<1>4. KernelOK'
  BY <1>1 DEF IInv, KernelOK
<1>5. InputOK'
  BY <1>1 DEF InputOK
<1> QED
  BY <1>2, <1>3, <1>4, <1>5 DEF IInv

\* The plan is a plan of what it was made for, whatever the actions do in which order.
THEOREM Inductive == ChirpSpec => []IInv
<1>1. IInv /\ TableRight /\ [ChirpNext]_vars => IInv'
  <2> SUFFICES ASSUME IInv, TableRight, [ChirpNext]_vars PROVE IInv'
    OBVIOUS
  <2>1. CASE \E n \in PlanSizes : Begin(n)
    BY <2>1, BeginStep
  <2>2. CASE ChirpStep
    BY <2>2, ChirpStepStep
  <2>3. CASE ChirpEnds
    BY <2>3, ChirpEndsStep
  <2>4. CASE KernelStep
    BY <2>4, KernelStepStep
  <2>5. CASE KernelEnds
    BY <2>5, KernelEndsStep
  <2>6. CASE Pad
    BY <2>6, PadStep
  <2>7. CASE PadEnds
    BY <2>7, PadEndsStep
  <2>8. CASE Execute
    BY <2>8, ExecuteStep
  <2>9. CASE Multiply
    BY <2>9, MultiplyStep
  <2>10. CASE MultiplyEnds
    BY <2>10, MultiplyEndsStep
  <2>11. CASE PadInput
    BY <2>11, PadInputStep
  <2>12. CASE PadInputEnds
    BY <2>12, PadInputEndsStep
  <2>13. CASE Convolve
    BY <2>13, ConvolveStep
  <2>14. CASE UNCHANGED vars
    <3>1. /\ N' = N /\ M' = M /\ pc' = pc /\ i' = i /\ j' = j
          /\ A' = A /\ kernel' = kernel /\ t1' = t1
      BY <2>14 DEF vars
    <3> QED
      BY <3>1 DEF IInv, TypesOK, ChirpOK, KernelOK, InputOK, IsSquare
  <2> QED
    BY <2>1, <2>2, <2>3, <2>4, <2>5, <2>6, <2>7, <2>8, <2>9, <2>10, <2>11, <2>12,
       <2>13, <2>14 DEF ChirpNext, Next
<1> QED
  BY <1>1, InitIInv, PTL DEF ChirpSpec

-----------------------------------------------------------------------------
(* What follows.                                                           *)

\* The kernel has the square of the distance of any two points, wrapped around at M.
LEMMA KernelIsSquare ==
    ASSUME IInv, pc = "convolve", NEW k \in 0..(N - 1), NEW n \in 0..(N - 1)
    PROVE  \E q \in Int : kernel[(k - n) % M] = (k - n) * (k - n) + q * (2 * N)
<1>1. N \in Nat /\ N >= 1 /\ M \in Nat /\ M > 2 * N - 1
  BY DEF IInv, TypesOK
<1>2. /\ \A m \in 0..(N - 1) : kernel[m] = A[m]
      /\ \A m \in 1..(N - 1) : kernel[M - m] = A[m]
      /\ \A m \in 0..(N - 1) : \E q \in Int : A[m] = m * m + q * (2 * N)
  BY DEF IInv, KernelOK, ChirpOK, IsSquare
<1>3. CASE k >= n
  <2>1. k - n \in 0..(N - 1) /\ (k - n) % M = k - n
    BY <1>1, <1>3
  <2> QED
    BY <1>2, <2>1
<1>4. CASE k < n
  <2> DEFINE d == n - k
  <2>1. d \in 1..(N - 1) /\ d \in 1..(M - 1) /\ k - n = -d
    BY <1>1, <1>4
  <2>2. (k - n) % M = M - d
    BY <1>1, <2>1, WrappedIndex
  <2>3. (k - n) * (k - n) = d * d
    <3> HIDE DEF d
    <3> QED
      BY <2>1, Z3
  <2>4. d \in 0..(N - 1)
    BY <1>1, <2>1
  <2> HIDE DEF d
  <2> QED
    BY <1>2, <2>1, <2>2, <2>3, <2>4
<1> QED
  BY <1>3, <1>4

\* The bilinear identity on which the algorithm of Bluestein rests.
LEMMA SquareOfDistance ==
    ASSUME NEW k \in Int, NEW n \in Int
    PROVE  (k - n) * (k - n) = n * n + k * k + (-2 * k * n)
  BY Z3

\* The terms of the convolution are those of a discrete Fourier transform.
LEMMA TermsRight ==
    ASSUME IInv, pc = "convolve", NEW k \in 0..(N - 1), NEW n \in 0..(N - 1)
    PROVE  /\ t1[n] # Zero
           /\ (kernel[(k - n) % M] - t1[n] - A[k]) % (2 * N) = (-2 * k * n) % (2 * N)
<1>1. N \in Nat /\ N >= 1 /\ M \in Nat /\ M > 2 * N - 1
  BY DEF IInv, TypesOK
<1>2. t1[n] = A[n]
  BY <1>1 DEF IInv, InputOK
<1>3. IsSquare(A[n], n) /\ IsSquare(A[k], k)
  BY DEF IInv, ChirpOK
<1>4. PICK q \in Int : A[n] = n * n + q * (2 * N)
  BY <1>3 DEF IsSquare
<1>5. PICK r \in Int : A[k] = k * k + r * (2 * N)
  BY <1>3 DEF IsSquare
<1>6. PICK s \in Int : kernel[(k - n) % M] = (k - n) * (k - n) + s * (2 * N)
  BY KernelIsSquare
<1> DEFINE m == 2 * N
           x == kernel[(k - n) % M] - t1[n] - A[k]
           y == -2 * k * n
           d == (k - n) * (k - n)
           nn == n * n
           kk == k * k
           v == s - q - r
<1>7. d = nn + kk + y
  BY <1>1, SquareOfDistance
<1>8. m \in Nat /\ m > 0 /\ y \in Int /\ nn \in Int /\ kk \in Int /\ v \in Int
  BY <1>1
<1>9. x = (d + s * m) - (nn + q * m) - (kk + r * m)
  BY <1>2, <1>4, <1>5, <1>6
<1> HIDE DEF m, y, d, nn, kk, x
<1>10. s * m - q * m - r * m = v * m
  BY <1>8, Z3
<1>11. x = y + v * m
  <2>1. s * m \in Int /\ q * m \in Int /\ r * m \in Int
    BY <1>8
  <2> HIDE DEF v
  <2>2. v * m \in Int
    BY <1>8
  <2> QED
    BY <1>7, <1>8, <1>9, <1>10, <2>1, <2>2
<1>12. x \in Int
  BY <1>8, <1>11
<1>13. x % m = y % m
  <2> HIDE DEF v
  <2> QED
    BY <1>8, <1>11, <1>12, Congruent
<1>14. t1[n] # Zero
  BY <1>1, <1>2, <1>3 DEF IsSquare, Zero
<1> QED
  BY <1>13, <1>14 DEF m, x, y

\* A plan of any size transforms as a discrete Fourier transform, if its table of
\* angles is right (ffts_chirp_z.c:59-225).
THEOREM ChirpConvolves == ChirpSpec => []Convolves
<1>1. IInv => Convolves
  BY TermsRight DEF Convolves
<1> QED
  BY <1>1, Inductive, PTL

\* Nothing old gets into a transform of a plan of any size (ffts_chirp_z.c:122-162).
THEOREM ChirpNoOldValues == ChirpSpec => []NoOldValues
<1>1. IInv => NoOldValues
  <2> SUFFICES ASSUME IInv PROVE NoOldValues
    OBVIOUS
  <2>1. ASSUME pc = "ready", NEW m \in 0..(M - 1) PROVE kernel[m] # Old
    <3>1. N \in Nat /\ N >= 1 /\ M \in Nat /\ M > 2 * N - 1
      BY <2>1 DEF IInv, TypesOK
    <3>2. /\ \A a \in 0..(N - 1) : kernel[a] = A[a]
          /\ \A a \in 1..(N - 1) : kernel[M - a] = A[a]
          /\ \A a \in N..(M - N) : kernel[a] = Zero
      BY <2>1 DEF IInv, KernelOK
    <3>3. \A a \in 0..(N - 1) : A[a] \in 0..(2 * N - 1)
      BY <2>1 DEF IInv, ChirpOK, IsSquare
    <3>4. CASE m \in 0..(N - 1)
      BY <3>1, <3>2, <3>3, <3>4 DEF Old
    <3>5. CASE m \in N..(M - N)
      BY <3>2, <3>5 DEF Old, Zero
    <3>6. CASE m > M - N
      <4>1. M - m \in 1..(N - 1) /\ M - m \in 0..(N - 1) /\ m = M - (M - m)
        BY <2>1, <3>1, <3>6
      <4>2. kernel[M - (M - m)] = A[M - m]
        BY <3>2, <4>1
      <4>3. kernel[m] = A[M - m]
        BY <4>1, <4>2
      <4> QED
        BY <3>1, <3>3, <4>1, <4>3 DEF Old
    <3> QED
      BY <2>1, <3>1, <3>4, <3>5, <3>6
  <2>2. pc = "convolve" => \A m \in 0..(M - 1) : t1[m] = IF m < N THEN A[m] ELSE Zero
    BY DEF IInv, InputOK
  <2> QED
    BY <2>1, <2>2 DEF NoOldValues
<1> QED
  BY <1>1, Inductive, PTL
==============================================================================
