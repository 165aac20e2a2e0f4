-------------------------------- MODULE ChirpZ --------------------------------
(***************************************************************************)
(* Plans for sizes that are no power of two (ffts_chirp_z.c): the chirp A  *)
(* that ffts_generate_chirp_32f makes, the kernel whose transform becomes  *)
(* B, and an execution as a circular convolution of M points.              *)
(*                                                                         *)
(* Values are named by angles out of 2 * N.  A convolution is right when   *)
(* every pair of an output and an input meets in the term that a discrete  *)
(* Fourier transform of N points has there; the transforms of M points     *)
(* that carry it out are those of the nested plan.                         *)
(***************************************************************************)
EXTENDS Integers

VARIABLES
    N, M,       \* points of the plan, of its nested plan
    pc,         \* idle, chirp, kernel, pad, ready, multiply, padInput, convolve
    i, j,       \* loop counters
    lut,        \* the angles out of 2 * N, made by another component: read only
    A,          \* the chirp: angles
    kernel,     \* first half of buf while the plan is made: angles, Zero or Old
    t1          \* first half of buf while it is executed: products, Zero or Old

vars == <<N, M, pc, i, j, A, kernel, t1>>

Zero == -1      \* the number zero
Old == -2       \* what happened to be in the memory

\* ffts_next_power_of_2 of an odd number.  The shift by a negative count is left to
\* the processor, which takes the count modulo 32.
NextPowerOf2(x) == CHOOSE m \in {2^e : e \in 0..16} : m > x /\ m <= 2 * x

Init ==
    /\ N = 0 /\ M = 0
    /\ pc = "idle"
    /\ i = 0 /\ j = 0
    /\ A = <<>> /\ kernel = <<>> /\ t1 = <<>>

\* ffts_chirp_z_init has its memory and the table of angles.
Begin(n) ==
    /\ pc = "idle"
    /\ N' = n /\ M' = NextPowerOf2(2 * n - 1)
    /\ pc' = "chirp"
    /\ i' = 0 /\ j' = 0
    /\ A' = [m \in 0..(n - 1) |-> Old]
    /\ kernel' = [m \in 0..(M' - 1) |-> Old]
    /\ t1' = [m \in 0..(M' - 1) |-> Old]

\* The squares grow by 2 * i.
ChirpStep_even ==
    /\ pc = "chirp"
    /\ i < N
    /\ A' = [A EXCEPT ![i] = lut[j]]
    /\ j' = IF j + 2 * i >= 2 * N THEN j + 2 * i - 2 * N ELSE j + 2 * i
    /\ i' = i + 1
    /\ UNCHANGED <<N, M, pc, kernel, t1>>

\* One entry of the chirp is taken from the table of angles.
ChirpStep ==
    /\ pc = "chirp"
    /\ i < N
    /\ A' = [A EXCEPT ![i] = lut[j]]
    /\ j' = IF j + 2 * i + 1 >= 2 * N THEN j + 2 * i + 1 - 2 * N ELSE j + 2 * i + 1
    /\ i' = i + 1
    /\ UNCHANGED <<N, M, pc, kernel, t1>>

ChirpEnds ==
    /\ pc = "chirp"
    /\ i = N
    /\ kernel' = [kernel EXCEPT ![0] = A[0]]
    /\ i' = 1
    /\ pc' = "kernel"
    /\ UNCHANGED <<N, M, j, A, t1>>

\* The chirp is laid out from both ends.
KernelStep ==
    /\ pc = "kernel"
    /\ i < N
    /\ kernel' = [kernel EXCEPT ![i] = A[i], ![M - i] = A[i]]
    /\ i' = i + 1
    /\ UNCHANGED <<N, M, pc, j, A, t1>>

KernelEnds ==
    /\ pc = "kernel"
    /\ i = N
    /\ pc' = "pad"
    /\ UNCHANGED <<N, M, i, j, A, kernel, t1>>

\* One point short of the far end of the chirp.
PadLast_short == M - N - 1

PadLast == M - N

Pad ==
    /\ pc = "pad"
    /\ i <= PadLast
    /\ kernel' = [kernel EXCEPT ![i] = Zero]
    /\ i' = i + 1
    /\ UNCHANGED <<N, M, pc, j, A, t1>>

\* B becomes the kernel's transform.  What is left in buf is old from now on.
PadEnds ==
    /\ pc = "pad"
    /\ i > PadLast
    /\ pc' = "ready"
    /\ UNCHANGED <<N, M, i, j, A, kernel, t1>>

\* ffts_execute, forward or backward: the two differ in exchanging the real and the
\* imaginary parts of the input and of the output.
Execute ==
    /\ pc = "ready"
    /\ pc' = "multiply"
    /\ i' = 0
    /\ UNCHANGED <<N, M, j, A, kernel, t1>>

\* The input times the conjugated chirp.
Multiply ==
    /\ pc = "multiply"
    /\ i < N
    /\ t1' = [t1 EXCEPT ![i] = A[i]]
    /\ i' = i + 1
    /\ UNCHANGED <<N, M, pc, j, A, kernel>>

MultiplyEnds ==
    /\ pc = "multiply"
    /\ i = N
    /\ pc' = "padInput"
    /\ UNCHANGED <<N, M, i, j, A, kernel, t1>>

\* Zeros up to the length of the chirp.
InputEnd == M

PadInput ==
    /\ pc = "padInput"
    /\ i < InputEnd
    /\ t1' = [t1 EXCEPT ![i] = Zero]
    /\ i' = i + 1
    /\ UNCHANGED <<N, M, pc, j, A, kernel>>

PadInputEnds ==
    /\ pc = "padInput"
    /\ i = InputEnd
    /\ pc' = "convolve"
    /\ UNCHANGED <<N, M, i, j, A, kernel, t1>>

\* Transform, product with B, transform; N products with the chirp go to the output.
\* Both halves of buf are overwritten.
Convolve ==
    /\ pc = "convolve"
    /\ t1' = [m \in 0..(M - 1) |-> Old]
    /\ pc' = "ready"
    /\ UNCHANGED <<N, M, i, j, A, kernel>>

Next ==
    \/ ChirpStep \/ ChirpEnds
    \/ KernelStep \/ KernelEnds
    \/ Pad \/ PadEnds
    \/ Execute
    \/ Multiply \/ MultiplyEnds
    \/ PadInput \/ PadInputEnds
    \/ Convolve

-----------------------------------------------------------------------------
(* Properties.                                                             *)

\* Output k and input n meet in the term exp(-2 pi i k n / N): the kernel's angle at
\* the distance of k and n, less the angles of both, is that of the product 2 * k * n.
\* The kernel wraps around at M, which must be long enough for both of its ends.
Convolves ==
    pc = "convolve" =>
        \A k, n \in 0..(N - 1) :
            /\ t1[n] # Zero
            /\ (kernel[(k - n) % M] - t1[n] - A[k]) % (2 * N) = (-2 * k * n) % (2 * N)

\* Nothing that was in the memory before gets into a transform, of the kernel or of
\* the input: the loops that fill the buffer and pad it with zeros leave no gap.
NoOldValues ==
    /\ pc = "ready" => \A m \in 0..(M - 1) : kernel[m] # Old
    /\ pc = "convolve" => \A m \in 0..(M - 1) : t1[m] = IF m < N THEN A[m] ELSE Zero
==============================================================================
