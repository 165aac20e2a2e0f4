--------------------------------- MODULE Luts ---------------------------------
(***************************************************************************)
(* ffts_generate_luts (ffts.c): the twiddle factors p->ws of a plan for    *)
(* 2^s points and the offsets p->ws_is at which each level of the split    *)
(* radix recursion finds its own.                                          *)
(*                                                                         *)
(* Everything is picked from one table, tmp, by strides; a twiddle factor  *)
(* is named by its angle out of 2^s, which is what tmp holds.              *)
(* p->ws is counted in complex numbers and written in groups of twiddle    *)
(* factors, as many as the vector unit of the build takes.                 *)
(***************************************************************************)
EXTENDS Integers, Sequences

CONSTANT LeafLog     \* log2(leaf_N)

\* SSE builds, ARM builds with NEON, ARM builds without.
LutBuilds == {"sse", "neon", "vfp"}

VARIABLES
    build,      \* how the library was compiled
    tmp,        \* the table of angles, made by another component: read only
    s,          \* logarithm of the plan's size; 0: no plan yet
    i,          \* level of the loop
    n,          \* points of a sub-transform of that level
    stride,     \* distance in tmp of its twiddle factors
    j,          \* index of the group's first twiddle factor within the level
    w,          \* where the level begins in p->ws
    ws,         \* ws[p]: the group of angles written at p
    wsIs        \* p->ws_is, as far as it is filled

vars == <<build, s, i, n, stride, j, w, ws, wsIs>>

Leaf == 2^LeafLog
nLuts == s - LeafLog

\* The twiddle factors of a group, and the complex numbers it takes in p->ws: SSE
\* spreads the real and the imaginary parts over vectors of their own.
Group == CASE build = "sse" -> 2 [] build = "neon" -> 4 [] build = "vfp" -> 1
GroupSize == IF build = "sse" THEN 2 * Group ELSE Group

\* tmp covers an eighth of the circle.
TmpSize_eighth(size) == 2^(LeafLog + (size - LeafLog - 2)) \div 2

\* m, the length of tmp: a quarter of the circle.
TmpSize(size) == 2^(LeafLog + (size - LeafLog - 2))

\* lut_size, in complex numbers.
Allocated ==
    IF build = "vfp" THEN (Leaf * ((2^nLuts - 2) * 3 + 1)) \div 2
    ELSE Leaf * ((2^nLuts - 2) * 3 + 1)

Init ==
    /\ build = "none"
    /\ s = 0 /\ i = 0 /\ n = 0 /\ stride = 0 /\ j = 0 /\ w = 0
    /\ ws = <<>> /\ wsIs = <<>>

\* A plan of 2^size points has had tmp made.
Begin(size, b) ==
    /\ s = 0
    /\ size >= LeafLog + 2
    /\ DOMAIN tmp = 0..(TmpSize(size) - 1)
    /\ build' = b
    /\ s' = size
    /\ n' = Leaf * 2
    /\ stride' = 2^(size - LeafLog - 1)
    /\ UNCHANGED <<i, j, w, ws, wsIs>>

\* The angles of a group.
Picked(offset, step) ==
    [k \in 1..Group |->
        LET t == (offset + j + k - 1) * step IN IF t \in DOMAIN tmp THEN tmp[t] ELSE -1]

\* The first level has the twiddle factors of a transform of 2 * leaf_N points.
FirstLevel == << Picked(0, stride) >>

\* The third group starts one factor early.
OtherLevels_early ==
    << Picked(0, 2 * stride), Picked(0, stride), Picked(n \div 8 - 1, stride) >>

\* The others have three: for the half that is transformed on the way, and for the
\* first and the second eighth of the points.
OtherLevels ==
    << Picked(0, 2 * stride), Picked(0, stride), Picked(n \div 8, stride) >>

Groups == IF i = 0 THEN FirstLevel ELSE OtherLevels

\* Twiddle factors of the level: n/4 in the first one, n/8 triples in the others.
Width == IF i = 0 THEN n \div 4 ELSE n \div 8

\* Where the groups of this step go.
Target(k) == w + ((j \div Group) * Len(Groups) + k - 1) * GroupSize

Written == {Target(k) : k \in 1..Len(Groups)}

\* One step of the inner loop; the scratch copies w0, w1, w2 are passed over.
Pick ==
    /\ i < nLuts
    /\ j < Width
    /\ ws' = [p \in DOMAIN ws \cup Written |->
                 IF p \in Written
                 THEN Groups[CHOOSE k \in 1..Len(Groups) : p = Target(k)] ELSE ws[p]]
    /\ wsIs' = IF j = 0 THEN Append(wsIs, w) ELSE wsIs
    /\ j' = j + Group
    /\ UNCHANGED <<build, s, i, n, stride, w>>

\* The level takes the room of two groups where it wrote three.
LevelSize_two == (Width \div Group) * (IF i = 0 THEN 1 ELSE 2) * GroupSize

\* What a level adds to w: n/4 or n/8 * 3, twice that where SSE spreads.
LevelSize == (Width \div Group) * Len(Groups) * GroupSize

NextLevel ==
    /\ i < nLuts
    /\ j >= Width
    /\ i' = i + 1
    /\ n' = 2 * n
    /\ stride' = stride \div 2
    /\ w' = w + LevelSize
    /\ j' = 0
    /\ UNCHANGED <<build, s, ws, wsIs>>

Next == Pick \/ NextLevel

-----------------------------------------------------------------------------
(* Properties.                                                             *)

\* p->ws is written within lut_size in every build, and a level begins where the
\* ones before it have ended.
WritesInWs ==
    \A p \in DOMAIN ws :
        /\ p >= 0 /\ p + GroupSize <= Allocated
        /\ i < nLuts /\ j = 0 => p + GroupSize <= w

\* What x_4 reads at the start of p->ws and x_8, which steps through three groups
\* at a time (codegen_sse.h:1580), at ws_is of its level are the twiddle factors of
\* their own sizes: W(n)^k; and W(n)^2k, W(n)^k, W(n)^(k+n/8).
TwiddlesFit ==
    s > 0 /\ i = nLuts =>
        \A level \in 0..(nLuts - 1) :
            LET size == Leaf * 2^(level + 1)
                unit == 2^s \div size
                at(k, part, parts) ==
                    ws[wsIs[level + 1] + ((k \div Group) * parts + part) * GroupSize]
                      [(k % Group) + 1]
            IN IF level = 0
               THEN \A k \in 0..(size \div 4 - 1) : at(k, 0, 1) = k * unit
               ELSE \A k \in 0..(size \div 8 - 1) :
                        /\ at(k, 0, 3) = 2 * k * unit
                        /\ at(k, 1, 3) = k * unit
                        /\ at(k, 2, 3) = (k + size \div 8) * unit
==============================================================================
