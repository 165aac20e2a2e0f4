-------------------------------- MODULE Patterns --------------------------------
(***************************************************************************)
(* The order of the leaves in a transform of 2^s points: how many there    *)
(* are of each kind (ffts.c), and where in the output they write           *)
(* (patterns.h).  An elaborated offset is a pair of an input and an        *)
(* output.                                                                 *)
(***************************************************************************)
EXTENDS Integers, FiniteSets

\* The leaf in the middle is forgotten.
I0_middle(s) == ((2^s \div 8) \div 3) \div 2

\* p->i0 and p->i1, which count leaves of two columns.
I0(s) == ((2^s \div 8) \div 3 + 1) \div 2
I1(s) == ((2^s \div 8) \div 3 + (IF (2^s \div 8) % 3 > 1 THEN 1 ELSE 0)) \div 2

\* ffts_elaborate_offsets_odd8
OddOffsets[s \in 1..12, input \in Int, output \in Nat, stride \in Nat] ==
    IF s <= 4
    THEN {<<2 * input, output>>}
         \cup (IF s = 4 THEN {<<2 * (input + stride), output + 8>>} ELSE {})
    ELSE OddOffsets[s - 1, input, output, 2 * stride]
         \cup OddOffsets[s - 2, input + stride, output + 2^(s - 1), 4 * stride]
         \cup OddOffsets[s - 2, input - stride, output + 3 * 2^(s - 2), 4 * stride]

\* ffts_elaborate_offsets_even8
EvenOffsets(size) ==
    LET offset == 2^(size - 4)
    IN {<<0, 0>>, <<2 * offset, 8>>, <<offset, 16>>, <<-offset, 24>>}
       \cup UNION { LET stride == 2^(size - s)
                    IN OddOffsets[s - 2, stride, 2^(s - 1), 4 * stride]
                       \cup OddOffsets[s - 2, -stride, 3 * 2^(s - 2), 4 * stride]
                  : s \in 6..size }

\* ffts_init_offsets: where leaf k writes.  The elaborated offsets are sorted by input.
Offset(size, k) ==
    LET wrapped == {<<IF o[1] < 0 THEN o[1] + 2^size ELSE o[1], o[2]>> : o \in EvenOffsets(size)}
        Before(o) == {p \in wrapped : p[1] < o[1]}
    IN (CHOOSE o \in wrapped : Cardinality(Before(o)) = k)[2]
==============================================================================
