------------------------------- MODULE SplitTree -------------------------------
(***************************************************************************)
(* The recursion of the split radix transform (codegen.c): a transform of  *)
(* 2^s points is made of two of 2^(s-2) points, two of 2^(s-3) and one     *)
(* more of 2^(s-2), laid one after the other in the output.                *)
(*                                                                         *)
(* Sizes are kept as their logarithms.  The recursive functions of the     *)
(* source pass an offset down, which only shifts what they produce; here   *)
(* they are functions of the size, and the caller shifts.                  *)
(***************************************************************************)
EXTENDS Integers, Sequences

CONSTANTS
    LeafLog,    \* the transforms of 2^LeafLog points and below are leaves
    MaxLog      \* bound of the sizes

ASSUME LeafLogAssumption == LeafLog = 3
ASSUME MaxLogAssumption == MaxLog \in Nat /\ MaxLog >= LeafLog

\* The transforms a transform of 2^s points is made of, in the order they are
\* listed: their sizes and where in its output they lie.
Parts(s) == << [size |-> s - 2, pos |-> 0],
               [size |-> s - 3, pos |-> 2^(s-2)],
               [size |-> s - 3, pos |-> 2^(s-2) + 2^(s-3)],
               [size |-> s - 2, pos |-> 2^(s-1)],
               [size |-> s - 2, pos |-> 3 * 2^(s-2)] >>

\* One of the short parts is not counted.
Counted_short(long, short) == 1 + 3 * long + short

\* A transform counts itself, three parts of a quarter and two of an eighth.
Counted(long, short) == 1 + 3 * long + 2 * short

\* ffts_tree_count: the number of transforms that are no leaves.
TreeCount[s \in 0..MaxLog] ==
    IF s <= LeafLog THEN 0 ELSE Counted(TreeCount[s-2], TreeCount[s-3])

\* The entries of a list, moved by pos points.  An entry holds the size and,
\* as the source does, twice the position.
Moved(list, pos) ==
    [i \in DOMAIN list |-> [size |-> list[i].size, at |-> list[i].at + 2 * pos]]

\* The transform itself is listed before the last two of its parts.
Listed_early(part, whole) ==
    part[1] \o part[2] \o part[3] \o whole \o part[4] \o part[5]

\* Parts before the whole.
Listed(part, whole) ==
    part[1] \o part[2] \o part[3] \o part[4] \o part[5] \o whole

\* ffts_elaborate_tree: the transforms that are no leaves.
Elaborate[s \in 0..MaxLog] ==
    IF s <= LeafLog THEN <<>>
    ELSE Listed([i \in 1..5 |-> Moved(Elaborate[Parts(s)[i].size], Parts(s)[i].pos)],
                <<[size |-> s, at |-> 0]>>)
==============================================================================
