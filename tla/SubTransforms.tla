----------------------------- MODULE SubTransforms -----------------------------
(***************************************************************************)
(* What the second half of an execution must do, whatever the code that    *)
(* does it: combine every sub-transform of the split radix recursion       *)
(* exactly once, and none before the parts it is made of.  The leaves are  *)
(* there from the start.                                                   *)
(***************************************************************************)
EXTENDS SplitTree

VARIABLES
    root,       \* the transform that is executed (logarithm of its size)
    done        \* the sub-transforms combined so far, in their order

vars == <<root, done>>

PartsOf(t) ==
    {[size |-> Parts(t.size)[i].size, pos |-> t.pos + Parts(t.size)[i].pos] : i \in 1..5}

Composite(T) == {t \in T : t.size > LeafLog}

Whole(s) == [size |-> s, pos |-> 0]

\* All composite sub-transforms of the whole, level by level: a part has a quarter of the
\* points at most.
AllOf(s) ==
    LET level[n \in 0..(s \div 2)] ==
            Composite(IF n = 0 THEN {Whole(s)} ELSE UNION {PartsOf(t) : t \in level[n - 1]})
    IN UNION {level[n] : n \in DOMAIN level}

Init ==
    /\ root \in 1..MaxLog
    /\ done = <<>>

Done == {done[i] : i \in DOMAIN done}

Combine(t) ==
    /\ Composite(PartsOf(t)) \subseteq Done
    /\ done' = Append(done, t)
    /\ UNCHANGED root

\* The whole is there, or nothing was begun: another execution, of this plan or
\* of another one.
Again ==
    /\ Done \in {{}, AllOf(root)}
    /\ done' = <<>>
    /\ root' \in 1..MaxLog

Next ==
    \/ \E t \in AllOf(root) \ Done : Combine(t)
    \/ Again

Spec == Init /\ [][Next]_vars
==============================================================================
