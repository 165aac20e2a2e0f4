----------------------------- MODULE PlanNdProofs -----------------------------
(***************************************************************************)
(* What TLAPS proves of multi-dimensional plans, for every set of requests *)
(* of which init and destroy functions have the same idea: complex plans   *)
(* of any rank and any lengths, and real plans of rank 2 whose stored      *)
(* lengths stay distinct.                                                  *)
(*                                                                         *)
(* Who owns a nested plan is the subject of the first part.  The second is *)
(* about executions: what each pass and each transposition is given fits   *)
(* in the arrays it works on.  The third follows the data through them: a  *)
(* complex transform turns it by one dimension each time (ComplexOK), a    *)
(* real one lays it across and back (ForwardOK, InverseOK).                *)
(***************************************************************************)
EXTENDS NdExecute, TLAPS, WellFoundedInduction

-----------------------------------------------------------------------------
(* Which requests.                                                         *)

Agreed(r) ==
    \/ r.api = "complex"
    \/ /\ Len(r.dims) = 2
       /\ r.api = "forward" => r.dims[1] # r.dims[2] \div 2 + 1
       /\ r.api = "inverse" => r.dims[1] # r.dims[2]

\* A nested complex plan can only be missing because ffts_init_1d refuses its length.
RequestsAgreed ==
    /\ \A r \in Requests : Agreed(r)
    /\ "complex" \notin NestedMayFail

NoSinglePoint == \A r \in Requests : \A i \in 1..Len(r.dims) : r.dims[i] >= 2

-----------------------------------------------------------------------------
(* The inductive invariant.                                                *)

StateOK ==
    /\ req \in Requests
    /\ phase \in Phases
    /\ at \in 1..LastIndex(phase)
    /\ Ns \in [Slots -> Nat]
    /\ plans \in [Slots -> Slots \cup {NoSlot}]
    /\ live \subseteq Slots

\* Until the array of slots is there, no nested plan is.
AllocOK == phase = "alloc" =>
    /\ "plans" \notin mem /\ live = {}
    /\ \A i \in Slots : plans[i] = NoSlot
    /\ at = 1 => mem = {}
    /\ at > 3 => Ns = Lengths(req)

\* A missing plan of a slot that init has passed.
RefusedSlot(i) == req.api = "complex" /\ ~Accepted("complex", Ns[i])

\* Only a real forward plan narrows the lengths, and those of slots with a plan.
NestOK == phase = "nest" =>
    /\ "plans" \in mem
    /\ req.api # "forward" => Ns = Lengths(req)
    /\ req.api = "forward" => Ns[1] = Lengths(req)[1]
    /\ \A i \in Slots : i >= at => plans[i] = NoSlot /\ Ns[i] = Lengths(req)[i]
    /\ \A i \in Slots : i < at /\ plans[i] = NoSlot => RefusedSlot(i)

HeldOK == phase = "held" =>
    /\ "plans" \in mem
    /\ req.api # "forward" => Ns = Lengths(req)
    /\ \A i \in Slots : plans[i] = NoSlot => RefusedSlot(i)

\* The plan in a slot was made for the first slot of the same length.
SharedOK == phase \in {"nest", "held", "destroy"} =>
    \A i \in Slots : plans[i] # NoSlot =>
        /\ plans[plans[i]] = plans[i]
        /\ Ns[plans[i]] = Ns[i]
        /\ \A j \in Slots : j < plans[i] => Ns[j] # Ns[i]

\* The slots that have a plan of their own.
Makers == {i \in Slots : plans[i] = i}

LiveOK ==
    /\ phase \in {"nest", "held"} => live = Makers
    /\ phase = "destroy" =>
           live = IF "plans" \in mem THEN {i \in Makers : i >= at} ELSE {}

IInv == StateOK /\ NoLeak /\ AllocOK /\ NestOK /\ HeldOK /\ SharedOK /\ LiveOK

-----------------------------------------------------------------------------
(* Numbers and sequences.                                                  *)

\* A set of natural numbers that is not empty has a least element.
LEMMA LeastExists ==
    ASSUME NEW S \in SUBSET Nat, S # {}
    PROVE  /\ MinOf(S) \in S
           /\ \A k \in S : MinOf(S) <= k
<1>1. \E less : /\ \E m \in S : \A k \in S : ~ (<<k, m>> \in less)
                /\ \A k, m \in Nat : k < m => <<k, m>> \in less
  <2>1. \E m \in S : \A k \in S : ~ (<<k, m>> \in OpToRel(<, Nat))
    BY NatLessThanWellFounded, WFMin
  <2>2. \A k, m \in Nat : k < m => <<k, m>> \in OpToRel(<, Nat)
    BY DEF OpToRel
  <2> WITNESS OpToRel(<, Nat)
  <2> QED
    BY <2>1, <2>2, Zenon
<1>2. PICK less : /\ \E m \in S : \A k \in S : ~ (<<k, m>> \in less)
                  /\ \A k, m \in Nat : k < m => <<k, m>> \in less
  BY <1>1
<1>3. PICK m \in S : \A k \in S : ~ (<<k, m>> \in less)
  BY <1>2
<1>4. \A k \in S : m <= k
  <2> TAKE k \in S
  <2>1. k \in Nat /\ m \in Nat
    OBVIOUS
  <2>2. ~ (k < m)
    BY <1>2, <1>3, <2>1, Zenon
  <2> QED
    BY <2>1, <2>2
<1> QED
  BY <1>4 DEF MinOf

\* The products of the first numbers of a sequence, one after the other.
UpTo(s, p, n) == IF n = 0 THEN 1 ELSE p[n - 1] * s[n]

LEMMA ProductsExist ==
    ASSUME NEW s, NEW n \in Nat
    PROVE  \E p : p = [k \in 0..n |-> UpTo(s, p, k)]
<1> DEFINE Good(m) == \E p : p = [k \in 0..m |-> UpTo(s, p, k)]
           S == {m \in Nat : ~Good(m)}
<1>1. SUFFICES ASSUME S # {} PROVE FALSE
  OBVIOUS
<1> DEFINE m == MinOf(S)
<1>2. m \in S /\ \A k \in S : m <= k
  BY <1>1, LeastExists
<1> HIDE DEF m
<1>3. CASE m = 0
  <2> DEFINE g == [k \in 0..0 |-> 1]
  <2>1. g = [k \in 0..0 |-> UpTo(s, g, k)]
    BY DEF UpTo
  <2> QED
    BY <1>2, <1>3, <2>1
<1>4. CASE m # 0
  <2>1. m - 1 \in Nat /\ m - 1 \notin S
    BY <1>2, <1>4
  <2>2. PICK p : p = [k \in 0..(m - 1) |-> UpTo(s, p, k)]
    BY <2>1
  <2> DEFINE g == [k \in 0..m |-> IF k = m THEN UpTo(s, p, m) ELSE p[k]]
  <2>3. \A k \in 0..(m - 1) : g[k] = p[k]
    BY <1>2
  <2>4. ASSUME NEW k \in 0..m PROVE g[k] = UpTo(s, g, k)
    <3>1. g[k] = UpTo(s, p, k)
      <4>1. CASE k = m
        BY <4>1
      <4>2. CASE k # m
        <5>1. k \in 0..(m - 1)
          BY <1>2, <4>2
        <5> QED
          BY <2>2, <2>3, <5>1
      <4> QED
        BY <4>1, <4>2
    <3> HIDE DEF g
    <3>2. UpTo(s, g, k) = UpTo(s, p, k)
      <4>1. k # 0 => k - 1 \in 0..(m - 1)
        BY <1>2
      <4> QED
        BY <2>3, <4>1 DEF UpTo
    <3> QED
      BY <3>1, <3>2
  <2>5. g = [k \in 0..m |-> UpTo(s, g, k)]
    <3>1. g = [k \in 0..m |-> g[k]]
      OBVIOUS
    <3> HIDE DEF g
    <3> QED
      BY <2>4, <3>1
  <2> QED
    BY <1>2, <2>5
<1> QED
  BY <1>3, <1>4

\* The product is reached by multiplying the numbers one after the other.
LEMMA ProductRight ==
    ASSUME NEW s, Len(s) \in Nat
    PROVE  \E p : /\ p[0] = 1
                  /\ \A k \in 1..Len(s) : p[k] = p[k - 1] * s[k]
                  /\ Product(s) = p[Len(s)]
<1> DEFINE p == CHOOSE q : q = [k \in 0..Len(s) |-> UpTo(s, q, k)]
<1>1. Product(s) = p[Len(s)]
  BY DEF Product, UpTo
<1>2. p = [k \in 0..Len(s) |-> UpTo(s, p, k)]
  BY ProductsExist
<1> HIDE DEF p
<1>3. \A k \in 0..Len(s) : p[k] = UpTo(s, p, k)
  BY <1>2
<1>4. p[0] = 1 /\ \A k \in 1..Len(s) : p[k] = p[k - 1] * s[k]
  BY <1>3 DEF UpTo
<1> QED
  BY <1>1, <1>4

\* A product of natural numbers is one.
LEMMA ProductInNat ==
    ASSUME NEW s, Len(s) \in Nat, \A i \in 1..Len(s) : s[i] \in Nat
    PROVE  Product(s) \in Nat
<1>1. PICK p : /\ p[0] = 1
               /\ \A k \in 1..Len(s) : p[k] = p[k - 1] * s[k]
               /\ Product(s) = p[Len(s)]
  BY ProductRight
<1> DEFINE S == {k \in 0..Len(s) : p[k] \notin Nat}
<1>2. SUFFICES ASSUME S # {} PROVE FALSE
  BY <1>1
<1> DEFINE m == MinOf(S)
<1>3. m \in S /\ \A k \in S : m <= k
  <2>1. S \in SUBSET Nat
    OBVIOUS
  <2> HIDE DEF S
  <2> QED
    BY <1>2, <2>1, LeastExists
<1> HIDE DEF m
<1>4. m # 0
  BY <1>1, <1>3
<1>5. m \in 1..Len(s) /\ m - 1 \in 0..Len(s) /\ m - 1 \notin S
  BY <1>3, <1>4
<1>6. p[m - 1] \in Nat /\ s[m] \in Nat /\ p[m] = p[m - 1] * s[m]
  BY <1>1, <1>5
<1> QED
  BY <1>3, <1>6

\* The product of two numbers.
LEMMA ProductOfTwo ==
    ASSUME NEW s, Len(s) = 2, s[1] \in Nat, s[2] \in Nat
    PROVE  Product(s) = s[1] * s[2]
<1>1. PICK p : /\ p[0] = 1
               /\ \A k \in 1..Len(s) : p[k] = p[k - 1] * s[k]
               /\ Product(s) = p[Len(s)]
  <2>1. Len(s) \in Nat
    OBVIOUS
  <2> QED
    BY <2>1, ProductRight, Zenon
<1>2. p[1] = p[0] * s[1] /\ p[2] = p[1] * s[2]
  BY <1>1
<1> QED
  BY <1>1, <1>2

\* The lengths of a request, in the order the plan stores them.
LEMMA RequestRight ==
    ASSUME NEW r \in Requests
    PROVE  /\ Len(r.dims) \in Nat /\ Len(r.dims) >= 1
           /\ r.api \in {"complex", "forward", "inverse"}
           /\ \A i \in 1..Len(r.dims) : r.dims[i] \in Nat
           /\ Lengths(r) \in [1..Len(r.dims) -> Nat]
<1>1. RequestType(r)
  BY RequestsAssumption
<1>2. /\ r.dims \in Seq(Nat \ {0}) /\ Len(r.dims) \in Nat /\ Len(r.dims) >= 1
      /\ r.api \in {"complex", "forward", "inverse"}
  BY <1>1 DEF RequestType
<1>3. \A i \in 1..Len(r.dims) : r.dims[i] \in Nat
  BY <1>2
<1>4. \A i \in 1..Len(r.dims) : Len(r.dims) - i + 1 \in 1..Len(r.dims)
  BY <1>2
<1>5. Lengths(r) \in [1..Len(r.dims) -> Nat]
  BY <1>3, <1>4 DEF Lengths
<1> QED
  BY <1>2, <1>3, <1>5

\* A destroy function frees a plan at the slot it was made for, and at no other.
LEMMA OwnerIsMaker ==
    ASSUME StateOK, SharedOK, phase = "destroy", NEW i \in Slots
    PROVE  Owns(i) <=> plans[i] = i
<1>1. rank \in Nat /\ i \in Nat /\ i # NoSlot
  BY RequestRight DEF StateOK, Slots, rank, NoSlot
<1>2. ASSUME Owns(i) PROVE plans[i] = i
  <2>1. plans[i] \in Slots
    BY <1>2 DEF Owns, StateOK
  <2>2. Ns[plans[i]] = Ns[i] /\ \A j \in Slots : j < plans[i] => Ns[j] # Ns[i]
    BY <1>2 DEF Owns, SharedOK
  <2>3. ~ (plans[i] < i)
    BY <1>2, <2>1, <2>2 DEF Owns
  <2>4. ~ (i < plans[i])
    BY <2>2
  <2> QED
    BY <1>1, <2>1, <2>3, <2>4 DEF Slots
<1>3. ASSUME plans[i] = i PROVE Owns(i)
  BY <1>1, <1>3 DEF SharedOK, Owns
<1> QED
  BY <1>2, <1>3

-----------------------------------------------------------------------------
(* Every action preserves the invariant.                                   *)

LEMMA InitIInv ==
    ASSUME Init
    PROVE  IInv
<1>1. rank \in Nat /\ rank >= 1
  BY RequestRight DEF Init, rank
<1> QED
  BY <1>1 DEF Init, IInv, StateOK, NoLeak, AllocOK, NestOK, HeldOK, SharedOK, LiveOK, Phases,
              LastIndex, NoSlot

LEMMA RequestStep ==
    ASSUME IInv, NEW r \in Requests, Request(r)
    PROVE  IInv'
<1> USE DEF Request
<1>1. StateOK'
  BY DEF IInv, NoLeak, StateOK, Phases, LastIndex, AllocSteps, Slots, rank, NoSlot
<1>2. NoLeak' /\ AllocOK'
  BY DEF IInv, NoLeak, AllocOK, Slots, rank
<1>3. NestOK' /\ HeldOK' /\ SharedOK' /\ LiveOK'
  BY DEF NestOK, HeldOK, SharedOK, LiveOK
<1> QED
  BY <1>1, <1>2, <1>3 DEF IInv

LEMMA AllocateStep ==
    ASSUME IInv, Allocate
    PROVE  IInv'
<1> USE DEF Allocate
<1>1. /\ rank \in Nat /\ rank >= 1 /\ Slots' = Slots /\ rank' = rank
      /\ Lengths(req) \in [Slots -> Nat]
  BY RequestRight DEF IInv, StateOK, rank, Slots
<1>2. /\ at \in 1..5 /\ Len(AllocSteps) = 5
      /\ AllocSteps[at] = "plans" <=> at = 5
      /\ AllocSteps[at] = "Ns" <=> at = 3
  BY DEF IInv, StateOK, AllocSteps, LastIndex
<1>3. StateOK'
  BY <1>1, <1>2 DEF IInv, StateOK, Phases, LastIndex
<1>4. "plans" \in mem' <=> at = 5
  BY <1>2 DEF IInv, AllocOK
<1>5. at > 2 => Ns' = Lengths(req)
  BY <1>2 DEF IInv, AllocOK
<1>6. NoLeak' /\ AllocOK'
  BY <1>1, <1>2, <1>4, <1>5 DEF IInv, NoLeak, AllocOK
<1>7. NestOK' /\ HeldOK'
  BY <1>1, <1>2, <1>4, <1>5 DEF IInv, AllocOK, NestOK, HeldOK, Slots
<1>8. SharedOK' /\ LiveOK'
  BY <1>1 DEF IInv, AllocOK, SharedOK, LiveOK, Makers, Slots, NoSlot
<1> QED
  BY <1>3, <1>6, <1>7, <1>8 DEF IInv

LEMMA AllocateFailsStep ==
    ASSUME IInv, AllocateFails
    PROVE  IInv'
<1> USE DEF AllocateFails
<1>1. rank \in Nat /\ rank >= 1 /\ Slots' = Slots /\ rank' = rank
  BY RequestRight DEF IInv, StateOK, rank, Slots
<1>2. AllocSteps[at] = "self" <=> at = 1
  BY DEF IInv, StateOK, AllocSteps, LastIndex
<1>3. StateOK'
  BY <1>1 DEF IInv, StateOK, Phases, LastIndex
<1>4. NoLeak' /\ AllocOK'
  BY <1>2 DEF IInv, NoLeak, AllocOK
<1>5. NestOK' /\ HeldOK' /\ SharedOK' /\ LiveOK'
  BY <1>1 DEF IInv, AllocOK, NestOK, HeldOK, SharedOK, LiveOK
<1> QED
  BY <1>3, <1>4, <1>5 DEF IInv

\* What an init knows in its loop.  Real plans of rank 2 share nothing.
LEMMA LoopRight ==
    ASSUME IInv, RequestsAgreed, InLoop
    PROVE  /\ rank \in Nat /\ at \in 1..rank /\ at \in Slots
           /\ plans[at] = NoSlot /\ Ns[at] = Lengths(req)[at]
           /\ req.api \in {"complex", "forward", "inverse"}
           /\ req.api # "complex" => rank = 2 /\ Candidates(at) = {}
           /\ req.api = "complex" => Candidates(at) = {j \in Slots : j < at /\ Ns[j] = Ns[at]}
<1>1. /\ rank \in Nat /\ at \in 1..rank /\ at \in Slots
      /\ req.api \in {"complex", "forward", "inverse"}
  BY RequestRight DEF IInv, StateOK, InLoop, Slots, rank
<1>2. plans[at] = NoSlot /\ Ns[at] = Lengths(req)[at]
  BY <1>1 DEF IInv, NestOK, InLoop
<1>3. ASSUME req.api # "complex" PROVE rank = 2 /\ Candidates(at) = {}
  <2>1. rank = 2
    BY <1>3 DEF RequestsAgreed, Agreed, IInv, StateOK, rank
  <2> QED
    BY <1>1, <1>3, <2>1 DEF Candidates, Slots
<1>4. req.api = "complex" => Candidates(at) = {j \in Slots : j < at /\ Ns[j] = Ns[at]}
  BY DEF Candidates
<1> QED
  BY <1>1, <1>2, <1>3, <1>4

\* Where the loop goes on.
LEMMA Advance ==
    ASSUME rank \in Nat, at \in 1..rank, phase = "nest", NextSlot, req' = req
    PROVE  /\ phase' \in {"nest", "held"} /\ at' \in 1..LastIndex(phase)'
           /\ Slots' = Slots /\ rank' = rank
           /\ phase' = "nest" => at' = at + 1
           /\ phase' = "held" => at = rank
  BY DEF NextSlot, LastIndex, Slots, rank

LEMMA ShareStep ==
    ASSUME IInv, RequestsAgreed, Share
    PROVE  IInv'
<1> DEFINE m == MinOf(Candidates(at))
           p == plans[m]
<1>1. /\ InLoop /\ SharedPlan(at) # NoSlot /\ NextSlot
      /\ plans' = [plans EXCEPT ![at] = SharedPlan(at)]
      /\ req' = req /\ mem' = mem /\ Ns' = Ns /\ live' = live
  BY DEF Share
<1>2. /\ rank \in Nat /\ at \in 1..rank /\ at \in Slots /\ phase = "nest"
      /\ plans[at] = NoSlot
  BY <1>1, LoopRight DEF InLoop
<1>3. /\ phase' \in {"nest", "held"} /\ at' \in 1..LastIndex(phase)'
      /\ Slots' = Slots /\ rank' = rank
      /\ phase' = "nest" => at' = at + 1
      /\ phase' = "held" => at = rank
  BY <1>1, <1>2, Advance
<1>4. Candidates(at) # {} /\ SharedPlan(at) = p
  BY <1>1 DEF SharedPlan
<1>5. req.api = "complex" /\ Candidates(at) = {j \in Slots : j < at /\ Ns[j] = Ns[at]}
  BY <1>1, <1>4, LoopRight
<1>6. m \in Slots /\ m < at /\ Ns[m] = Ns[at]
  BY <1>2, <1>4, <1>5, LeastExists DEF Slots
<1>7. p \in Slots /\ p # NoSlot
  BY <1>1, <1>4, <1>6 DEF IInv, StateOK
<1>8. plans[p] = p /\ Ns[p] = Ns[at] /\ \A j \in Slots : j < p => Ns[j] # Ns[at]
  BY <1>2, <1>6, <1>7 DEF IInv, SharedOK
<1>9. p # at
  BY <1>2, <1>7, <1>8
<1>10. plans' \in [Slots -> Slots \cup {NoSlot}]
       /\ plans'[at] = p /\ \A i \in Slots : i # at => plans'[i] = plans[i]
  BY <1>1, <1>2, <1>4, <1>7 DEF IInv, StateOK
<1>11. StateOK'
  BY <1>1, <1>3, <1>10 DEF IInv, StateOK, Phases
<1>12. NoLeak' /\ AllocOK'
  BY <1>3 DEF NoLeak, AllocOK
<1>13. NestOK' /\ HeldOK'
  BY <1>1, <1>2, <1>3, <1>5, <1>7, <1>10 DEF IInv, NestOK, HeldOK, RefusedSlot, Slots
<1>14. SharedOK'
  <2> SUFFICES ASSUME NEW i \in Slots, plans'[i] # NoSlot
               PROVE  /\ plans'[plans'[i]] = plans'[i]
                      /\ Ns[plans'[i]] = Ns[i]
                      /\ \A j \in Slots : j < plans'[i] => Ns[j] # Ns[i]
    BY <1>1, <1>3 DEF SharedOK
  <2>1. CASE i = at
    BY <2>1, <1>7, <1>8, <1>9, <1>10
  <2>2. CASE i # at
    <3>1. /\ plans[plans[i]] = plans[i] /\ Ns[plans[i]] = Ns[i]
          /\ \A j \in Slots : j < plans[i] => Ns[j] # Ns[i]
      BY <1>2, <1>10, <2>2 DEF IInv, SharedOK
    <3>2. plans[i] # at /\ plans[i] \in Slots
      BY <1>2, <1>10, <2>2, <3>1 DEF IInv, StateOK
    <3> QED
      BY <1>10, <2>2, <3>1, <3>2
  <2> QED
    BY <2>1, <2>2
<1>15. LiveOK'
  <2>1. Makers' = Makers
    BY <1>2, <1>3, <1>9, <1>10 DEF Makers, Slots, NoSlot
  <2> QED
    BY <1>1, <1>2, <1>3, <2>1 DEF IInv, LiveOK
<1> QED
  BY <1>11, <1>12, <1>13, <1>14, <1>15 DEF IInv

\* The lengths after a nested init: at most that of its own slot has changed.
LEMMA NarrowRight ==
    ASSUME IInv, RequestsAgreed, InLoop
    PROVE  /\ NarrowNs(at) \in [Slots -> Nat]
           /\ \A i \in Slots : i # at => NarrowNs(at)[i] = Ns[i]
           /\ req.api # "forward" => NarrowNs(at) = Ns
           /\ at = 1 => NarrowNs(at) = Ns
           /\ req.api = "forward" /\ at = 2 => NarrowNs(at)[2] = Ns[2] \div 2 + 1
<1>1. at \in Slots /\ Ns \in [Slots -> Nat]
  BY LoopRight DEF IInv, StateOK
<1>2. req.api = "forward" /\ at = 2 => NestedKind(at) = "complex"
  BY DEF NestedKind
<1>3. req.api = "forward" /\ at = 1 => NestedKind(at) = "real"
  BY DEF NestedKind
<1> QED
  BY <1>1, <1>2, <1>3 DEF NarrowNs

\* The plans made before go on being those of the first slots of their lengths.
LEMMA EarlierPlans ==
    ASSUME IInv, RequestsAgreed, InLoop, NEW i \in Slots, plans[i] # NoSlot
    PROVE  /\ i # at /\ plans[i] # at /\ plans[i] \in Slots
           /\ plans[plans[i]] = plans[i]
           /\ NarrowNs(at)[plans[i]] = NarrowNs(at)[i]
           /\ \A j \in Slots : j < plans[i] => NarrowNs(at)[j] # NarrowNs(at)[i]
<1>1. rank \in Nat /\ at \in Slots /\ plans[at] = NoSlot
  BY LoopRight
<1>2. /\ plans[i] \in Slots /\ plans[plans[i]] = plans[i] /\ Ns[plans[i]] = Ns[i]
      /\ \A j \in Slots : j < plans[i] => Ns[j] # Ns[i]
  BY DEF IInv, StateOK, SharedOK, InLoop
<1>3. i # at /\ plans[i] # at
  BY <1>1, <1>2
<1>4. ~ (plans[i] >= at)
  BY <1>1, <1>2 DEF IInv, NestOK, InLoop
<1>5. \A j \in Slots : j < plans[i] => j # at
  BY <1>1, <1>2, <1>4 DEF Slots
<1>6. \A j \in Slots : j # at => NarrowNs(at)[j] = Ns[j]
  BY NarrowRight
<1> QED
  BY <1>2, <1>3, <1>5, <1>6

\* A plan is made for a length that no slot before has, unless that slot has no plan.
LEMMA FreshLength ==
    ASSUME IInv, RequestsAgreed, Make, NEW j \in Slots, j < at
    PROVE  NarrowNs(at)[j] # NarrowNs(at)[at]
<1>1. InLoop /\ SharedPlan(at) = NoSlot /\ Accepted(NestedKind(at), NestedLength(at))
  BY DEF Make
<1>2. /\ rank \in Nat /\ at \in 1..rank /\ Ns[at] = Lengths(req)[at]
      /\ req.api \in {"complex", "forward", "inverse"}
      /\ req.api # "complex" => rank = 2
  BY <1>1, LoopRight
<1>3. CASE req.api = "complex"
  <2>1. NarrowNs(at) = Ns
    BY <1>1, <1>3, NarrowRight
  <2> SUFFICES ASSUME Ns[j] = Ns[at] PROVE FALSE
    BY <2>1
  <2>2. Candidates(at) = {k \in Slots : k < at /\ Ns[k] = Ns[at]}
    BY <1>1, <1>3, LoopRight
  <2>3. Candidates(at) # {} /\ Candidates(at) \in SUBSET Nat
    BY <2>2 DEF Slots
  <2> DEFINE m == MinOf(Candidates(at))
  <2>4. m \in Slots /\ m < at /\ Ns[m] = Ns[at]
    BY <2>2, <2>3, LeastExists
  <2>5. plans[m] = NoSlot
    BY <1>1, <2>3 DEF SharedPlan
  <2>6. ~ Accepted("complex", Ns[at])
    BY <1>1, <2>4, <2>5 DEF IInv, NestOK, RefusedSlot, InLoop
  <2> QED
    BY <1>1, <1>3, <2>6 DEF NestedKind, NestedLength
<1>4. CASE req.api # "complex"
  <2>1. rank = 2 /\ at = 2 /\ j = 1 /\ Slots = 1..2
    BY <1>2, <1>4 DEF Slots
  <2>2. Lengths(req)[1] = req.dims[1] /\ Lengths(req)[2] = req.dims[2]
    BY <1>4, <2>1 DEF Lengths, rank
  <2>3. /\ req.api = "forward" => req.dims[1] # req.dims[2] \div 2 + 1
        /\ req.api = "inverse" => req.dims[1] # req.dims[2]
    BY <1>4 DEF RequestsAgreed, Agreed, IInv, StateOK
  <2>4. Ns[1] = Lengths(req)[1] /\ Ns[2] = Lengths(req)[2]
    BY <1>1, <1>2, <2>1 DEF IInv, NestOK, InLoop
  <2>5. NarrowNs(at)[1] = Ns[1]
    BY <1>1, <2>1, NarrowRight
  <2>6. CASE req.api = "forward"
    <3>1. NarrowNs(at)[2] = Ns[2] \div 2 + 1
      BY <1>1, <2>1, <2>6, NarrowRight
    <3> QED
      BY <2>1, <2>2, <2>3, <2>4, <2>5, <2>6, <3>1
  <2>7. CASE req.api = "inverse"
    <3>1. NarrowNs(at) = Ns
      BY <1>1, <2>7, NarrowRight
    <3> QED
      BY <2>1, <2>2, <2>3, <2>4, <2>7, <3>1
  <2> QED
    BY <1>2, <1>4, <2>6, <2>7
<1> QED
  BY <1>3, <1>4

LEMMA MakeStep ==
    ASSUME IInv, RequestsAgreed, Make
    PROVE  IInv'
<1>1. /\ InLoop /\ NextSlot /\ phase = "nest"
      /\ plans' = [plans EXCEPT ![at] = at]
      /\ live' = live \cup {at}
      /\ Ns' = NarrowNs(at) /\ req' = req /\ mem' = mem
  BY DEF Make, InLoop
<1>2. /\ rank \in Nat /\ at \in 1..rank /\ at \in Slots /\ at # NoSlot
      /\ plans[at] = NoSlot
      /\ req.api # "complex" => rank = 2
  BY <1>1, LoopRight DEF NoSlot
<1>3. /\ phase' \in {"nest", "held"} /\ at' \in 1..LastIndex(phase)'
      /\ Slots' = Slots /\ rank' = rank
      /\ phase' = "nest" => at' = at + 1
      /\ phase' = "held" => at = rank
  BY <1>1, <1>2, Advance
<1>4. /\ Ns' \in [Slots -> Nat]
      /\ \A i \in Slots : i # at => Ns'[i] = Ns[i]
      /\ req.api # "forward" => Ns' = Ns
      /\ at = 1 => Ns' = Ns
  BY <1>1, NarrowRight
<1>5. /\ plans' \in [Slots -> Slots \cup {NoSlot}]
      /\ plans'[at] = at /\ \A i \in Slots : i # at => plans'[i] = plans[i]
  BY <1>1, <1>2 DEF IInv, StateOK
<1>6. StateOK'
  BY <1>1, <1>2, <1>3, <1>4, <1>5 DEF IInv, StateOK, Phases
<1>7. NoLeak' /\ AllocOK'
  BY <1>3 DEF NoLeak, AllocOK
<1>8. /\ "plans" \in mem'
      /\ req.api # "forward" => Ns' = Lengths(req)
      /\ req.api = "forward" => Ns'[1] = Lengths(req)[1]
      /\ \A i \in Slots : i > at => plans'[i] = NoSlot /\ Ns'[i] = Lengths(req)[i]
  BY <1>1, <1>2, <1>4, <1>5 DEF IInv, NestOK, Slots
<1>9. \A i \in Slots : i <= at /\ plans'[i] = NoSlot => RefusedSlot(i)'
  <2> SUFFICES ASSUME NEW i \in Slots, i <= at, plans'[i] = NoSlot
               PROVE  RefusedSlot(i)'
    OBVIOUS
  <2>1. i # at /\ plans[i] = NoSlot /\ i < at
    BY <1>2, <1>5 DEF Slots
  <2>2. RefusedSlot(i)
    BY <1>1, <2>1 DEF IInv, NestOK
  <2> QED
    BY <1>1, <1>4, <2>2 DEF RefusedSlot, Accepted
<1>10. NestOK' /\ HeldOK'
  BY <1>1, <1>2, <1>3, <1>8, <1>9 DEF NestOK, HeldOK, Slots
<1>11. SharedOK'
  <2> SUFFICES ASSUME NEW i \in Slots, plans'[i] # NoSlot
               PROVE  /\ plans'[plans'[i]] = plans'[i]
                      /\ Ns'[plans'[i]] = Ns'[i]
                      /\ \A j \in Slots : j < plans'[i] => Ns'[j] # Ns'[i]
    BY <1>1, <1>3 DEF SharedOK
  <2>1. CASE i = at
    BY <1>1, <1>5, <2>1, FreshLength
  <2>2. CASE i # at
    BY <1>1, <1>5, <2>2, EarlierPlans
  <2> QED
    BY <2>1, <2>2
<1>12. LiveOK'
  <2>1. Makers' = Makers \cup {at}
    BY <1>2, <1>3, <1>5 DEF Makers
  <2> QED
    BY <1>1, <1>3, <2>1 DEF IInv, LiveOK
<1> QED
  BY <1>6, <1>7, <1>10, <1>11, <1>12 DEF IInv

LEMMA MakeFailsStep ==
    ASSUME IInv, RequestsAgreed, MakeFails
    PROVE  IInv'
<1>1. /\ InLoop /\ phase = "nest" /\ Refused /\ "plans" \in mem
      /\ plans' = plans /\ live' = live /\ req' = req /\ mem' = mem /\ Ns' = NarrowNs(at)
  BY DEF MakeFails, InLoop, IInv, NestOK
<1>2. /\ rank \in Nat /\ at \in 1..rank /\ at \in Slots
      /\ plans[at] = NoSlot /\ rank' = rank /\ Slots' = Slots
  BY <1>1, LoopRight DEF rank, Slots
<1>3. /\ Ns' \in [Slots -> Nat]
      /\ req.api # "forward" => Ns' = Ns
  BY <1>1, NarrowRight
<1>4. \A i \in Slots : plans[i] # NoSlot =>
          /\ plans[plans[i]] = plans[i] /\ Ns'[plans[i]] = Ns'[i]
          /\ \A j \in Slots : j < plans[i] => Ns'[j] # Ns'[i]
  BY <1>1, EarlierPlans
<1>5. SharedOK'
  BY <1>1, <1>2, <1>4 DEF SharedOK
<1>6. CASE req.api = "complex"
  <2>1. NextSlot /\ Ns' = Ns
    BY <1>3, <1>6 DEF MakeFails
  <2>2. /\ phase' \in {"nest", "held"} /\ at' \in 1..LastIndex(phase)'
        /\ phase' = "nest" => at' = at + 1
        /\ phase' = "held" => at = rank
    BY <1>1, <1>2, <2>1, Advance
  <2>3. RefusedSlot(at)
    BY <1>1, <1>6 DEF Refused, RequestsAgreed, RefusedSlot, NestedKind, NestedLength
  <2>4. StateOK' /\ NoLeak' /\ AllocOK'
    BY <1>1, <1>2, <1>3, <2>2 DEF IInv, StateOK, NoLeak, AllocOK, Phases
  <2>5. NestOK' /\ HeldOK'
    BY <1>1, <1>2, <1>6, <2>1, <2>2, <2>3 DEF IInv, NestOK, HeldOK, RefusedSlot, Slots
  <2>6. LiveOK'
    BY <1>1, <1>2, <2>2 DEF IInv, LiveOK, Makers
  <2> QED
    BY <1>5, <2>4, <2>5, <2>6 DEF IInv
<1>7. CASE req.api # "complex"
  <2>1. phase' = "destroy" /\ at' = 1
    BY <1>7 DEF MakeFails
  <2>2. StateOK' /\ NoLeak' /\ AllocOK' /\ NestOK' /\ HeldOK'
    BY <1>1, <1>2, <1>3, <2>1
       DEF IInv, StateOK, NoLeak, AllocOK, NestOK, HeldOK, Phases, LastIndex
  <2>3. LiveOK'
    BY <1>1, <1>2, <2>1 DEF IInv, LiveOK, Makers, Slots
  <2> QED
    BY <1>5, <2>2, <2>3 DEF IInv
<1> QED
  BY <1>6, <1>7

LEMMA FreeStep ==
    ASSUME IInv, Free
    PROVE  IInv'
<1>1. rank \in Nat /\ rank >= 1 /\ Slots' = Slots /\ rank' = rank
  BY RequestRight DEF IInv, StateOK, rank, Slots, Free
<1> QED
  BY <1>1 DEF Free, IInv, StateOK, NoLeak, AllocOK, NestOK, HeldOK, SharedOK, LiveOK, Makers,
              Phases, LastIndex, Slots

LEMMA ReleaseSlotStep ==
    ASSUME IInv, ReleaseSlot
    PROVE  IInv'
<1>1. /\ phase = "destroy" /\ "plans" \in mem /\ at \in Slots /\ at' = at + 1
      /\ live' = IF Owns(at) THEN live \ {plans[at]} ELSE live
      /\ req' = req /\ phase' = phase /\ mem' = mem /\ Ns' = Ns /\ plans' = plans
  BY DEF ReleaseSlot, InDestroyLoop
<1>2. /\ rank \in Nat /\ at \in 1..rank /\ Slots' = Slots /\ rank' = rank
      /\ Makers' = Makers
  BY <1>1, RequestRight DEF IInv, StateOK, rank, Slots, Makers
<1>3. Owns(at) <=> plans[at] = at
  BY <1>1, OwnerIsMaker DEF IInv
<1>4. live = {i \in Makers : i >= at}
  BY <1>1 DEF IInv, LiveOK
<1>5. live' = {i \in Makers : i >= at + 1}
  BY <1>1, <1>2, <1>3, <1>4 DEF Makers, Slots
<1>6. StateOK'
  <2>1. live' \subseteq Slots
    BY <1>5 DEF Makers
  <2>2. at' \in 1..LastIndex(phase)'
    BY <1>1, <1>2 DEF LastIndex
  <2> QED
    BY <1>1, <1>2, <2>1, <2>2 DEF IInv, StateOK
<1>7. NoLeak' /\ AllocOK' /\ NestOK' /\ HeldOK'
  BY <1>1 DEF NoLeak, AllocOK, NestOK, HeldOK
<1>8. SharedOK'
  BY <1>1, <1>2 DEF IInv, SharedOK
<1>9. LiveOK'
  BY <1>1, <1>2, <1>5 DEF LiveOK
<1> QED
  BY <1>6, <1>7, <1>8, <1>9 DEF IInv

LEMMA ReleaseBlocksStep ==
    ASSUME IInv, ReleaseBlocks
    PROVE  IInv'
<1>1. /\ phase = "destroy"
      /\ "plans" \notin mem \/ at > rank
      /\ mem' = {} /\ phase' = "idle" /\ at' = 1
      /\ req' = req /\ Ns' = Ns /\ plans' = plans /\ live' = live
  BY DEF ReleaseBlocks
<1>2. rank \in Nat /\ at \in Nat /\ Slots' = Slots /\ rank' = rank
  BY <1>1, RequestRight DEF IInv, StateOK, LastIndex, rank, Slots
<1>3. live = {}
  <2>1. live = IF "plans" \in mem THEN {i \in Makers : i >= at} ELSE {}
    BY <1>1 DEF IInv, LiveOK
  <2>2. ASSUME at > rank PROVE {i \in Makers : i >= at} = {}
    BY <1>2, <2>2 DEF Makers, Slots
  <2> QED
    BY <1>1, <2>1, <2>2
<1>4. StateOK'
  BY <1>1, <1>2 DEF IInv, StateOK, Phases, LastIndex
<1>5. NoLeak' /\ AllocOK' /\ NestOK' /\ HeldOK' /\ SharedOK' /\ LiveOK'
  BY <1>1, <1>3 DEF NoLeak, AllocOK, NestOK, HeldOK, SharedOK, LiveOK
<1> QED
  BY <1>4, <1>5 DEF IInv

LEMMA StutterStep ==
    ASSUME IInv, UNCHANGED vars
    PROVE  IInv'
<1>1. Slots' = Slots /\ rank' = rank /\ LastIndex(phase)' = LastIndex(phase) /\ Makers' = Makers
  BY DEF vars, Slots, rank, LastIndex, Makers
<1> QED
  BY <1>1 DEF vars, IInv, StateOK, NoLeak, AllocOK, NestOK, HeldOK, SharedOK, LiveOK,
              RefusedSlot

LEMMA NextStep ==
    ASSUME IInv, RequestsAgreed, Next
    PROVE  IInv'
  BY RequestStep, AllocateStep, AllocateFailsStep, ShareStep, MakeStep, MakeFailsStep, FreeStep,
     ReleaseSlotStep, ReleaseBlocksStep DEF Next

-----------------------------------------------------------------------------
(* The theorems, of plans that are made, executed and freed.               *)

\* What a plan consists of is known in every state, between and during executions.
THEOREM Inductive == RequestsAgreed => (NdSpec => []IInv)
<1> SUFFICES ASSUME RequestsAgreed PROVE NdSpec => []IInv
  OBVIOUS
<1>1. NdInit => IInv
  BY InitIInv DEF NdInit
<1>2. IInv /\ [NdNext]_<<vars, execution>> => IInv'
  <2> SUFFICES ASSUME IInv, [NdNext]_<<vars, execution>> PROVE IInv'
    OBVIOUS
  <2>1. Next \/ UNCHANGED vars
    BY DEF NdNext, LifeStep, Execute, ThroughRows, TransposeBack, InverseIn, InverseColumns,
           InverseBack, InverseRows
  <2> QED
    BY <2>1, NextStep, StutterStep
<1> QED
  BY <1>1, <1>2, PTL DEF NdSpec

\* The destroy functions free no nested plan twice (ffts_nd.c:42-63, ffts_real_nd.c:43-61),
\* for complex plans of any rank with lengths repeated in any pattern, complete or cut short.
THEOREM NestedFreedOnce == RequestsAgreed => (NdSpec => []NoDoubleFree)
<1>1. IInv => NoDoubleFree
  <2> SUFFICES ASSUME IInv, InDestroyLoop, Owns(at) PROVE plans[at] \in live
    BY DEF NoDoubleFree
  <2>1. phase = "destroy" /\ "plans" \in mem /\ at \in Slots
    BY DEF InDestroyLoop
  <2>2. plans[at] = at
    BY <2>1, OwnerIsMaker DEF IInv
  <2> QED
    BY <2>1, <2>2 DEF IInv, LiveOK, Makers, Slots
<1> QED
  BY <1>1, Inductive, PTL

\* They free all of them: nothing is left of a plan, nor of an init that failed.
THEOREM NestedAllFreed == RequestsAgreed => (NdSpec => []NoLeak)
<1>1. IInv => NoLeak
  BY DEF IInv
<1> QED
  BY <1>1, Inductive, PTL

\* If no dimension is a single point, a plan that is returned has a nested plan in every
\* slot (ffts_nd.c:164-176).
THEOREM SlotsFilled == RequestsAgreed /\ NoSinglePoint => (NdSpec => []Complete)
<1> SUFFICES ASSUME RequestsAgreed, NoSinglePoint PROVE NdSpec => []Complete
  OBVIOUS
<1>1. IInv => Complete
  <2> SUFFICES ASSUME IInv, phase = "held", NEW i \in Slots PROVE plans[i] \in live
    BY DEF Complete
  <2>1. req \in Requests /\ rank \in Nat /\ plans[i] \in Slots \cup {NoSlot}
    BY RequestRight DEF IInv, StateOK, rank
  <2>2. ASSUME plans[i] = NoSlot PROVE FALSE
    <3>1. req.api = "complex" /\ ~Accepted("complex", Ns[i]) /\ Ns = Lengths(req)
      BY <2>2 DEF IInv, HeldOK, RefusedSlot
    <3>2. rank - i + 1 \in 1..rank /\ Ns[i] = req.dims[rank - i + 1]
      BY <2>1, <3>1 DEF Lengths, Slots, rank
    <3>3. Ns[i] >= 2
      BY <2>1, <3>2 DEF NoSinglePoint, rank
    <3> QED
      BY <3>1, <3>3 DEF Accepted
  <2>3. plans[i] \in Slots /\ plans[plans[i]] = plans[i]
    BY <2>1, <2>2 DEF IInv, SharedOK
  <2> QED
    BY <2>3 DEF IInv, LiveOK, Makers
<1> QED
  BY <1>1, Inductive, PTL
-----------------------------------------------------------------------------
(* The types.  The plans of the next request have other slots, so a nested *)
(* plan that was leaked would not be one of them: it takes NoLeak as well. *)

\* The lengths a plan keeps are never zero from the moment they are stored.
PositiveOK ==
    /\ phase = "alloc" /\ at > 3 => \A i \in Slots : Ns[i] # 0
    /\ phase = "nest" => \A i \in Slots : Ns[i] # 0

Typed == TypeOK /\ PositiveOK

LEMMA RequestPositive ==
    ASSUME NEW r \in Requests
    PROVE  /\ \A i \in 1..Len(r.dims) : r.dims[i] # 0 /\ Lengths(r)[i] # 0
           /\ Product(r.dims) \in Nat
<1>1. RequestType(r)
  BY RequestsAssumption
<1>2. r.dims \in Seq(Nat \ {0}) /\ Len(r.dims) \in Nat
  BY <1>1 DEF RequestType
<1>3. \A i \in 1..Len(r.dims) : r.dims[i] \in Nat \ {0}
  BY <1>2
<1>4. \A i \in 1..Len(r.dims) : Len(r.dims) - i + 1 \in 1..Len(r.dims)
  BY <1>2
<1>5. Product(r.dims) \in Nat
  BY <1>2, <1>3, ProductInNat
<1> QED
  BY <1>3, <1>4, <1>5 DEF Lengths

\* What the loop of an init works with.
LEMMA LoopTyped ==
    ASSUME Typed, InLoop
    PROVE  /\ rank \in Nat /\ at \in 1..rank /\ at \in Slots /\ vol \in Nat
           /\ \A i \in Slots : Ns[i] \in Nat /\ Ns[i] # 0 /\ vol \div Ns[i] \in Nat
           /\ SharedPlan(at) \in Slots \cup {NoSlot}
           /\ NestedKind(at) \in {"complex", "real"} /\ NestedLength(at) \in Nat
           /\ NarrowNs(at) \in [Slots -> Nat] /\ \A i \in Slots : NarrowNs(at)[i] # 0
           /\ NarrowMs(at) \in [Slots -> Nat]
<1>1. rank \in Nat /\ rank >= 1 /\ at \in 1..rank /\ at \in Slots
  BY RequestRight DEF Typed, TypeOK, InLoop, Slots, rank
<1>2. vol \in Nat
  BY RequestPositive DEF Typed, TypeOK, vol
<1>3. \A i \in Slots : Ns[i] \in Nat /\ Ns[i] # 0
  BY DEF Typed, TypeOK, PositiveOK, InLoop
<1>4. ASSUME NEW a \in Nat, NEW b \in Nat, b # 0
      PROVE  a \div b \in Nat
  BY <1>4
<1>5. \A i \in Slots : vol \div Ns[i] \in Nat
  BY <1>2, <1>3, <1>4
<1>6. SharedPlan(at) \in Slots \cup {NoSlot}
  <2>1. Candidates(at) \in SUBSET Slots /\ Slots \in SUBSET Nat
    BY <1>1 DEF Candidates, Slots
  <2>2. Candidates(at) # {} => MinOf(Candidates(at)) \in Slots
    BY <2>1, LeastExists
  <2> QED
    BY <2>2 DEF SharedPlan, Typed, TypeOK
<1>7. NestedKind(at) \in {"complex", "real"} /\ NestedLength(at) \in Nat
  BY <1>1, <1>3, <1>5 DEF NestedKind, NestedLength
<1>8. NarrowNs(at) \in [Slots -> Nat] /\ \A i \in Slots : NarrowNs(at)[i] # 0
  <2>1. Ns[at] \div 2 + 1 \in Nat /\ Ns[at] \div 2 + 1 # 0
    BY <1>1, <1>3
  <2>2. Ns \in [Slots -> Nat]
    BY DEF Typed, TypeOK
  <2> QED
    BY <1>1, <1>3, <2>1, <2>2 DEF NarrowNs
<1>9. NarrowMs(at) \in [Slots -> Nat]
  <2>1. (vol \div Ns[at]) \div 2 + 1 \in Nat /\ vol \div Ns[at] \in Nat
    BY <1>1, <1>5
  <2>2. Ms \in [Slots -> Nat]
    BY DEF Typed, TypeOK
  <2> QED
    BY <2>1, <2>2 DEF NarrowMs
<1> QED
  BY <1>1, <1>2, <1>3, <1>5, <1>6, <1>7, <1>8, <1>9

\* The steps of the loop: one slot on, or into the destroy function.
LEMMA LoopStepTyped ==
    ASSUME Typed, InLoop, Share \/ Make \/ MakeFails
    PROVE  Typed'
<1>1. /\ rank \in Nat /\ at \in 1..rank /\ at \in Slots /\ phase = "nest"
      /\ vol \div Ns[at] \in Nat
      /\ SharedPlan(at) \in Slots \cup {NoSlot}
      /\ <<NestedKind(at), NestedLength(at)>> \in {"complex", "real"} \X Nat
      /\ NarrowNs(at) \in [Slots -> Nat] /\ \A i \in Slots : NarrowNs(at)[i] # 0
      /\ NarrowMs(at) \in [Slots -> Nat]
  BY LoopTyped DEF InLoop
<1>2. /\ req \in Requests /\ mem \subseteq {"self", "Ms", "Ns", "buf", "plans"}
      /\ Ns \in [Slots -> Nat] /\ Ms \in [Slots -> Nat]
      /\ plans \in [Slots -> Slots \cup {NoSlot}]
      /\ made \in [Slots -> ({"complex", "real"} \X Nat) \cup {<<>>}]
      /\ live \subseteq Slots
      /\ \A i \in Slots : Ns[i] # 0
  BY <1>1 DEF Typed, TypeOK, PositiveOK
<1>3. req' = req /\ mem' = mem
  BY DEF Share, Make, MakeFails
<1>4. Slots' = Slots /\ rank' = rank
  BY <1>3 DEF Slots, rank
<1>5. phase' \in {"nest", "held", "destroy"} /\ at' \in 1..LastIndex(phase)'
  <2>1. CASE NextSlot
    BY <1>1, <1>3, <2>1, Advance
  <2>2. CASE phase' = "destroy" /\ at' = 1
    BY <1>1, <1>4, <2>2 DEF LastIndex
  <2> QED
    BY <2>1, <2>2 DEF Share, Make, MakeFails
<1>6. /\ Ns' \in [Slots -> Nat] /\ \A i \in Slots : Ns'[i] # 0
      /\ Ms' \in [Slots -> Nat]
      /\ plans' \in [Slots -> Slots \cup {NoSlot}]
      /\ made' \in [Slots -> ({"complex", "real"} \X Nat) \cup {<<>>}]
      /\ live' \subseteq Slots
  <2>1. CASE Share
    BY <1>1, <1>2, <2>1 DEF Share
  <2>2. CASE Make
    BY <1>1, <1>2, <2>2 DEF Make
  <2>3. CASE MakeFails
    BY <1>1, <1>2, <2>3 DEF MakeFails
  <2> QED
    BY <2>1, <2>2, <2>3
<1> QED
  BY <1>2, <1>3, <1>4, <1>5, <1>6 DEF Typed, TypeOK, PositiveOK, Phases

LEMMA InitTyped ==
    ASSUME Init
    PROVE  Typed
<1>1. rank \in Nat /\ rank >= 1
  BY RequestRight DEF Init, rank
<1> QED
  BY <1>1 DEF Init, Typed, TypeOK, PositiveOK, Phases, LastIndex, NoSlot

LEMMA StepTyped ==
    ASSUME Typed, NoLeak, [Next]_vars
    PROVE  Typed'
<1>1. /\ rank \in Nat /\ rank >= 1
      /\ Lengths(req) \in [Slots -> Nat] /\ \A i \in Slots : Lengths(req)[i] # 0
  BY RequestRight, RequestPositive DEF Typed, TypeOK, Slots, rank
<1>2. req' = req => Slots' = Slots /\ rank' = rank
  BY DEF Slots, rank
<1>3. ASSUME NEW r \in Requests, Request(r) PROVE Typed'
  <2>1. Len(r.dims) \in Nat /\ Len(r.dims) >= 1
    BY RequestRight
  <2>2. /\ phase' = "alloc" /\ at' = 1 /\ req' = r /\ mem' = mem /\ live' = live
        /\ live = {}
    BY <1>3 DEF Request, NoLeak
  <2>3. /\ Ns' \in [Slots' -> Nat] /\ Ms' \in [Slots' -> Nat]
        /\ plans' \in [Slots' -> Slots' \cup {NoSlot}]
        /\ made' \in [Slots' -> ({"complex", "real"} \X Nat) \cup {<<>>}]
    BY <1>3, <2>1 DEF Request, Slots, rank, NoSlot
  <2>4. at' \in 1..LastIndex(phase)' /\ phase' \in Phases
    BY <2>2 DEF LastIndex, AllocSteps, Phases
  <2> QED
    BY <1>3, <2>2, <2>3, <2>4 DEF Typed, TypeOK, PositiveOK
<1>4. CASE Allocate
  <2>1. /\ phase = "alloc" /\ at \in 1..5 /\ Len(AllocSteps) = 5 /\ req' = req
        /\ AllocSteps[at] \in {"self", "Ms", "Ns", "buf", "plans"}
        /\ AllocSteps[at] = "Ns" <=> at = 3
    BY <1>4 DEF Allocate, Typed, TypeOK, AllocSteps, LastIndex
  <2>2. Ns' \in [Slots -> Nat] /\ (at > 2 => \A i \in Slots : Ns'[i] # 0)
    BY <1>1, <1>4, <2>1 DEF Allocate, Typed, TypeOK, PositiveOK
  <2>3. IF at = 5 THEN phase' = "nest" /\ at' = 1 ELSE phase' = "alloc" /\ at' = at + 1
    BY <1>4, <2>1 DEF Allocate
  <2>4. phase' \in Phases /\ at' \in 1..LastIndex(phase)'
    BY <1>1, <1>2, <2>1, <2>3 DEF Phases, LastIndex
  <2>5. PositiveOK'
    BY <1>2, <2>1, <2>2, <2>3 DEF PositiveOK
  <2> QED
    BY <1>2, <1>4, <2>1, <2>2, <2>4, <2>5 DEF Allocate, Typed, TypeOK
<1>5. CASE AllocateFails \/ Free
  <2>1. /\ phase' \in {"idle", "destroy"} /\ at' = 1
        /\ req' = req /\ mem' = mem /\ Ns' = Ns /\ Ms' = Ms
        /\ plans' = plans /\ made' = made /\ live' = live
    BY <1>5 DEF AllocateFails, Free
  <2>2. at' \in 1..LastIndex(phase)'
    BY <1>1, <1>2, <2>1 DEF LastIndex
  <2> QED
    BY <1>2, <2>1, <2>2 DEF Typed, TypeOK, PositiveOK, Phases
<1>6. CASE Share \/ Make \/ MakeFails
  BY <1>6, LoopStepTyped DEF Share, Make, MakeFails
<1>7. CASE ReleaseSlot
  <2>1. /\ phase = "destroy" /\ phase' = phase /\ at \in 1..rank /\ at' = at + 1
        /\ req' = req /\ live' \subseteq live
    BY <1>7 DEF ReleaseSlot, InDestroyLoop, Slots
  <2>2. at' \in 1..LastIndex(phase)'
    BY <1>1, <1>2, <2>1 DEF LastIndex
  <2> QED
    BY <1>2, <1>7, <2>1, <2>2 DEF ReleaseSlot, Typed, TypeOK, PositiveOK
<1>8. CASE ReleaseBlocks
  BY <1>2, <1>8 DEF ReleaseBlocks, Typed, TypeOK, PositiveOK, Phases, LastIndex
<1>9. CASE UNCHANGED vars
  BY <1>2, <1>9 DEF vars, Typed, TypeOK, PositiveOK, LastIndex
<1> QED
  BY <1>3, <1>4, <1>5, <1>6, <1>7, <1>8, <1>9 DEF Next

\* An execution leaves the plan as it is.
LEMMA LifeOrNothing ==
    ASSUME [NdNext]_<<vars, execution>>
    PROVE  [Next]_vars
  BY DEF NdNext, LifeStep, Execute, ThroughRows, TransposeBack, InverseIn, InverseColumns,
         InverseBack, InverseRows

\* The plan, its nested plans and what they were made for keep their types, in any
\* sequence of requests of any ranks: no length is zero when the volume is divided by it
\* (ffts_nd.c:161, ffts_real_nd.c:197, 213).
THEOREM AlwaysTyped == RequestsAgreed => (NdSpec => []TypeOK)
<1> SUFFICES ASSUME RequestsAgreed PROVE NdSpec => []TypeOK
  OBVIOUS
<1>1. NdInit => Typed
  BY InitTyped DEF NdInit
<1>2. Typed /\ NoLeak /\ [NdNext]_<<vars, execution>> => Typed'
  BY LifeOrNothing, StepTyped
<1>3. Typed => TypeOK
  BY DEF Typed
<1> QED
  BY <1>1, <1>2, <1>3, NestedAllFreed, PTL DEF NdSpec

-----------------------------------------------------------------------------
(* The lengths of the slots, and where an execution goes with them.        *)

\* The lengths of slot i fit the nested plan it has, and a real plan is long enough for
\* a half of its points.
Fitted(i) ==
    LET n == Lengths(req)[i]
    IN /\ req.api = "complex" =>
              /\ made[plans[i]] = <<"complex", n>>
              /\ Accepted("complex", n)
              /\ Ns[i] = n /\ Ms[i] = vol \div n
       /\ req.api = "forward" =>
              /\ plans[i] = i
              /\ made[i] = <<NestedKind(i), vol \div n>>
              /\ Accepted(NestedKind(i), vol \div n)
              /\ Ns[i] = (IF i = 1 THEN n ELSE n \div 2 + 1)
              /\ Ms[i] = vol \div n
       /\ req.api = "inverse" =>
              /\ plans[i] = i
              /\ made[i] = <<NestedKind(i), n>>
              /\ Accepted(NestedKind(i), n)
              /\ Ns[i] = n
              /\ Ms[i] = (IF i = 1 THEN (vol \div n) \div 2 + 1 ELSE vol \div n)

FittedOK == phase \in {"nest", "held"} =>
    \A i \in Slots : plans[i] # NoSlot => Fitted(i)

\* Where an execution can be, and that the plan is complete meanwhile.
ExecutingOK == Executing =>
    /\ phase = "held"
    /\ \A i \in Slots : plans[i] # NoSlot
    /\ req.api # "inverse" => pass \in Slots
    /\ req.api = "inverse" =>
           \/ doing = "transpose" /\ pass \in {0, 1}
           \/ doing = "rows" /\ pass \in {1, 2}

Fits == IInv /\ Typed /\ FittedOK /\ ExecutingOK

LEMMA FittedStays ==
    ASSUME NEW i \in Slots, Fitted(i), req' = req, plans'[i] = plans[i],
           made'[plans[i]] = made[plans[i]], made'[i] = made[i], Ns'[i] = Ns[i], Ms'[i] = Ms[i]
    PROVE  Fitted(i)'
  BY DEF Fitted, vol, NestedKind, rank

LEMMA ShareFitted ==
    ASSUME IInv, Typed, FittedOK, RequestsAgreed, Share
    PROVE  FittedOK'
<1> DEFINE m == MinOf(Candidates(at))
           p == plans[m]
<1>1. /\ InLoop /\ phase = "nest" /\ SharedPlan(at) # NoSlot
      /\ plans' = [plans EXCEPT ![at] = SharedPlan(at)]
      /\ Ms' = [Ms EXCEPT ![at] = vol \div Ns[at]]
      /\ req' = req /\ Ns' = Ns /\ made' = made /\ Slots' = Slots
  BY DEF Share, InLoop, Slots, rank
<1>2. /\ rank \in Nat /\ at \in 1..rank /\ at \in Slots /\ plans[at] = NoSlot
      /\ Ns[at] = Lengths(req)[at]
  BY <1>1, LoopRight
<1>3. Candidates(at) # {} /\ SharedPlan(at) = p
  BY <1>1 DEF SharedPlan
<1>4. req.api = "complex" /\ Candidates(at) = {j \in Slots : j < at /\ Ns[j] = Ns[at]}
  BY <1>1, <1>3, LoopRight
<1>5. m \in Slots /\ Ns[m] = Ns[at]
  BY <1>2, <1>3, <1>4, LeastExists DEF Slots
<1>6. /\ plans \in [Slots -> Slots \cup {NoSlot}] /\ Ms \in [Slots -> Nat]
      /\ p \in Slots /\ p # NoSlot
  BY <1>1, <1>3, <1>5 DEF Typed, TypeOK
<1>7. Fitted(m)
  BY <1>1, <1>5, <1>6 DEF FittedOK
<1>8. made[p] = <<"complex", Ns[at]>> /\ Accepted("complex", Ns[at])
  BY <1>4, <1>5, <1>7 DEF Fitted
<1> HIDE DEF m, p
<1>9. plans'[at] = p /\ Ms'[at] = vol \div Ns[at] /\ vol' = vol
  BY <1>1, <1>2, <1>3, <1>6 DEF vol
<1>10. ASSUME NEW i \in Slots, i = at PROVE Fitted(i)'
  <2>1. /\ plans'[i] = p /\ made'[p] = <<"complex", Lengths(req)[i]>>
        /\ Accepted("complex", Lengths(req)[i])
        /\ Ns'[i] = Lengths(req)[i] /\ Ms'[i] = vol' \div Lengths(req)[i]
    BY <1>1, <1>2, <1>8, <1>9, <1>10
  <2> QED
    BY <1>1, <1>4, <2>1 DEF Fitted
<1>11. ASSUME NEW i \in Slots, i # at, plans'[i] # NoSlot PROVE Fitted(i)'
  <2>1. plans'[i] = plans[i] /\ Ms'[i] = Ms[i]
    BY <1>1, <1>2, <1>6, <1>11
  <2>2. Fitted(i)
    BY <1>1, <1>11, <2>1 DEF FittedOK
  <2> QED
    BY <1>1, <2>1, <2>2, FittedStays
<1> QED
  BY <1>1, <1>10, <1>11 DEF FittedOK

LEMMA MakeFitted ==
    ASSUME IInv, Typed, FittedOK, RequestsAgreed, Make
    PROVE  FittedOK'
<1>1. /\ InLoop /\ phase = "nest"
      /\ Accepted(NestedKind(at), NestedLength(at))
      /\ plans' = [plans EXCEPT ![at] = at]
      /\ made' = [made EXCEPT ![at] = <<NestedKind(at), NestedLength(at)>>]
      /\ Ns' = NarrowNs(at) /\ Ms' = NarrowMs(at)
      /\ req' = req /\ Slots' = Slots /\ vol' = vol
  BY DEF Make, InLoop, Slots, rank, vol
<1>2. /\ rank \in Nat /\ at \in 1..rank /\ at \in Slots /\ plans[at] = NoSlot
      /\ Ns[at] = Lengths(req)[at]
      /\ req.api \in {"complex", "forward", "inverse"}
      /\ req.api # "complex" => rank = 2
  BY <1>1, LoopRight
<1>3. /\ plans \in [Slots -> Slots \cup {NoSlot}] /\ Ms \in [Slots -> Nat]
      /\ Ns \in [Slots -> Nat] /\ DOMAIN made = Slots
  BY DEF Typed, TypeOK
<1>4. plans'[at] = at /\ made'[at] = <<NestedKind(at), NestedLength(at)>>
  BY <1>1, <1>2, <1>3
<1>5. Lengths(req)' = Lengths(req) /\ rank' = rank
  BY <1>1 DEF rank
<1>6. ASSUME NEW i \in Slots, i = at PROVE Fitted(i)'
  <2> DEFINE n == Lengths(req)[i]
  <2>1. /\ plans'[i] = i /\ made'[i] = <<NestedKind(i), NestedLength(i)>>
        /\ Accepted(NestedKind(i), NestedLength(i))
        /\ Ns[i] = n /\ Ns' = NarrowNs(i) /\ Ms' = NarrowMs(i)
        /\ NestedKind(i)' = NestedKind(i) /\ vol' = vol
    BY <1>1, <1>2, <1>4, <1>5, <1>6 DEF NestedKind
  <2> HIDE DEF n
  <2>2. /\ req.api = "complex" => NestedKind(i) = "complex" /\ NestedLength(i) = n
        /\ req.api = "forward" => NestedLength(i) = vol \div n
        /\ req.api = "inverse" => NestedLength(i) = n
        /\ req.api # "complex" => i \in {1, 2}
        /\ req.api = "forward" => NestedKind(i) = IF i = 1 THEN "real" ELSE "complex"
        /\ req.api = "inverse" => NestedKind(i) = IF i = 2 THEN "real" ELSE "complex"
    BY <1>2, <1>6, <2>1 DEF NestedKind, NestedLength, Slots
  <2>3. /\ req.api # "forward" => Ns'[i] = n
        /\ req.api = "forward" => Ns'[i] = IF i = 1 THEN n ELSE n \div 2 + 1
        /\ req.api # "inverse" => Ms'[i] = vol \div n
        /\ req.api = "inverse" =>
               Ms'[i] = IF i = 1 THEN (vol \div n) \div 2 + 1 ELSE vol \div n
    BY <1>2, <1>3, <2>1, <2>2 DEF NarrowNs, NarrowMs
  <2> QED
    BY <1>1, <2>1, <2>2, <2>3 DEF Fitted, n
<1>7. ASSUME NEW i \in Slots, i # at, plans'[i] # NoSlot PROVE Fitted(i)'
  <2>1. plans'[i] = plans[i] /\ made'[i] = made[i]
    BY <1>1, <1>2, <1>3, <1>7
  <2>2. Ns'[i] = Ns[i] /\ Ms'[i] = Ms[i]
    BY <1>1, <1>2, <1>3, <1>7 DEF NarrowNs, NarrowMs
  <2>3. plans[i] # at /\ plans[i] \in Slots
    BY <1>1, <2>1, <1>7, EarlierPlans
  <2>4. made'[plans[i]] = made[plans[i]]
    BY <1>1, <1>2, <1>3, <2>3
  <2>5. Fitted(i)
    BY <1>1, <1>7, <2>1 DEF FittedOK
  <2> QED
    BY <1>1, <2>1, <2>2, <2>4, <2>5, FittedStays
<1> QED
  BY <1>1, <1>6, <1>7 DEF FittedOK

LEMMA MakeFailsFitted ==
    ASSUME IInv, Typed, FittedOK, RequestsAgreed, MakeFails
    PROVE  FittedOK'
<1>1. /\ InLoop /\ phase = "nest"
      /\ Ns' = NarrowNs(at) /\ Ms' = NarrowMs(at)
      /\ req' = req /\ plans' = plans /\ made' = made /\ Slots' = Slots
  BY DEF MakeFails, InLoop, Slots, rank
<1>2. at \in Slots /\ plans[at] = NoSlot
  BY <1>1, LoopRight
<1>3. Ms \in [Slots -> Nat] /\ Ns \in [Slots -> Nat]
  BY DEF Typed, TypeOK
<1>4. ASSUME NEW i \in Slots, plans[i] # NoSlot PROVE Fitted(i)'
  <2>1. i # at
    BY <1>2, <1>4
  <2>2. Ns'[i] = Ns[i] /\ Ms'[i] = Ms[i]
    BY <1>1, <1>2, <1>3, <2>1 DEF NarrowNs, NarrowMs
  <2>3. Fitted(i)
    BY <1>1, <1>4 DEF FittedOK
  <2> QED
    BY <1>1, <2>2, <2>3, FittedStays
<1> QED
  BY <1>1, <1>4 DEF FittedOK

LEMMA FittedStep ==
    ASSUME IInv, Typed, FittedOK, RequestsAgreed, [Next]_vars
    PROVE  FittedOK'
<1>1. CASE Allocate
  <2>1. /\ phase = "alloc" /\ req' = req /\ plans' = plans /\ Slots' = Slots
    BY <1>1 DEF Allocate, Slots, rank
  <2>2. \A i \in Slots : plans[i] = NoSlot
    BY <2>1 DEF IInv, AllocOK
  <2> QED
    BY <2>1, <2>2 DEF FittedOK
<1>2. CASE Share
  BY <1>2, ShareFitted
<1>3. CASE Make
  BY <1>3, MakeFitted
<1>4. CASE MakeFails
  BY <1>4, MakeFailsFitted
<1>5. CASE \/ \E r \in Requests : Request(r)
           \/ AllocateFails \/ Free \/ ReleaseSlot \/ ReleaseBlocks
  <2>1. phase' \notin {"nest", "held"}
    BY <1>5 DEF Request, AllocateFails, Free, ReleaseSlot, InDestroyLoop, ReleaseBlocks
  <2> QED
    BY <2>1 DEF FittedOK
<1>6. CASE UNCHANGED vars
  <2>1. \A i \in Slots : Fitted(i) => Fitted(i)'
    BY <1>6, FittedStays DEF vars
  <2> QED
    BY <1>6, <2>1 DEF vars, FittedOK, Slots, rank
<1> QED
  BY <1>1, <1>2, <1>3, <1>4, <1>5, <1>6 DEF Next

LEMMA ExecutingStep ==
    ASSUME IInv, ExecutingOK, RequestsAgreed, [NdNext]_<<vars, execution>>
    PROVE  ExecutingOK'
<1>1. rank \in Nat /\ rank >= 1 /\ live \subseteq Slots
      /\ req.api \in {"complex", "forward", "inverse"} /\ (req.api # "complex" => rank = 2)
  BY RequestRight DEF IInv, StateOK, rank, RequestsAgreed, Agreed
<1>2. CASE LifeStep
  BY <1>2 DEF LifeStep, Goto, ExecutingOK, Executing
<1>3. CASE Execute
  <2>1. \A i \in Slots : plans[i] # NoSlot
    BY <1>1, <1>3 DEF Execute, Complete, Slots, NoSlot
  <2>2. 1 \in Slots
    BY <1>1 DEF Slots
  <2> QED
    BY <1>3, <2>1, <2>2 DEF Execute, Goto, ExecutingOK, vars, Slots, rank
<1>4. CASE ThroughRows \/ InverseIn \/ InverseColumns \/ InverseBack \/ InverseRows
  BY <1>4 DEF ThroughRows, InverseIn, InverseColumns, InverseBack, InverseRows, Goto,
              ExecutingOK, Executing, vars, Slots, rank
<1>5. CASE TransposeBack
  <2>1. /\ req.api # "inverse" /\ Executing /\ vars' = vars
        /\ IF pass = rank THEN doing' = "done" ELSE pass' = pass + 1
    BY <1>5 DEF TransposeBack, Goto, Executing
  <2>2. pass \in 1..rank
    BY <2>1 DEF ExecutingOK, Slots
  <2>3. doing' = "done" \/ pass' \in Slots
    BY <1>1, <2>1, <2>2 DEF Slots
  <2> QED
    BY <2>1, <2>3 DEF ExecutingOK, Executing, vars, Slots, rank
<1>6. CASE UNCHANGED <<vars, execution>>
  BY <1>6 DEF ExecutingOK, Executing, vars, execution, Slots, rank
<1> QED
  BY <1>2, <1>3, <1>4, <1>5, <1>6 DEF NdNext

LEMMA Division ==
    ASSUME NEW m \in Nat, m > 0, NEW x \in Int
    PROVE  x = m * (x \div m) + (x % m)
  BY Z3

\* Rows that lie one behind the other end where the data ends.
LEMMA RowsEnd ==
    ASSUME NEW a \in Nat, NEW b \in Nat, b # 0
    PROVE  (a \div b) * b <= a /\ a \div b \in Nat
<1>1. a \div b \in Nat /\ a = b * (a \div b) + (a % b) /\ a % b \in Nat
  <2>1. a \div b \in Nat
    OBVIOUS
  <2>2. a % b \in Nat
    OBVIOUS
  <2>3. a = b * (a \div b) + (a % b)
    BY Division
  <2> QED
    BY <2>1, <2>2, <2>3
<1> DEFINE q == a \div b
           m == a % b
<1>2. q \in Nat /\ m \in Nat /\ a = b * q + m
  BY <1>1
<1> HIDE DEF q, m
<1>3. q * b = b * q /\ b * q \in Nat
  BY <1>2
<1> QED
  BY <1>2, <1>3 DEF q

LEMMA LastRow ==
    ASSUME NEW c \in Nat, NEW n \in Nat
    PROVE  (c - 1) * n + n = c * n /\ c * n = n * c /\ c * n \in Nat
<1>1. (c - 1) * n = c * n - n
  BY Z3
<1>2. c * n \in Nat /\ c * n = n * c
  OBVIOUS
<1> QED
  BY <1>1, <1>2

LEMMA DivideBack ==
    ASSUME NEW a \in Nat, NEW b \in Nat, a # 0, b # 0
    PROVE  /\ (a * b) \div a = b /\ (a * b) \div b = a
  BY Z3

LEMMA MoreRows ==
    ASSUME NEW a \in Nat, NEW b \in Nat, NEW c \in Nat, b <= c
    PROVE  a * b <= a * c
<1>1. PICK d \in Nat : c = b + d
  <2>1. c - b \in Nat /\ c = b + (c - b)
    OBVIOUS
  <2> QED
    BY <2>1
<1>2. a * c = a * b + a * d /\ a * d \in Nat /\ a * b \in Nat
  BY <1>1
<1> QED
  BY <1>2

\* Complex transforms move the whole data at most.
LEMMA ComplexStays ==
    ASSUME Fits, Executing, req.api = "complex"
    PROVE  StaysInArrays
<1>1. /\ pass \in Slots /\ plans[pass] # NoSlot /\ phase = "held" /\ vol \in Nat
      /\ req \in Requests
  BY RequestPositive DEF Fits, ExecutingOK, Typed, TypeOK, vol
<1> DEFINE n == Lengths(req)[pass]
           c == vol \div n
<1>2. n \in Nat /\ n # 0
  BY <1>1, RequestRight, RequestPositive DEF Slots, rank
<1>3. made[plans[pass]] = <<"complex", n>> /\ Ns[pass] = n /\ Ms[pass] = c
  BY <1>1 DEF Fits, FittedOK, Fitted
<1>4. c \in Nat /\ c * n <= vol
  BY <1>1, <1>2, RowsEnd
<1> HIDE DEF n, c
<1>5. InLength = n /\ OutLength = n
  BY <1>3 DEF InLength, OutLength, Nested
<1>6. BufCells = vol /\ InCells = vol /\ OutCells = vol
  BY <1>1 DEF BufCells, InCells, OutCells, InDims, OutDims, vol
<1>7. Rows(pass) = [count |-> c, in |-> n, out |-> n]
  BY <1>3 DEF Rows
<1>8. (c - 1) * n + n = c * n
  BY <1>2, <1>4, LastRow
<1>9. pass # 0
  BY <1>1, RequestRight DEF Slots, rank
<1>10. Room = [from |-> vol, to |-> vol]
  BY <1>6 DEF Room
<1> QED
  BY <1>4, <1>5, <1>7, <1>8, <1>9, <1>10 DEF StaysInArrays

\* The two lengths of a real plan, and the arrays it works on.
LEMMA RealArrays ==
    ASSUME Fits, RequestsAgreed, req.api \in {"forward", "inverse"}
    PROVE  /\ req \in Requests /\ rank = 2 /\ Slots = {1, 2}
           /\ req.dims[1] \in Nat \ {0} /\ req.dims[2] \in Nat \ {0}
           /\ Lengths(req)[1] = req.dims[1] /\ Lengths(req)[2] = req.dims[2]
           /\ vol = req.dims[1] * req.dims[2]
           /\ Product(Halved(req.dims)) = req.dims[1] * (req.dims[2] \div 2 + 1)
           /\ vol \div req.dims[1] = req.dims[2] /\ vol \div req.dims[2] = req.dims[1]
<1>1. req \in Requests /\ rank = 2 /\ Slots = {1, 2}
  <2>1. req \in Requests /\ rank = 2
    BY DEF Fits, IInv, StateOK, RequestsAgreed, Agreed, rank
  <2> QED
    BY <2>1 DEF Slots
<1>2. Len(req.dims) = 2 /\ req.dims \in Seq(Nat \ {0})
  BY <1>1, RequestsAssumption DEF rank, RequestType
<1> DEFINE a == req.dims[1]
           b == req.dims[2]
<1>3. a \in Nat \ {0} /\ b \in Nat \ {0}
  BY <1>2
<1>4. Lengths(req)[1] = a /\ Lengths(req)[2] = b
  BY <1>2 DEF Lengths
<1>5. vol = a * b
  BY <1>2, <1>3, ProductOfTwo DEF vol
<1>6. Product(Halved(req.dims)) = a * (b \div 2 + 1)
  <2> DEFINE h == Halved(req.dims)
  <2>1. b \div 2 + 1 \in Nat
    BY <1>3
  <2>2. h \in Seq(Nat) /\ Len(h) = 2 /\ h[1] = a /\ h[2] = b \div 2 + 1
    BY <1>2, <1>3, <2>1 DEF Halved
  <2> HIDE DEF h
  <2>3. Product(h) = h[1] * h[2]
    BY <1>3, <2>1, <2>2, ProductOfTwo
  <2> QED
    BY <2>2, <2>3 DEF h
<1>7. vol \div a = b /\ vol \div b = a
  BY <1>3, <1>5, DivideBack
<1> QED
  BY <1>1, <1>3, <1>4, <1>5, <1>6, <1>7

LEMMA ForwardStays ==
    ASSUME Fits, RequestsAgreed, Executing, req.api = "forward"
    PROVE  StaysInArrays
<1> DEFINE a == req.dims[1]
           b == req.dims[2]
           h == b \div 2 + 1
<1>1. /\ pass \in {1, 2} /\ plans[1] # NoSlot /\ plans[2] # NoSlot /\ phase = "held"
      /\ Slots = {1, 2}
  BY RealArrays DEF Fits, ExecutingOK
<1>2. /\ a \in Nat /\ b \in Nat /\ vol = a * b
      /\ Product(Halved(req.dims)) = a * h
      /\ Lengths(req)[1] = a /\ Lengths(req)[2] = b
      /\ vol \div a = b /\ vol \div b = a
  BY RealArrays
<1> HIDE DEF a, b
<1>3. NestedKind(1) = "real" /\ NestedKind(2) = "complex"
  BY DEF NestedKind
<1>4. Fitted(1) /\ Fitted(2)
  BY <1>1 DEF Fits, FittedOK
<1>5. /\ plans[1] = 1 /\ made[1] = <<"real", b>> /\ Accepted("real", b)
      /\ Ns[1] = a /\ Ms[1] = b
      /\ plans[2] = 2 /\ made[2] = <<"complex", a>>
      /\ Ns[2] = h /\ Ms[2] = a
  BY <1>2, <1>3, <1>4 DEF Fitted
<1>6. h \in Nat /\ h <= b
  BY <1>2, <1>5 DEF Accepted
<1> HIDE DEF h
<1>7. BufCells = a * b /\ InCells = a * b /\ OutCells = a * h
  <2>1. a * b \in Nat /\ a * b + 0 = a * b
    BY <1>2
  <2> QED
    BY <1>2, <2>1 DEF BufCells, InCells, OutCells, InDims, OutDims, vol
<1>8. a * h <= a * b /\ a * h \in Nat /\ a * b \in Nat
  BY <1>2, <1>6, MoreRows, LastRow
<1>9. CASE pass = 1
  <2>1. InLength = b /\ OutLength = h
    BY <1>5, <1>9 DEF InLength, OutLength, Nested, h
  <2>2. Rows(pass) = [count |-> a, in |-> b, out |-> h]
    BY <1>5, <1>9 DEF Rows, h
  <2>3. (a - 1) * b + b = a * b /\ (a - 1) * h + h = a * h
    BY <1>2, <1>6, LastRow
  <2>4. /\ doing = "transpose" => Room = [from |-> a * b, to |-> a * h]
        /\ doing = "rows" => Room = [from |-> a * b, to |-> a * b]
    BY <1>7, <1>9 DEF Room
  <2> QED
    BY <1>8, <1>9, <2>1, <2>2, <2>3, <2>4 DEF StaysInArrays, Executing
<1>10. CASE pass = 2
  <2>1. InLength = a /\ OutLength = a
    BY <1>5, <1>10 DEF InLength, OutLength, Nested
  <2>2. Rows(pass) = [count |-> h, in |-> a, out |-> a]
    BY <1>5, <1>10 DEF Rows
  <2>3. (h - 1) * a + a = h * a /\ h * a = a * h
    BY <1>2, <1>6, LastRow
  <2>4. /\ doing = "transpose" => Room = [from |-> a * b, to |-> a * h]
        /\ doing = "rows" => Room = [from |-> a * h, to |-> a * b]
    BY <1>7, <1>10 DEF Room
  <2> QED
    BY <1>8, <1>10, <2>1, <2>2, <2>3, <2>4 DEF StaysInArrays, Executing
<1> QED
  BY <1>1, <1>9, <1>10

LEMMA InverseStays ==
    ASSUME Fits, RequestsAgreed, Executing, req.api = "inverse"
    PROVE  StaysInArrays
<1> DEFINE a == req.dims[1]
           b == req.dims[2]
           h == b \div 2 + 1
<1>1. /\ plans[1] # NoSlot /\ plans[2] # NoSlot /\ phase = "held" /\ Slots = {1, 2}
      /\ \/ doing = "transpose" /\ pass = 0
         \/ doing = "rows" /\ pass = 1
         \/ doing = "transpose" /\ pass = 1
         \/ doing = "rows" /\ pass = 2
  BY RealArrays DEF Fits, ExecutingOK
<1>2. /\ a \in Nat /\ b \in Nat /\ vol = a * b
      /\ Product(Halved(req.dims)) = a * h
      /\ Lengths(req)[1] = a /\ Lengths(req)[2] = b
      /\ vol \div a = b /\ vol \div b = a
  BY RealArrays
<1> HIDE DEF a, b
<1>3. NestedKind(1) = "complex" /\ NestedKind(2) = "real"
  BY RealArrays DEF NestedKind
<1>4. Fitted(1) /\ Fitted(2)
  BY <1>1 DEF Fits, FittedOK
<1>5. /\ plans[1] = 1 /\ made[1] = <<"complex", a>> /\ Ns[1] = a /\ Ms[1] = h
      /\ plans[2] = 2 /\ made[2] = <<"real", b>> /\ Accepted("real", b)
      /\ Ns[2] = b /\ Ms[2] = a
  BY <1>2, <1>3, <1>4 DEF Fitted
<1>6. h \in Nat /\ h <= b
  BY <1>2, <1>5 DEF Accepted
<1>7. BufCells = a * b + a * h /\ BufCells - a * b = a * h /\ InCells = a * h /\ OutCells = a * b
  <2>1. BufCells = a * b + a * h
    BY <1>2 DEF BufCells, a
  <2>2. a * b \in Nat /\ a * h \in Nat
    BY <1>2, <1>6, LastRow
  <2>3. InCells = a * h /\ OutCells = a * b
    BY <1>2 DEF InCells, OutCells, InDims, OutDims, vol
  <2> HIDE DEF h
  <2> QED
    BY <2>1, <2>2, <2>3
<1> HIDE DEF h
<1>8. /\ a * h <= a * b /\ a * h \in Nat /\ a * b \in Nat
      /\ h * a = a * h /\ (h - 1) * a + a = a * h
      /\ (a - 1) * h + h = a * h /\ (a - 1) * b + b = a * b
  BY <1>2, <1>6, MoreRows, LastRow
<1>9. CASE doing = "transpose" /\ pass = 0
  <2>1. Ms[1] * Ns[1] = a * h
    BY <1>5, <1>8
  <2>2. Room = [from |-> a * h, to |-> a * b]
    BY <1>2, <1>7, <1>9 DEF Room
  <2> QED
    BY <1>8, <1>9, <2>1, <2>2 DEF StaysInArrays
<1>10. CASE pass = 1
  <2>1. InLength = a /\ OutLength = a
    BY <1>5, <1>10 DEF InLength, OutLength, Nested
  <2>2. Rows(pass) = [count |-> h, in |-> a, out |-> a]
    BY <1>5, <1>10 DEF Rows
  <2>3. /\ doing = "transpose" => Room = [from |-> a * h, to |-> a * b]
        /\ doing = "rows" => Room = [from |-> a * b, to |-> a * h]
    BY <1>2, <1>7, <1>10 DEF Room
  <2> QED
    BY <1>1, <1>8, <1>10, <2>1, <2>2, <2>3 DEF StaysInArrays
<1>11. CASE doing = "rows" /\ pass = 2
  <2>1. InLength = h /\ OutLength = b
    BY <1>5, <1>11 DEF InLength, OutLength, Nested, h
  <2>2. Rows(pass) = [count |-> a, in |-> h, out |-> b]
    BY <1>5, <1>11 DEF Rows
  <2>3. Room = [from |-> a * b, to |-> a * b]
    BY <1>2, <1>7, <1>11 DEF Room
  <2> QED
    BY <1>8, <1>11, <2>1, <2>2, <2>3 DEF StaysInArrays
<1> QED
  BY <1>1, <1>9, <1>10, <1>11

\* No pass through the rows and no transposition leaves its array or its part of p->buf
\* (ffts_nd.c:149, ffts_real_nd.c:193-200), for complex transforms of any rank and
\* lengths and real ones of rank 2: what each slot remembers of its lengths goes with the
\* nested plan it ended up with, its own or a shared one.
THEOREM AlwaysInArrays == RequestsAgreed => (NdSpec => []StaysInArrays)
<1> SUFFICES ASSUME RequestsAgreed PROVE NdSpec => []StaysInArrays
  OBVIOUS
<1>1. NdInit => FittedOK /\ ExecutingOK
  BY DEF NdInit, Init, FittedOK, ExecutingOK, Executing
<1>2. IInv /\ Typed /\ FittedOK /\ ExecutingOK /\ [NdNext]_<<vars, execution>> =>
          FittedOK' /\ ExecutingOK'
  <2> SUFFICES ASSUME IInv, Typed, FittedOK, ExecutingOK, [NdNext]_<<vars, execution>>
               PROVE  FittedOK' /\ ExecutingOK'
    OBVIOUS
  <2> QED
    BY LifeOrNothing, FittedStep, ExecutingStep
<1>3. NdInit => Typed
  BY InitTyped DEF NdInit
<1>4. Typed /\ IInv /\ [NdNext]_<<vars, execution>> => Typed'
  BY LifeOrNothing, StepTyped DEF IInv
<1>5. IInv /\ Typed /\ FittedOK /\ ExecutingOK => StaysInArrays
  <2> SUFFICES ASSUME Fits, Executing PROVE StaysInArrays
    BY DEF Fits, StaysInArrays
  <2>1. req.api \in {"complex", "forward", "inverse"}
    BY RequestRight DEF Fits, IInv, StateOK
  <2> QED
    BY <2>1, ComplexStays, ForwardStays, InverseStays
<1> QED
  BY <1>1, <1>2, <1>3, <1>4, <1>5, Inductive, PTL DEF NdSpec

-----------------------------------------------------------------------------
(* Strides.                                                                *)

LEMMA Quotient ==
    ASSUME NEW m \in Nat, m > 0, NEW q \in Nat, NEW s \in Nat, s < m
    PROVE  (q * m + s) \div m = q /\ (q * m + s) % m = s
  BY Z3

\* The lengths after dimension d.
Rest(s, d) == [e \in 1..(Len(s) - d) |-> s[d + e]]

LEMMA RestRight ==
    ASSUME NEW s \in Seq(Nat \ {0}), NEW d \in 0..Len(s)
    PROVE  /\ Rest(s, d) \in Seq(Nat \ {0}) /\ Len(Rest(s, d)) = Len(s) - d
           /\ Len(Rest(s, d)) \in Nat
           /\ \A e \in 1..(Len(s) - d) : Rest(s, d)[e] = s[d + e]
           /\ Stride(s, d) = Product(Rest(s, d))
<1>1. Len(s) \in Nat /\ Len(s) - d \in Nat
  OBVIOUS
<1>2. \A e \in 1..(Len(s) - d) : d + e \in 1..Len(s) /\ s[d + e] \in Nat \ {0}
  BY <1>1
<1>3. Rest(s, d) \in [1..(Len(s) - d) -> Nat \ {0}]
  BY <1>2 DEF Rest
<1>4. Rest(s, d) \in Seq(Nat \ {0}) /\ Len(Rest(s, d)) = Len(s) - d
  BY <1>1, <1>3
<1> QED
  BY <1>1, <1>4 DEF Rest, Stride

\* One more length in front multiplies the product.
LEMMA StrideStep ==
    ASSUME NEW s \in Seq(Nat \ {0}), NEW d \in 1..Len(s)
    PROVE  Stride(s, d - 1) = s[d] * Stride(s, d)
<1> DEFINE L == Len(s) - d
           u == Rest(s, d - 1)
           v == Rest(s, d)
<1>1. Len(s) \in Nat /\ L \in Nat /\ d \in 0..Len(s) /\ d - 1 \in 0..Len(s) /\ s[d] \in Nat
  OBVIOUS
<1>2. /\ Len(u) = L + 1 /\ Len(v) = L /\ Len(u) \in Nat
      /\ Stride(s, d - 1) = Product(u) /\ Stride(s, d) = Product(v)
  <2>1. Len(u) = Len(s) - (d - 1) /\ Stride(s, d - 1) = Product(u)
    BY <1>1, RestRight
  <2>2. Len(v) = Len(s) - d /\ Stride(s, d) = Product(v)
    BY <1>1, RestRight
  <2> HIDE DEF u, v
  <2> QED
    BY <1>1, <2>1, <2>2
<1>3. u[1] = s[d] /\ \A k \in 1..L : u[k + 1] = v[k] /\ v[k] \in Nat
  BY <1>1, RestRight DEF Rest
<1> HIDE DEF u, v
<1>4. PICK p : /\ p[0] = 1
               /\ \A k \in 1..(L + 1) : p[k] = p[k - 1] * u[k]
               /\ Product(u) = p[L + 1]
  BY <1>1, <1>2, ProductRight
<1>5. PICK r : /\ r[0] = 1
               /\ \A k \in 1..L : r[k] = r[k - 1] * v[k]
               /\ Product(v) = r[L]
  BY <1>1, <1>2, ProductRight
<1> HIDE DEF L
<1> DEFINE Fails == {k \in 0..L : ~ (r[k] \in Nat /\ p[k + 1] = s[d] * r[k])}
<1>6. SUFFICES ASSUME Fails # {} PROVE FALSE
  BY <1>1, <1>2, <1>4, <1>5
<1> DEFINE m == MinOf(Fails)
<1>7. m \in Fails /\ \A k \in Fails : m <= k
  <2>1. Fails \in SUBSET Nat
    BY <1>1
  <2> HIDE DEF Fails
  <2> QED
    BY <1>6, <2>1, LeastExists
<1> HIDE DEF m
<1>8. CASE m = 0
  <2>1. 1 \in 1..(L + 1) /\ p[1] = p[0] * u[1] /\ p[1] = s[d]
    BY <1>1, <1>3, <1>4
  <2> QED
    BY <1>1, <1>5, <1>7, <1>8, <2>1
<1>9. CASE m # 0
  <2>1. m \in 1..L /\ m - 1 \in 0..L /\ m - 1 \notin Fails /\ m + 1 \in 1..(L + 1)
    BY <1>1, <1>7, <1>9
  <2>2. r[m - 1] \in Nat /\ p[m] = s[d] * r[m - 1] /\ v[m] \in Nat
    BY <1>3, <2>1
  <2>3. r[m] = r[m - 1] * v[m] /\ p[m + 1] = p[m] * v[m]
    BY <1>3, <1>4, <1>5, <2>1
  <2>4. r[m] \in Nat
    BY <2>2, <2>3
  <2>5. \A a, b, c \in Nat : (a * b) * c = a * (b * c)
    BY Z3
  <2>6. p[m + 1] = s[d] * r[m]
    BY <1>1, <2>2, <2>3, <2>5
  <2> QED
    BY <1>7, <2>4, <2>6
<1> QED
  BY <1>8, <1>9

LEMMA StrideEnds ==
    ASSUME NEW s \in Seq(Nat \ {0})
    PROVE  Stride(s, Len(s)) = 1 /\ Stride(s, 0) = Product(s)
<1>1. Len(s) \in Nat /\ Len(s) \in 0..Len(s) /\ 0 \in 0..Len(s)
  OBVIOUS
<1>2. Stride(s, Len(s)) = 1
  <2>1. Stride(s, Len(s)) = Product(Rest(s, Len(s))) /\ Len(Rest(s, Len(s))) = 0
    BY <1>1, RestRight
  <2> DEFINE u == Rest(s, Len(s))
  <2> HIDE DEF u
  <2>2. PICK p : p[0] = 1 /\ Product(u) = p[Len(u)]
    BY <2>1, ProductRight DEF u
  <2> QED
    BY <2>1, <2>2 DEF u
<1>3. Rest(s, 0) = s
  <2>1. s = [e \in 1..Len(s) |-> s[e]]
    OBVIOUS
  <2>2. \A e \in 1..Len(s) : 0 + e = e
    BY <1>1
  <2>3. Len(s) - 0 = Len(s)
    BY <1>1
  <2> QED
    BY <2>1, <2>2, <2>3 DEF Rest
<1>4. Stride(s, 0) = Product(Rest(s, 0))
  BY <1>1, RestRight
<1> QED
  BY <1>2, <1>3, <1>4

\* A stride is a multiple of those of later dimensions.
LEMMA StrideMultiple ==
    ASSUME NEW s \in Seq(Nat \ {0}), NEW e \in 0..Len(s), NEW d \in 0..e
    PROVE  /\ Stride(s, e) \in Nat \ {0}
           /\ \E m \in Nat \ {0} : Stride(s, d) = m * Stride(s, e)
<1>1. Len(s) \in Nat /\ \A k \in 1..Len(s) : s[k] \in Nat \ {0}
  OBVIOUS
<1>2. \A a, b, c \in Nat : a * (b * c) = (a * b) * c
  BY Z3
<1>3. \A a, b \in Nat \ {0} : a * b \in Nat \ {0}
  BY Z3
<1>4. ASSUME NEW f \in 0..Len(s), Stride(s, f) \in Nat \ {0}, NEW k \in 0..f
      PROVE  \E m \in Nat \ {0} : Stride(s, f - k) = m * Stride(s, f)
  <2> DEFINE Fails == {k1 \in 0..f : ~ \E m \in Nat \ {0} : Stride(s, f - k1) = m * Stride(s, f)}
  <2>1. SUFFICES ASSUME Fails # {} PROVE FALSE
    OBVIOUS
  <2> DEFINE n == MinOf(Fails)
  <2>2. n \in Fails /\ \A k1 \in Fails : n <= k1
    <3>1. Fails \in SUBSET Nat
      BY <1>1
    <3> HIDE DEF Fails
    <3> QED
      BY <2>1, <3>1, LeastExists
  <2> HIDE DEF n
  <2>3. CASE n = 0
    <3>1. f - 0 = f /\ Stride(s, f) = 1 * Stride(s, f)
      BY <1>4
    <3> QED
      BY <2>2, <2>3, <3>1
  <2>4. CASE n # 0
    <3>1. n \in 0..f /\ n - 1 \in 0..f /\ n - 1 \notin Fails /\ f \in Nat
      <4>1. n \in 0..f /\ f \in Nat
        BY <1>1, <2>2
      <4> HIDE DEF Fails
      <4> QED
        BY <2>2, <2>4, <4>1
    <3>2. PICK m \in Nat \ {0} : Stride(s, f - (n - 1)) = m * Stride(s, f)
      BY <3>1
    <3> DEFINE g == f - (n - 1)
    <3>3. g \in 1..Len(s) /\ g - 1 = f - n
      BY <1>1, <2>4, <3>1
    <3>4. Stride(s, g - 1) = s[g] * Stride(s, g)
      BY <3>3, StrideStep
    <3>5. s[g] \in Nat \ {0}
      BY <1>1, <3>3
    <3> HIDE DEF g
    <3>6. Stride(s, f - n) = (s[g] * m) * Stride(s, f)
      BY <1>2, <1>4, <3>2, <3>3, <3>4, <3>5 DEF g
    <3>7. s[g] * m \in Nat \ {0}
      BY <1>3, <3>5
    <3> QED
      BY <2>2, <3>6, <3>7
  <2> QED
    BY <2>3, <2>4
<1>5. Stride(s, e) \in Nat \ {0}
  <2>1. Len(s) \in 0..Len(s) /\ Len(s) - e \in 0..Len(s) /\ Len(s) - (Len(s) - e) = e
    BY <1>1
  <2>2. Stride(s, Len(s)) = 1
    BY StrideEnds
  <2>3. Stride(s, Len(s)) \in Nat \ {0}
    BY <2>2
  <2>4. PICK m \in Nat \ {0} : Stride(s, Len(s) - (Len(s) - e)) = m * Stride(s, Len(s))
    BY <1>4, <2>1, <2>3
  <2> QED
    BY <2>1, <2>2, <2>4
<1>6. e - d \in 0..e /\ e - (e - d) = d
  BY <1>1
<1> QED
  BY <1>4, <1>5, <1>6

\* Products, reordered.
LEMMA Products ==
    ASSUME NEW a \in Nat, NEW b \in Nat, NEW c \in Nat
    PROVE  /\ a * b \in Nat /\ a * b = b * a
           /\ a * (b * c) = (a * b) * c
           /\ (a + b) * c = a * c + b * c
           /\ c * (a + b) = c * a + c * b
           /\ a # 0 /\ b # 0 => a * b # 0
           /\ a < b /\ c # 0 => a * c < b * c
           /\ a <= b => a * c <= b * c
  BY Z3

\* A quotient and a remainder.
LEMMA Split ==
    ASSUME NEW a \in Nat, NEW m \in Nat, m # 0
    PROVE  /\ a \div m \in Nat /\ a % m \in Nat /\ a % m < m
           /\ a = (a \div m) * m + (a % m)
<1>1. a \div m \in Nat
  OBVIOUS
<1>2. a % m \in Nat /\ a % m < m
  OBVIOUS
<1>3. a = m * (a \div m) + (a % m)
  <2>1. m > 0 /\ a \in Int
    OBVIOUS
  <2> QED
    BY <2>1, Division
<1> QED
  BY <1>1, <1>2, <1>3, Products

\* A multiple of the next stride does not change a coordinate,
InnerFact(b, m, n, t, w) == ((b * (m * (n * t)) + w) \div t) % n = (w \div t) % n

LEMMA Inner ==
    ASSUME NEW b \in Nat, NEW m \in Nat, NEW n \in Nat, NEW t \in Nat, NEW w \in Nat,
           n # 0, t # 0
    PROVE  InnerFact(b, m, n, t, w)
<1>1. PICK q \in Nat, r \in Nat : r < t /\ w = q * t + r /\ w \div t = q
  BY Split
<1>2. PICK u \in Nat, v \in Nat : v < n /\ q = u * n + v /\ q % n = v
  BY Split
<1> DEFINE k == b * m
<1>3. k \in Nat /\ b * (m * (n * t)) = (k * n) * t /\ k * n \in Nat
  <2>1. n * t \in Nat /\ b * (m * (n * t)) = k * (n * t) /\ k \in Nat
    BY Products
  <2> HIDE DEF k
  <2> QED
    BY <2>1, Products
<1> HIDE DEF k
<1>4. b * (m * (n * t)) + w = (k * n + q) * t + r /\ k * n + q \in Nat
  BY <1>1, <1>3, Products
<1>5. (b * (m * (n * t)) + w) \div t = k * n + q
  BY <1>1, <1>4, Quotient
<1>6. k * n + q = (k + u) * n + v
  <2>1. (k + u) * n = k * n + u * n /\ u * n \in Nat
    BY <1>2, <1>3, Products
  <2> QED
    BY <1>2, <1>3, <2>1
<1>7. (k * n + q) % n = v
  BY <1>2, <1>3, <1>6, Quotient
<1> QED
  BY <1>1, <1>2, <1>5, <1>7 DEF InnerFact

\* and what is less than a stride does not either.
OuterFact(a, m, n, t, x, w) == ((a * n + x) * t + w) \div (m * (n * t)) = a \div m

LEMMA Outer ==
    ASSUME NEW a \in Nat, NEW m \in Nat, NEW n \in Nat, NEW t \in Nat,
           NEW x \in Nat, NEW w \in Nat, m # 0, x < n, w < t
    PROVE  OuterFact(a, m, n, t, x, w)
<1>1. PICK q \in Nat, r \in Nat : r < m /\ a = q * m + r /\ a \div m = q
  BY Split
<1> DEFINE f == n * t
           g == m * f
           y == (r * n + x) * t + w
<1>2. f \in Nat /\ g \in Nat /\ f # 0 /\ g # 0
  BY Products
<1>3. r * n + x \in Nat /\ r * n \in Nat /\ y \in Nat /\ (r * n) * t = r * f
  BY <1>1, Products
<1>4. y < (r + 1) * f
  <2>1. (r * n + x) * t = r * f + x * t /\ x * t \in Nat /\ r * f \in Nat
    BY <1>1, <1>2, <1>3, Products
  <2>2. (x + 1) * t = x * t + t /\ (x + 1) * t <= f
    <3>1. x + 1 \in Nat /\ x + 1 <= n /\ 1 * t = t
      OBVIOUS
    <3> QED
      BY <3>1, Products
  <2>3. (r + 1) * f = r * f + f
    BY <1>1, <1>2, Products
  <2> HIDE DEF f
  <2> QED
    BY <1>2, <2>1, <2>2, <2>3
<1>5. (r + 1) * f <= g /\ (r + 1) * f \in Nat
  <2>1. r + 1 \in Nat /\ r + 1 <= m
    BY <1>1
  <2> HIDE DEF f
  <2> QED
    BY <1>2, <2>1, Products
<1>6. (a * n + x) * t + w = q * g + y
  <2>1. a * n = (q * m) * n + r * n /\ (q * m) * n = q * (m * n) /\ m * n \in Nat /\ q * m \in Nat
    BY <1>1, Products
  <2>2. q * (m * n) \in Nat /\ a * n + x = q * (m * n) + (r * n + x)
    BY <1>1, <1>3, <2>1, Products
  <2>3. (a * n + x) * t = (q * (m * n)) * t + (r * n + x) * t
    BY <1>3, <2>2, Products
  <2>4. (q * (m * n)) * t = q * ((m * n) * t) /\ (m * n) * t = g
    BY <1>1, <2>1, Products
  <2>5. (r * n + x) * t \in Nat /\ q * g \in Nat
    BY <1>1, <1>2, <1>3, Products
  <2> HIDE DEF f, g
  <2> QED
    BY <2>3, <2>4, <2>5
<1> HIDE DEF f, g, y
<1>7. y < g
  BY <1>2, <1>3, <1>4, <1>5
<1>8. (q * g + y) \div g = q
  BY <1>1, <1>2, <1>3, <1>7, Quotient
<1> QED
  BY <1>1, <1>6, <1>8 DEF f, g, OuterFact

Coords(dims, z) == [d \in DOMAIN dims |-> (z \div Stride(dims, d)) % dims[d]]

\* The cells that differ in one coordinate only lie one stride apart.
LineFact(s, d, a, x, w) ==
    Coords(s, (a * s[d] + x) * Stride(s, d) + w)
        = [Coords(s, (a * s[d]) * Stride(s, d) + w) EXCEPT ![d] = x]

LEMMA CoordsLine ==
    ASSUME NEW s \in Seq(Nat \ {0}), NEW d \in 1..Len(s), NEW a \in Nat, NEW x \in Nat,
           NEW w \in Nat, x < s[d], w < Stride(s, d)
    PROVE  LineFact(s, d, a, x, w)
<1> DEFINE n == s[d]
           t == Stride(s, d)
           z(y) == (a * n + y) * t + w
           here(y, e) == (z(y) \div Stride(s, e)) % s[e]
<1>1. /\ Len(s) \in Nat /\ DOMAIN s = 1..Len(s) /\ d \in 0..Len(s)
      /\ \A k \in 1..Len(s) : s[k] \in Nat \ {0}
  OBVIOUS
<1>2. n \in Nat /\ n # 0
  BY <1>1
<1>3. t \in Nat /\ t # 0
  BY <1>1, StrideMultiple
<1>4. Stride(s, d - 1) = n * t
  BY StrideStep
<1> HIDE DEF n, t
<1>5. x < n /\ w < t
  BY DEF n, t
<1>6. a * n + 0 = a * n /\ 0 < n
  BY <1>2
<1>7. \A y \in Nat : y < n => here(y, d) = y
  <2> TAKE y \in Nat
  <2>1. a * n + y \in Nat
    BY <1>2, Products
  <2> DEFINE q == a * n + y
  <2>4. q \in Nat /\ t > 0
    BY <1>3, <2>1
  <2> HIDE DEF q
  <2>2. (q * t + w) \div t = q
    BY <1>3, <1>5, <2>4, Quotient, Zenon
  <2>3. y < n => (a * n + y) % n = y
    BY <1>2, Quotient
  <2> QED
    BY <2>2, <2>3 DEF q, n, t
<1>8. ASSUME NEW e \in 1..Len(s), e # d PROVE here(x, e) = here(0, e)
  <2>1. CASE e > d
    <3> DEFINE S == Stride(s, e)
    <3>1. e \in 0..Len(s) /\ e - 1 \in 0..Len(s) /\ d \in 0..(e - 1) /\ s[e] \in Nat /\ s[e] # 0
      BY <1>1, <2>1
    <3>2. PICK m \in Nat \ {0} : t = m * Stride(s, e - 1)
      BY <3>1, StrideMultiple DEF t
    <3>3. Stride(s, e - 1) = s[e] * S
      BY StrideStep
    <3>4. S \in Nat /\ S # 0
      BY <3>1, StrideMultiple
    <3> HIDE DEF S
    <3>5. t = m * (s[e] * S)
      BY <3>2, <3>3
    <3>6. ASSUME NEW b \in Nat
          PROVE  ((b * (m * (s[e] * S)) + w) \div S) % s[e] = (w \div S) % s[e]
      <4> DEFINE k == s[e]
      <4> HIDE DEF k
      <4>1. m \in Nat /\ k \in Nat /\ k # 0
        BY <3>1 DEF k
      <4>2. InnerFact(b, m, k, S, w)
        BY <3>4, <4>1, Inner
      <4> QED
        BY <4>2 DEF k, InnerFact
    <3>7. a * n + x \in Nat /\ a * n + 0 \in Nat
      BY <1>2, Products
    <3> QED
      BY <3>5, <3>6, <3>7 DEF S
  <2>2. CASE e < d
    <3>1. d - 1 \in 0..Len(s) /\ e \in 0..(d - 1)
      BY <1>1, <2>2
    <3>2. PICK m \in Nat \ {0} : Stride(s, e) = m * (n * t)
      <4>1. PICK m \in Nat \ {0} : Stride(s, e) = m * Stride(s, d - 1)
        BY <3>1, StrideMultiple
      <4> QED
        BY <1>4, <4>1
    <3>3. ((a * n + x) * t + w) \div (m * (n * t)) = a \div m
      <4>1. m \in Nat /\ m # 0
        OBVIOUS
      <4>2. OuterFact(a, m, n, t, x, w)
        BY <1>2, <1>3, <1>5, <4>1, Outer
      <4> QED
        BY <4>2 DEF OuterFact
    <3>4. ((a * n + 0) * t + w) \div (m * (n * t)) = a \div m
      <4>1. m \in Nat /\ m # 0 /\ 0 \in Nat
        OBVIOUS
      <4>2. OuterFact(a, m, n, t, 0, w)
        BY <1>2, <1>3, <1>5, <1>6, <4>1, Outer
      <4> QED
        BY <4>2 DEF OuterFact
    <3> QED
      BY <3>2, <3>3, <3>4
  <2> QED
    BY <1>1, <1>8, <2>1, <2>2
<1> DEFINE f == Coords(s, (a * n) * t + w)
           g == Coords(s, (a * n + x) * t + w)
<1>9. /\ f = [e \in 1..Len(s) |-> here(0, e)] /\ g = [e \in 1..Len(s) |-> here(x, e)]
  BY <1>1, <1>6 DEF Coords
<1>10. here(x, d) = x
  BY <1>5, <1>7
<1> HIDE DEF here
<1>11. g = [f EXCEPT ![d] = x]
  BY <1>8, <1>9, <1>10
<1> QED
  BY <1>11 DEF n, t, LineFact

-----------------------------------------------------------------------------
(* Rows and transpositions.                                                *)

\* A cell moved along one dimension.
Moved(cell, e, x) == [cell EXCEPT !.at[e] = x]

LEMMA MovedRight ==
    ASSUME NEW g, NEW D, NEW e, NEW x, NEW cell, cell = [at |-> g, done |-> D]
    PROVE  Moved(cell, e, x) = [at |-> [g EXCEPT ![e] = x], done |-> D]
  BY DEF Moved

\* Cells that only differ in dimension d, x being their places in it.
LineOf(cells, n, g, d, D) ==
    \A x \in 0..(n - 1) : cells[x] = [at |-> [g EXCEPT ![d] = x], done |-> D]

\* What the nested plan of the pass is meant for: dimension d of data transformed along D.
Suits(d, D) ==
    /\ d \in Slots /\ d \notin D /\ req.dims[d] = Nested[2]
    /\ Nested[1] = "real" =>
           d = rank /\ D = (IF req.api = "forward" THEN {} ELSE Slots \ {d})
    /\ Nested[1] = "complex" /\ req.api # "complex" => d # rank

\* The only dimension along which a row of two cells or more can lie is the one in
\* which its cells differ.
LEMMA LineTransformed ==
    ASSUME NEW g \in [Slots -> Nat], NEW d, NEW D, NEW row,
           InLength \in Nat, InLength >= 2, Suits(d, D),
           DOMAIN row = 0..(InLength - 1), LineOf(row, InLength, g, d, D)
    PROVE  LineOf(Transformed(row), OutLength, g, d, D \cup {d})
<1> DEFINE g0 == [g EXCEPT ![d] = 0]
<1>1. 0 \in 0..(InLength - 1) /\ 1 \in 0..(InLength - 1) /\ DOMAIN row = 0..(InLength - 1)
  OBVIOUS
<1>13. d \in Slots
  BY DEF Suits
<1>2. /\ g0 \in [Slots -> Nat] /\ g0[d] = 0
      /\ \A x : [g EXCEPT ![d] = x] = [g0 EXCEPT ![d] = x]
  BY <1>13
<1>3. \A x \in 0..(InLength - 1) : row[x] = [at |-> [g0 EXCEPT ![d] = x], done |-> D]
  BY <1>2 DEF LineOf
<1>4. row[0] = [at |-> g0, done |-> D]
  <2>1. [g0 EXCEPT ![d] = 0] = g0
    BY <1>2
  <2> QED
    BY <1>1, <1>3, <2>1
<1>5. row[0] # Junk
  <2>1. DOMAIN g0 = Slots /\ d \in Slots
    BY <1>13, <1>2
  <2>2. DOMAIN <<>> = {}
    OBVIOUS
  <2>3. g0 # <<>>
    BY <2>1, <2>2, Zenon
  <2> HIDE DEF g0
  <2> QED
    BY <1>4, <2>3 DEF Junk
<1> HIDE DEF g0
<1>6. \A e, x : Moved(row[0], e, x) = [at |-> [g0 EXCEPT ![e] = x], done |-> D]
  BY <1>4, MovedRight
<1>7. row[0].at = g0 /\ row[0].done = D
  BY <1>4
<1>8. IsLine(row, d)
  <2>1. \A x \in DOMAIN row : row[x] = Moved(row[0], d, x)
    BY <1>1, <1>3, <1>6
  <2> QED
    BY <1>5, <1>7, <2>1 DEF IsLine, Moved, Suits
<1>9. ASSUME NEW e \in Slots, IsLine(row, e) PROVE e = d
  <2>1. /\ [at |-> g0, done |-> D] = [at |-> [g0 EXCEPT ![e] = 0], done |-> D]
        /\ [at |-> [g0 EXCEPT ![d] = 1], done |-> D] = [at |-> [g0 EXCEPT ![e] = 1], done |-> D]
    <3>1. \A x \in DOMAIN row : row[x] = Moved(row[0], e, x)
      BY <1>9 DEF IsLine, Moved
    <3>2. row[0] = Moved(row[0], e, 0) /\ row[1] = Moved(row[0], e, 1)
      BY <1>1, <3>1
    <3> QED
      BY <1>1, <1>3, <1>4, <1>6, <3>2
  <2>2. g0 = [g0 EXCEPT ![e] = 0] /\ [g0 EXCEPT ![d] = 1] = [g0 EXCEPT ![e] = 1]
    BY <2>1
  <2> QED
    BY <1>2, <2>2
<1>10. {e \in Slots : IsLine(row, e)} = {d}
  BY <1>13, <1>8, <1>9
<1>11. (CHOOSE e \in {d} : TRUE) = d
  OBVIOUS
<1>12. \A x \in 0..(OutLength - 1) :
           Transformed(row)[x] = [at |-> [g0 EXCEPT ![d] = x], done |-> D \cup {d}]
  BY <1>7, <1>10, <1>11 DEF Transformed
<1> QED
  BY <1>2, <1>12 DEF LineOf

\* Quotient and remainder of a place in an array of rows.
LEMMA PlaceInRows ==
    ASSUME NEW n \in Nat, NEW o \in Nat, NEW c \in Nat, c < n * o
    PROVE  /\ o # 0 /\ c \div o \in Nat /\ c \div o < n /\ c % o \in Nat /\ c % o < o
           /\ c = (c \div o) * o + (c % o)
<1>1. o # 0 /\ n # 0
  BY Z3
<1>2. PICK q \in Nat, r \in Nat : q = c \div o /\ r = c % o /\ r < o /\ c = q * o + r
  BY <1>1, Split
<1>3. q < n
  <2>1. SUFFICES ASSUME n <= q PROVE FALSE
    BY <1>2
  <2>2. n * o <= q * o /\ n * o \in Nat /\ q * o \in Nat
    BY <1>2, <2>1, Products
  <2> QED
    BY <1>2, <2>2
<1> QED
  BY <1>1, <1>2, <1>3

\* The other way round.
LEMMA RowOfPlace ==
    ASSUME NEW n \in Nat, NEW o \in Nat, NEW j \in Nat, NEW x \in Nat, j < n, x < o
    PROVE  j * o + x \in Nat /\ j * o + x < n * o
<1>1. (j + 1) * o <= n * o /\ (j + 1) * o = j * o + o /\ j * o \in Nat /\ n * o \in Nat
  <2>1. j + 1 \in Nat /\ j + 1 <= n /\ 1 * o = o
    OBVIOUS
  <2> QED
    BY <2>1, Products
<1> QED
  BY <1>1

\* A pass through n rows, one behind the other, that are lines along dimension d.
RowsOf(n) == Rows(pass) = [count |-> n, in |-> InLength, out |-> OutLength]
RowsAre(src, n, o, F, d, D) ==
    \A j \in 0..(n - 1) : \A x \in 0..(o - 1) :
        /\ j * o + x \in DOMAIN src
        /\ src[j * o + x] = [at |-> [F[j] EXCEPT ![d] = x], done |-> D]
RowsWritten(dst, d0, n, o, F, d, D) ==
    \A c \in 0..(n * o - 1) : d0 + c \in DOMAIN dst =>
        dst[d0 + c] = [at |-> [F[c \div o] EXCEPT ![d] = c % o], done |-> D]

LEMMA RowsRight ==
    ASSUME NEW n \in Nat, NEW d0 \in Nat, NEW dst, NEW src,
           NEW d, NEW D, NEW F \in [0..(n - 1) -> [Slots -> Nat]],
           InLength \in Nat, InLength >= 2, OutLength \in Nat, Suits(d, D),
           RowsOf(n),
           RowsAre(src, n, InLength, F, d, D)
    PROVE  /\ DOMAIN AfterRows(dst, d0, src) = DOMAIN dst
           /\ RowsWritten(AfterRows(dst, d0, src), d0, n, OutLength, F, d, D \cup {d})
<1> DEFINE L == InLength
           O == OutLength
           row(j) == [x \in 0..(L - 1) |-> Read(src, j * L + x)]
<1>1. ASSUME NEW j \in 0..(n - 1)
      PROVE  LineOf(Transformed(row(j)), O, F[j], d, D \cup {d})
  <2>1. DOMAIN row(j) = 0..(L - 1) /\ LineOf(row(j), L, F[j], d, D)
    BY DEF Read, LineOf, RowsAre
  <2>2. F[j] \in [Slots -> Nat]
    OBVIOUS
  <2> HIDE DEF row
  <2> QED
    BY <2>1, <2>2, LineTransformed
<1>2. DOMAIN AfterRows(dst, d0, src) = DOMAIN dst
  BY DEF AfterRows
<1>3. ASSUME NEW c \in 0..(n * O - 1), d0 + c \in DOMAIN dst
      PROVE  AfterRows(dst, d0, src)[d0 + c] =
                 [at |-> [F[c \div O] EXCEPT ![d] = c % O], done |-> D \cup {d}]
  <2>1. c \in Nat /\ c < n * O /\ n * O \in Nat
    BY Products
  <2>2. /\ c \div O \in 0..(n - 1) /\ c % O \in 0..(O - 1) /\ c % O < O
    <3>1. O \in Nat
      OBVIOUS
    <3> HIDE DEF O
    <3>2. O # 0 /\ c \div O \in Nat /\ c \div O < n /\ c % O \in Nat /\ c % O < O
      BY <2>1, <3>1, PlaceInRows
    <3> QED
      BY <3>1, <3>2
  <2>3. d0 + c >= d0 /\ (d0 + c) - d0 = c
    BY <2>1
  <2>4. AfterRows(dst, d0, src)[d0 + c] = Transformed(row(c \div O))[c % O]
    <3>1. /\ Rows(pass).count = n /\ Rows(pass).in = L /\ Rows(pass).out = O
      BY DEF RowsOf
    <3> HIDE DEF L, O
    <3> QED
      BY <1>3, <2>1, <2>2, <2>3, <3>1 DEF AfterRows, O, L
  <2> HIDE DEF row, O, L
  <2> QED
    BY <1>1, <2>2, <2>4 DEF LineOf
<1> QED
  BY <1>2, <1>3 DEF RowsWritten

\* A transposition of whole blocks.
Holds(src, s0, n) == \A c \in 0..(n - 1) : s0 + c \in DOMAIN src
Transposed(res, dst, src, s0, w, h) ==
    \A c \in 0..(w * h - 1) : c \in DOMAIN dst =>
        /\ (c % h) * w + (c \div h) \in 0..(h * w - 1)
        /\ res[c] = src[s0 + ((c % h) * w + (c \div h))]

LEMMA TransposeRight ==
    ASSUME NEW dst, NEW src, NEW s0 \in Nat, NEW w \in Nat, NEW h \in Nat,
           Covered(w) = w, Covered(h) = h,
           Holds(src, s0, h * w)
    PROVE  /\ DOMAIN AfterTranspose(dst, src, s0, w, h) = DOMAIN dst
           /\ Transposed(AfterTranspose(dst, src, s0, w, h), dst, src, s0, w, h)
<1>1. ASSUME NEW c \in 0..(w * h - 1), c \in DOMAIN dst
      PROVE  /\ (c % h) * w + (c \div h) \in 0..(h * w - 1)
             /\ AfterTranspose(dst, src, s0, w, h)[c] = src[s0 + ((c % h) * w + (c \div h))]
  <2>1. c \in Nat /\ c < w * h /\ w * h \in Nat
    BY Products
  <2> DEFINE x == c \div h
             y == c % h
  <2>2. x \in Nat /\ x < w /\ y \in Nat /\ y < h
    BY <2>1, PlaceInRows
  <2>3. y * w + x \in Nat /\ y * w + x < h * w /\ y * w \in Nat /\ h * w \in Nat
    BY <2>2, RowOfPlace, Products
  <2>4. AfterTranspose(dst, src, s0, w, h)[c] = Read(src, s0 + y * w + x)
    BY <1>1, <2>2 DEF AfterTranspose
  <2> HIDE DEF x, y
  <2>5. s0 + y * w + x = s0 + (y * w + x) /\ y * w + x \in 0..(h * w - 1)
    BY <2>2, <2>3
  <2>6. Read(src, s0 + (y * w + x)) = src[s0 + (y * w + x)]
    BY <2>5 DEF Read, Holds
  <2> QED
    BY <2>4, <2>5, <2>6 DEF x, y
<1> QED
  BY <1>1 DEF AfterTranspose, Transposed

-----------------------------------------------------------------------------
(* Complex transforms: the data is turned one dimension further each time. *)

\* The cells before and after the dimension that is turned next, as a product.
After(k) == Stride(req.dims, rank - k)
Before(k) == vol \div After(k)

\* Which cell of the data lies at c after k rotations.
Origin(k, c) == (c % Before(k)) * After(k) + (c \div Before(k))
Turned(k, c, D) == [at |-> Coords(req.dims, Origin(k, c)), done |-> D]
Last(k) == {d \in Slots : d > rank - k}

\* What the pass of a slot is about.
LEMMA ComplexShape ==
    ASSUME Fits, req.api = "complex", phase = "held", pass \in Slots, plans[pass] # NoSlot,
           NEW d, d = rank - pass + 1
    PROVE  /\ d \in Slots /\ rank \in Nat /\ req.dims \in Seq(Nat \ {0}) /\ Slots = 1..Len(req.dims)
           /\ req.dims[d] \in Nat /\ req.dims[d] >= 2
           /\ InLength = req.dims[d] /\ OutLength = req.dims[d]
           /\ Suits(d, Last(pass - 1)) /\ Last(pass) = Last(pass - 1) \cup {d}
           /\ \E m \in Nat \ {0}, t \in Nat \ {0} :
                  /\ t = Stride(req.dims, d)
                  /\ After(pass - 1) = t /\ Before(pass - 1) = m * req.dims[d]
                  /\ After(pass) = req.dims[d] * t /\ Before(pass) = m
                  /\ vol = m * (req.dims[d] * t)
                  /\ Rows(pass) = [count |-> m * t, in |-> req.dims[d], out |-> req.dims[d]]
<1> DEFINE n == req.dims[d]
           t == Stride(req.dims, d)
<1>1. req \in Requests /\ RequestType(req)
  BY RequestsAssumption DEF Fits, Typed, TypeOK
<1>2. /\ req.dims \in Seq(Nat \ {0}) /\ rank = Len(req.dims) /\ rank \in Nat
      /\ Slots = 1..Len(req.dims) /\ pass \in 1..rank
  BY <1>1 DEF RequestType, rank, Slots
<1>3. d \in 1..rank /\ d \in Slots /\ d - 1 \in 0..rank /\ d \in 0..rank
  BY <1>2
<1>4. Lengths(req)[pass] = n
  BY <1>2 DEF Lengths, rank
<1>5. /\ made[plans[pass]] = <<"complex", n>> /\ Accepted("complex", n)
      /\ Ns[pass] = n /\ Ms[pass] = vol \div n
  BY <1>4 DEF Fits, FittedOK, Fitted
<1>6. n \in Nat /\ n >= 2
  BY <1>2, <1>3, <1>5 DEF Accepted
<1>7. InLength = n /\ OutLength = n
  BY <1>5 DEF InLength, OutLength, Nested
<1>8. Suits(d, Last(pass - 1)) /\ Last(pass) = Last(pass - 1) \cup {d}
  <2>1. d \notin Last(pass - 1)
    BY <1>2, <1>3 DEF Last
  <2>2. Last(pass) = Last(pass - 1) \cup {d}
    BY <1>2, <1>3 DEF Last
  <2> QED
    BY <1>3, <1>5, <2>1, <2>2 DEF Suits, Nested
<1>9. t \in Nat /\ t # 0 /\ Stride(req.dims, d - 1) = n * t
  <2>1. d \in 0..Len(req.dims) /\ d \in 0..d /\ d \in 1..Len(req.dims)
    BY <1>2, <1>3
  <2>2. t \in Nat \ {0}
    BY <1>2, <2>1, StrideMultiple
  <2>3. Stride(req.dims, d - 1) = n * t
    BY <1>2, <2>1, StrideStep
  <2> QED
    BY <2>2, <2>3
<1>10. PICK m \in Nat \ {0} : vol = m * (n * t)
  <2>1. PICK m \in Nat \ {0} : Stride(req.dims, 0) = m * Stride(req.dims, d - 1)
    <3>1. d - 1 \in 0..Len(req.dims) /\ 0 \in 0..(d - 1)
      BY <1>2, <1>3
    <3> QED
      BY <1>2, <3>1, StrideMultiple
  <2> QED
    BY <1>2, <1>9, <2>1, StrideEnds DEF vol
<1>11. After(pass - 1) = t /\ After(pass) = n * t
  <2>1. rank - (pass - 1) = d /\ rank - pass = d - 1
    BY <1>2
  <2> QED
    BY <1>9, <2>1 DEF After
<1> HIDE DEF n, t
<1>12. /\ vol \div t = m * n /\ vol \div (n * t) = m /\ vol \div n = m * t
  <2>1. n * t \in Nat /\ n * t # 0 /\ m * n \in Nat /\ m * n # 0 /\ m * t \in Nat /\ m * t # 0
    BY <1>6, <1>9, Products
  <2>2. vol = (m * n) * t /\ vol = (m * t) * n
    <3>1. m * (n * t) = (m * n) * t /\ n * t = t * n /\ m * (t * n) = (m * t) * n
      BY <1>6, <1>9, Products
    <3> QED
      BY <1>10, <3>1
  <2> QED
    BY <1>6, <1>9, <1>10, <2>1, <2>2, DivideBack
<1>13. Rows(pass) = [count |-> m * t, in |-> n, out |-> n]
  BY <1>5, <1>12 DEF Rows, n
<1>14. m \in Nat \ {0} /\ t \in Nat \ {0}
  BY <1>9
<1> QED
  BY <1>2, <1>3, <1>6, <1>7, <1>8, <1>10, <1>11, <1>12, <1>13, <1>14 DEF Before, n, t

\* Where the cells of a row come from,
OriginFact(m, n, t, j, x) ==
    ((j * n + x) % (m * n)) * t + ((j * n + x) \div (m * n)) = ((j % m) * n + x) * t + (j \div m)

LEMMA OriginLine ==
    ASSUME NEW m \in Nat \ {0}, NEW n \in Nat \ {0}, NEW t \in Nat \ {0},
           NEW j \in Nat, NEW x \in Nat, j < m * t, x < n
    PROVE  /\ OriginFact(m, n, t, j, x)
           /\ j \div m \in Nat /\ j \div m < t /\ j % m \in Nat
<1>1. PICK u \in Nat, v \in Nat : /\ u = j \div m /\ v = j % m
                                  /\ v < m /\ u < t /\ j = u * m + v
  <2>1. j < t * m
    BY Products
  <2> QED
    BY <2>1, PlaceInRows
<1>2. v * n + x \in Nat /\ v * n + x < m * n
  BY <1>1, RowOfPlace
<1>3. m * n \in Nat /\ m * n > 0
  BY Products
<1>4. j * n + x = u * (m * n) + (v * n + x)
  <2>1. j * n = (u * m) * n + v * n /\ (u * m) * n = u * (m * n)
        /\ u * m \in Nat /\ v * n \in Nat /\ u * (m * n) \in Nat
    BY <1>1, <1>3, Products
  <2> QED
    BY <2>1
<1>5. (j * n + x) \div (m * n) = u /\ (j * n + x) % (m * n) = v * n + x
  <2> DEFINE f == m * n
             r == v * n + x
  <2>1. f \in Nat /\ f > 0 /\ r \in Nat /\ r < f
    BY <1>2, <1>3
  <2> HIDE DEF f, r
  <2>2. (u * f + r) \div f = u /\ (u * f + r) % f = r
    BY <1>1, <2>1, Quotient
  <2> QED
    BY <1>4, <2>2 DEF f, r
<1> QED
  BY <1>1, <1>5 DEF OriginFact

\* and that a transposition is one more rotation.
TurnFact(m, n, t, c, j, x) ==
    ((j % m) * n + x) * t + (j \div m) = (c % m) * (n * t) + (c \div m)

LEMMA OriginTurn ==
    ASSUME NEW m \in Nat \ {0}, NEW n \in Nat \ {0}, NEW t \in Nat \ {0},
           NEW c \in Nat, c < n * (m * t)
    PROVE  /\ c % (m * t) \in Nat /\ c \div (m * t) \in Nat
           /\ c % (m * t) < m * t /\ c \div (m * t) < n
           /\ TurnFact(m, n, t, c, c % (m * t), c \div (m * t))
<1> DEFINE j == c % (m * t)
           x == c \div (m * t)
<1>1. m * t \in Nat /\ m * t > 0
  BY Products
<1>2. j \in Nat /\ x \in Nat /\ j < m * t /\ x < n /\ c = x * (m * t) + j
  BY <1>1, PlaceInRows
<1> HIDE DEF j, x
<1>3. PICK u \in Nat, v \in Nat : u = j \div m /\ v = j % m /\ v < m /\ j = u * m + v
  BY <1>2, Split
<1>4. c = (x * t + u) * m + v /\ x * t + u \in Nat
  <2>1. x * (m * t) = (x * t) * m /\ (x * t + u) * m = (x * t) * m + u * m
        /\ x * t \in Nat /\ (x * t) * m \in Nat /\ u * m \in Nat
    <3>1. m * t = t * m /\ x * (t * m) = (x * t) * m /\ x * t \in Nat
      BY <1>2, Products
    <3> QED
      BY <1>2, <1>3, <3>1, Products
  <2> QED
    BY <1>2, <1>3, <2>1
<1>5. c \div m = x * t + u /\ c % m = v
  <2> DEFINE q == x * t + u
  <2>1. q \in Nat /\ m \in Nat /\ m > 0
    BY <1>4
  <2> HIDE DEF q
  <2>2. (q * m + v) \div m = q /\ (q * m + v) % m = v
    BY <1>3, <2>1, Quotient
  <2> QED
    BY <1>4, <2>2 DEF q
<1>6. (v * n + x) * t = v * (n * t) + x * t /\ v * (n * t) \in Nat /\ x * t \in Nat
  <2>1. v * n \in Nat /\ n * t \in Nat /\ v * (n * t) = (v * n) * t
        /\ (v * n + x) * t = (v * n) * t + x * t
    BY <1>2, <1>3, Products
  <2> QED
    BY <1>2, <1>3, <2>1, Products
<1> QED
  BY <1>2, <1>3, <1>5, <1>6 DEF j, x, TurnFact

\* The arrays keep their sizes.
ArraysOK == doing # "nothing" =>
    DOMAIN buf = 0..(BufCells - 1) /\ DOMAIN out = 0..(OutCells - 1)

\* Before the rows of a slot the data is turned once for each slot that is done; its
\* transposition is still missing afterwards.
ComplexOK == req.api = "complex" =>
    /\ doing = "rows" /\ pass > 1 =>
           \A c \in 0..(vol - 1) : out[c] = Turned(pass - 1, c, Last(pass - 1))
    /\ doing = "transpose" =>
           \A c \in 0..(vol - 1) : buf[c] = Turned(pass - 1, c, Last(pass))

LEMMA ComplexArrays ==
    ASSUME Fits, req.api = "complex"
    PROVE  /\ req \in Requests /\ req.dims \in Seq(Nat \ {0}) /\ rank = Len(req.dims)
           /\ rank \in Nat /\ rank >= 2 /\ Slots = 1..Len(req.dims)
           /\ vol \in Nat \ {0} /\ BufCells = vol /\ InCells = vol /\ OutCells = vol
           /\ InDims = req.dims /\ OutDims = req.dims
<1>1. req \in Requests /\ RequestType(req)
  BY RequestsAssumption DEF Fits, Typed, TypeOK
<1>2. /\ req.dims \in Seq(Nat \ {0}) /\ rank = Len(req.dims) /\ rank \in Nat /\ rank >= 2
      /\ Slots = 1..Len(req.dims)
  BY <1>1 DEF RequestType, rank, Slots
<1>3. vol \in Nat \ {0}
  <2>1. 0 \in 0..Len(req.dims) /\ 0 \in 0..0
    BY <1>2
  <2>2. Stride(req.dims, 0) \in Nat \ {0}
    BY <1>2, <2>1, StrideMultiple
  <2> QED
    BY <1>2, <2>2, StrideEnds DEF vol
<1>4. InDims = req.dims /\ OutDims = req.dims
  BY DEF InDims, OutDims
<1>5. BufCells = vol /\ InCells = vol /\ OutCells = vol
  BY <1>3, <1>4 DEF BufCells, InCells, OutCells, vol
<1> QED
  BY <1>1, <1>2, <1>3, <1>4, <1>5

\* Coordinates are numbers.
LEMMA CoordsTyped ==
    ASSUME NEW s \in Seq(Nat \ {0}), NEW z \in Nat
    PROVE  Coords(s, z) \in [1..Len(s) -> Nat]
<1>1. DOMAIN s = 1..Len(s)
  OBVIOUS
<1>2. ASSUME NEW d \in 1..Len(s) PROVE (z \div Stride(s, d)) % s[d] \in Nat
  <2>1. d \in 0..Len(s) /\ d \in 0..d /\ s[d] \in Nat \ {0}
    OBVIOUS
  <2>2. Stride(s, d) \in Nat \ {0}
    BY <2>1, StrideMultiple
  <2> DEFINE t == Stride(s, d)
             n == s[d]
  <2>3. t \in Nat /\ t # 0 /\ n \in Nat /\ n # 0
    BY <2>1, <2>2
  <2> HIDE DEF t, n
  <2>4. z \div t \in Nat
    BY <2>3, Split
  <2>5. (z \div t) % n \in Nat
    BY <2>3, <2>4, Split
  <2> QED
    BY <2>5 DEF t, n
<1> QED
  BY <1>1, <1>2 DEF Coords

\* The input is not turned at all,
LEMMA InputTurned ==
    ASSUME Fits, req.api = "complex", NEW c \in 0..(vol - 1)
    PROVE  c \in DOMAIN Input /\ Input[c] = Turned(0, c, Last(0))
<1>1. /\ req.dims \in Seq(Nat \ {0}) /\ rank = Len(req.dims) /\ rank \in Nat
      /\ vol \in Nat /\ vol # 0 /\ InDims = req.dims /\ Slots = 1..Len(req.dims)
  BY ComplexArrays
<1>2. After(0) = 1 /\ Before(0) = vol
  <2>1. rank - 0 = Len(req.dims)
    BY <1>1
  <2>2. After(0) = 1
    BY <1>1, <2>1, StrideEnds DEF After
  <2>3. vol \div 1 = vol
    BY <1>1
  <2> QED
    BY <2>2, <2>3 DEF Before
<1>3. Origin(0, c) = c
  <2>1. c \in Nat /\ c < vol /\ c = 0 * vol + c /\ vol > 0
    BY <1>1
  <2>2. c \div vol = 0 /\ c % vol = c
    BY <1>1, <2>1, Quotient
  <2>3. c * 1 + 0 = c
    BY <2>1
  <2> QED
    BY <1>2, <2>2, <2>3 DEF Origin
<1>4. Last(0) = {}
  BY <1>1 DEF Last
<1>5. Input[c] = [at |-> Coords(req.dims, c), done |-> {}] /\ c \in DOMAIN Input
  BY <1>1 DEF Input, RowMajor, Coords, vol
<1> QED
  BY <1>3, <1>4, <1>5 DEF Turned

\* and after all rotations it is as it was.
LEMMA OutputTurned ==
    ASSUME Fits, req.api = "complex", NEW c \in 0..(vol - 1)
    PROVE  Output[c] = Turned(rank, c, Last(rank)) /\ DOMAIN Output = 0..(vol - 1)
<1>1. /\ req.dims \in Seq(Nat \ {0}) /\ rank = Len(req.dims) /\ rank \in Nat
      /\ vol \in Nat /\ vol # 0 /\ OutDims = req.dims /\ Slots = 1..Len(req.dims)
  BY ComplexArrays
<1>2. After(rank) = vol /\ Before(rank) = 1
  <2>1. rank - rank = 0
    BY <1>1
  <2>2. After(rank) = vol
    BY <1>1, <2>1, StrideEnds DEF After, vol
  <2>3. vol = 1 * vol + 0
    BY <1>1
  <2>4. vol \div vol = 1
    BY <1>1
  <2> QED
    BY <2>2, <2>4 DEF Before
<1>3. Origin(rank, c) = c
  <2>1. c \in Nat
    BY <1>1
  <2>2. c % 1 = 0 /\ c \div 1 = c
    BY <2>1
  <2>3. 0 * vol + c = c
    BY <1>1, <2>1
  <2> QED
    BY <1>2, <2>2, <2>3 DEF Origin
<1>4. Last(rank) = Slots
  BY <1>1 DEF Last
<1>5. Output[c] = [at |-> Coords(req.dims, c), done |-> Slots] /\ DOMAIN Output = 0..(vol - 1)
  BY <1>1 DEF Output, RowMajor, Coords, vol
<1> QED
  BY <1>3, <1>4, <1>5 DEF Turned

\* The rows of a slot.
LEMMA ComplexRows ==
    ASSUME Fits, req.api = "complex", ArraysOK, doing = "rows", Executing, NEW src,
           \A c \in 0..(vol - 1) :
               c \in DOMAIN src /\ src[c] = Turned(pass - 1, c, Last(pass - 1))
    PROVE  /\ DOMAIN AfterRows(buf, 0, src) = DOMAIN buf
           /\ \A c \in 0..(vol - 1) :
                  AfterRows(buf, 0, src)[c] = Turned(pass - 1, c, Last(pass))
<1> DEFINE k == pass - 1
           d == rank - pass + 1
           n == req.dims[d]
<1>1. pass \in Slots /\ plans[pass] # NoSlot /\ phase = "held"
  BY DEF Fits, ExecutingOK
<1>2. /\ req.dims \in Seq(Nat \ {0}) /\ rank = Len(req.dims) /\ rank \in Nat
      /\ vol \in Nat /\ BufCells = vol /\ OutCells = vol /\ Slots = 1..Len(req.dims)
  BY ComplexArrays
<1>3. /\ d \in Slots /\ n \in Nat /\ n >= 2 /\ InLength = n /\ OutLength = n
      /\ Suits(d, Last(k)) /\ Last(pass) = Last(k) \cup {d}
  BY <1>1, ComplexShape
<1>4. PICK m \in Nat \ {0}, t \in Nat \ {0} :
          /\ t = Stride(req.dims, d)
          /\ After(k) = t /\ Before(k) = m * n
          /\ After(pass) = n * t /\ Before(pass) = m
          /\ vol = m * (n * t)
          /\ Rows(pass) = [count |-> m * t, in |-> n, out |-> n]
  BY <1>1, ComplexShape
<1>5. \A c \in 0..(vol - 1) : c \in DOMAIN src /\ src[c] = Turned(k, c, Last(k))
  OBVIOUS
<1> HIDE DEF k, d, n
<1> DEFINE F == [j \in 0..(m * t - 1) |->
                    Coords(req.dims, ((j % m) * n) * t + (j \div m))]
<1>6. m * t \in Nat /\ (m * t) * n = vol /\ n \in Nat \ {0}
  <2>1. m * t \in Nat /\ (m * t) * n = m * (t * n) /\ t * n = n * t
    BY <1>3, Products
  <2> QED
    BY <1>3, <1>4, <2>1
<1>7. ASSUME NEW j \in 0..(m * t - 1)
      PROVE  /\ F[j] \in [Slots -> Nat]
             /\ \A x \in 0..(n - 1) :
                    /\ j * n + x \in 0..(vol - 1)
                    /\ Coords(req.dims, Origin(k, j * n + x)) = [F[j] EXCEPT ![d] = x]
  <2> DEFINE a == j % m
             w == j \div m
  <2>1. j \in Nat /\ j < m * t
    BY <1>6
  <2>2. a \in Nat /\ w \in Nat /\ w < t
    <3>1. 0 \in Nat /\ 0 < n
      BY <1>6
    <3> QED
      BY <1>6, <2>1, <3>1, OriginLine
  <2>3. F[j] = Coords(req.dims, (a * n) * t + w)
    OBVIOUS
  <2>4. F[j] \in [Slots -> Nat]
    <3>1. (a * n) * t + w \in Nat
      <4>1. a * n \in Nat
        BY <1>6, <2>2, Products
      <4>2. (a * n) * t \in Nat
        BY <4>1, Products
      <4> QED
        BY <2>2, <4>2
    <3> HIDE DEF F, a, w
    <3> QED
      BY <1>2, <2>3, <3>1, CoordsTyped
  <2> HIDE DEF F
  <2>5. ASSUME NEW x \in 0..(n - 1)
        PROVE  /\ j * n + x \in 0..(vol - 1)
               /\ Coords(req.dims, Origin(k, j * n + x)) = [F[j] EXCEPT ![d] = x]
    <3>1. x \in Nat /\ x < n
      BY <1>6
    <3>2. j * n + x \in 0..(vol - 1)
      <4>1. j * n + x \in Nat /\ j * n + x < (m * t) * n
        BY <1>6, <2>1, <3>1, RowOfPlace
      <4> QED
        BY <1>2, <1>6, <4>1
    <3>3. Origin(k, j * n + x) = (a * n + x) * t + w
      <4>1. OriginFact(m, n, t, j, x)
        BY <1>6, <2>1, <3>1, OriginLine
      <4> QED
        BY <1>4, <4>1 DEF Origin, OriginFact
    <3> HIDE DEF a, w
    <3>4. d \in 1..Len(req.dims) /\ x < req.dims[d] /\ w < Stride(req.dims, d)
      BY <1>2, <1>3, <1>4, <2>2, <3>1 DEF n
    <3>5. LineFact(req.dims, d, a, x, w)
      BY <1>2, <2>2, <3>1, <3>4, CoordsLine
    <3> QED
      BY <1>4, <2>3, <3>2, <3>3, <3>5 DEF n, LineFact
  <2> QED
    BY <2>4, <2>5
<1>8. F \in [0..(m * t - 1) -> [Slots -> Nat]]
  <2>1. F = [j \in 0..(m * t - 1) |-> F[j]]
    OBVIOUS
  <2> HIDE DEF F
  <2> QED
    BY <1>7, <2>1
<1> HIDE DEF F
<1>9. RowsAre(src, m * t, InLength, F, d, Last(k))
  BY <1>3, <1>5, <1>7 DEF Turned, RowsAre
<1>10. /\ DOMAIN AfterRows(buf, 0, src) = DOMAIN buf
       /\ RowsWritten(AfterRows(buf, 0, src), 0, m * t, OutLength, F, d, Last(k) \cup {d})
  <2>1. RowsOf(m * t)
    BY <1>3, <1>4 DEF RowsOf
  <2>2. InLength \in Nat /\ InLength >= 2 /\ OutLength \in Nat /\ 0 \in Nat
    BY <1>3
  <2> QED
    <3> DEFINE p == m * t
               E == Last(k)
    <3>1. p \in Nat /\ RowsOf(p) /\ RowsAre(src, p, InLength, F, d, E) /\ Suits(d, E)
          /\ F \in [0..(p - 1) -> [Slots -> Nat]]
      BY <1>3, <1>6, <1>8, <1>9, <2>1
    <3> HIDE DEF p, E
    <3>2. ASSUME NEW dst
          PROVE  /\ DOMAIN AfterRows(dst, 0, src) = DOMAIN dst
                 /\ RowsWritten(AfterRows(dst, 0, src), 0, p, OutLength, F, d, E \cup {d})
      BY <2>2, <3>1, RowsRight, Zenon
    <3> QED
      BY <3>2, Zenon DEF p, E
<1>11. ASSUME NEW c \in 0..(vol - 1)
       PROVE  AfterRows(buf, 0, src)[c] = Turned(k, c, Last(pass))
  <2>1. c \in Nat /\ c < (m * t) * n /\ 0 + c = c /\ c \in DOMAIN buf
    BY <1>2, <1>6 DEF ArraysOK
  <2>2. /\ c \div n \in Nat /\ c \div n < m * t /\ c % n \in Nat /\ c % n < n
        /\ c = (c \div n) * n + (c % n)
    BY <1>6, <2>1, PlaceInRows
  <2> DEFINE j == c \div n
             x == c % n
  <2>3. j \in 0..(m * t - 1) /\ x \in 0..(n - 1) /\ c = j * n + x
    BY <1>6, <2>2
  <2>4. AfterRows(buf, 0, src)[c] = [at |-> [F[j] EXCEPT ![d] = x], done |-> Last(k) \cup {d}]
    BY <1>3, <1>6, <1>10, <2>1 DEF RowsWritten
  <2> HIDE DEF j, x
  <2> QED
    BY <1>3, <1>7, <2>3, <2>4 DEF Turned
<1> QED
  BY <1>10, <1>11 DEF k

-----------------------------------------------------------------------------
(* Which lengths ffts_transpose moves without a remainder.                 *)

\* Without SSE2 every request is one of these.
Tiled(r) ==
    IF r.api = "complex" THEN \A i \in 1..Len(r.dims) : r.dims[i] % Tile = 0
    ELSE r.dims[1] % Tile = 0 /\ (r.dims[2] \div 2 + 1) % Tile = 0

RequestsTiled == \A r \in Requests : Tiled(r)

OfTiles(n) == \E z \in Nat : n = z * Tile

LEMMA TilesCover ==
    /\ \A n \in Nat : n % Tile = 0 => OfTiles(n)
    /\ \A n : OfTiles(n) => Covered(n) = n
    /\ \A n, m \in Nat : OfTiles(n) => OfTiles(m * n) /\ OfTiles(n * m)
<1>1. Tile \in Nat /\ Tile # 0 /\ Tile > 0
  BY TileAssumption
<1>2. ASSUME NEW n \in Nat, n % Tile = 0 PROVE OfTiles(n)
  <2>1. PICK q \in Nat, r \in Nat : r = n % Tile /\ n = q * Tile + r
    BY <1>1, Split
  <2>2. n = q * Tile
    BY <1>1, <1>2, <2>1, Products
  <2> QED
    BY <2>2 DEF OfTiles
<1>3. ASSUME NEW n, OfTiles(n) PROVE Covered(n) = n
  <2>1. PICK z \in Nat : n = z * Tile
    BY <1>3 DEF OfTiles
  <2>2. z * Tile \in Nat /\ z * Tile + 0 = z * Tile
    BY <1>1, <2>1, Products
  <2>3. (z * Tile + 0) \div Tile = z
    <3>1. 0 \in Nat /\ 0 < Tile
      BY <1>1
    <3> QED
      BY <1>1, <3>1, Quotient
  <2> QED
    BY <2>1, <2>2, <2>3 DEF Covered
<1>4. ASSUME NEW n \in Nat, NEW m \in Nat, OfTiles(n) PROVE OfTiles(m * n) /\ OfTiles(n * m)
  <2>1. PICK z \in Nat : n = z * Tile
    BY <1>4 DEF OfTiles
  <2>2. m * z \in Nat /\ m * n = (m * z) * Tile /\ n * m = m * n
    BY <1>1, <2>1, Products
  <2> QED
    BY <2>2 DEF OfTiles
<1> QED
  BY <1>2, <1>3, <1>4

\* The transposition of a slot is one more rotation.
LEMMA ComplexTransposed ==
    ASSUME Fits, req.api = "complex", ArraysOK, ComplexOK, doing = "transpose", Executing,
           RequestsTiled, NEW new, new = AfterTranspose(out, buf, 0, Rows(pass).out, Rows(pass).count)
    PROVE  /\ DOMAIN new = DOMAIN out
           /\ \A c \in 0..(vol - 1) : new[c] = Turned(pass, c, Last(pass))
<1> DEFINE k == pass - 1
           d == rank - pass + 1
           n == req.dims[d]
<1>1. pass \in Slots /\ plans[pass] # NoSlot /\ phase = "held"
  BY DEF Fits, ExecutingOK
<1>2. /\ req.dims \in Seq(Nat \ {0}) /\ rank = Len(req.dims) /\ rank \in Nat /\ rank >= 2
      /\ vol \in Nat /\ BufCells = vol /\ OutCells = vol /\ Slots = 1..Len(req.dims)
      /\ req \in Requests
  BY ComplexArrays
<1>3. d \in Slots /\ n \in Nat /\ n >= 2
  BY <1>1, ComplexShape
<1>4. PICK m \in Nat \ {0}, t \in Nat \ {0} :
          /\ t = Stride(req.dims, d)
          /\ After(k) = t /\ Before(k) = m * n
          /\ After(pass) = n * t /\ Before(pass) = m
          /\ vol = m * (n * t)
          /\ Rows(pass) = [count |-> m * t, in |-> n, out |-> n]
  BY <1>1, ComplexShape
<1>5. \A i \in 1..rank : req.dims[i] \in Nat \ {0} /\ OfTiles(req.dims[i])
  <2>1. \A i \in 1..rank : req.dims[i] \in Nat \ {0} /\ req.dims[i] % Tile = 0
    BY <1>2 DEF RequestsTiled, Tiled
  <2> QED
    BY <2>1, TilesCover
<1>6. OfTiles(m * t)
  <2>1. CASE d # rank
    <3>1. rank - 1 \in 0..Len(req.dims) /\ d \in 0..(rank - 1) /\ rank \in 1..Len(req.dims)
      BY <1>2, <1>3, <2>1
    <3>2. PICK u \in Nat \ {0} : Stride(req.dims, d) = u * Stride(req.dims, rank - 1)
      BY <1>2, <3>1, StrideMultiple
    <3>3. Stride(req.dims, rank - 1) = req.dims[rank] * 1
      BY <1>2, <3>1, StrideStep, StrideEnds
    <3>4. t = u * req.dims[rank] /\ OfTiles(req.dims[rank])
      <4> DEFINE r == req.dims[rank]
      <4>1. r \in Nat /\ OfTiles(r)
        BY <1>2, <1>5, <3>1
      <4> HIDE DEF r
      <4>2. r * 1 = r
        BY <4>1
      <4> QED
        BY <1>4, <3>2, <3>3, <4>1, <4>2 DEF r
    <3>5. OfTiles(t)
      BY <1>2, <1>5, <3>1, <3>4, TilesCover
    <3> QED
      BY <3>5, TilesCover
  <2>2. CASE d = rank
    <3>1. /\ d - 1 \in 1..Len(req.dims) /\ (d - 1) - 1 \in 0..Len(req.dims)
          /\ 0 \in 0..((d - 1) - 1) /\ d \in 1..Len(req.dims)
      BY <1>2, <2>2
    <3> DEFINE s == Stride(req.dims, d - 1)
               e == req.dims[d - 1]
    <3>2. PICK u \in Nat \ {0} : Stride(req.dims, 0) = u * Stride(req.dims, (d - 1) - 1)
      BY <1>2, <3>1, StrideMultiple
    <3>3. Stride(req.dims, (d - 1) - 1) = e * s /\ s = n * t
      BY <1>2, <1>4, <3>1, StrideStep
    <3>4. e \in Nat \ {0} /\ OfTiles(e)
      BY <1>2, <1>5, <3>1
    <3>5. vol = u * (e * s)
      BY <1>2, <3>2, <3>3, StrideEnds DEF vol
    <3> HIDE DEF s, e
    <3>6. s \in Nat /\ s # 0
      BY <1>3, <3>3, Products
    <3>7. vol = (u * e) * s /\ vol = m * s /\ u * e \in Nat
      BY <1>4, <3>3, <3>4, <3>5, <3>6, Products
    <3>8. m = u * e
      <4> DEFINE g == u * e
      <4> HIDE DEF g
      <4>1. (g * s + 0) \div s = g /\ (m * s + 0) \div s = m
        <5>1. g \in Nat /\ 0 \in Nat /\ 0 < s /\ s > 0 /\ m \in Nat
          BY <3>6, <3>7 DEF g
        <5> QED
          BY <3>6, <5>1, Quotient
      <4>2. g * s = m * s
        BY <3>7 DEF g
      <4> QED
        BY <4>1, <4>2 DEF g
    <3>9. OfTiles(m)
      BY <3>4, <3>8, TilesCover
    <3> QED
      BY <3>9, TilesCover
  <2> QED
    BY <2>1, <2>2
<1> HIDE DEF k, d, n
<1>7. Covered(n) = n /\ Covered(m * t) = m * t
  BY <1>2, <1>3, <1>5, <1>6, TilesCover DEF n
<1>8. m * t \in Nat /\ n \in Nat /\ n * (m * t) = vol /\ (m * t) * n = vol
  <2>1. m * t \in Nat /\ (m * t) * n = m * (t * n) /\ t * n = n * t /\ (m * t) * n = n * (m * t)
    BY <1>3, Products
  <2> QED
    BY <1>3, <1>4, <2>1
<1> DEFINE h == m * t
<1>9. new = AfterTranspose(out, buf, 0, n, h)
  BY <1>4
<1>10. Holds(buf, 0, vol)
  BY <1>2 DEF ArraysOK, Holds
<1>11. DOMAIN new = DOMAIN out /\ Transposed(new, out, buf, 0, n, h)
  <2>1. h \in Nat /\ Covered(h) = h /\ Holds(buf, 0, h * n)
    BY <1>7, <1>8, <1>10
  <2> HIDE DEF h
  <2> QED
    BY <1>3, <1>7, <1>9, <2>1, TransposeRight
<1>12. ASSUME NEW c \in 0..(vol - 1) PROVE new[c] = Turned(pass, c, Last(pass))
  <2> DEFINE j == c % h
             x == c \div h
  <2>1. c \in Nat /\ c < n * (m * t) /\ c \in DOMAIN out
    BY <1>2, <1>8 DEF ArraysOK
  <2>2. j \in Nat /\ x \in Nat /\ j < m * t /\ x < n /\ TurnFact(m, n, t, c, j, x)
    <3>1. n \in Nat \ {0}
      BY <1>3
    <3> QED
      BY <2>1, <3>1, OriginTurn
  <2> HIDE DEF h
  <2>3. j * n + x \in 0..(vol - 1) /\ new[c] = buf[0 + (j * n + x)]
    <3>1. c \in 0..(n * h - 1)
      BY <1>2, <1>8 DEF h
    <3> QED
      BY <1>8, <1>11, <2>1, <3>1 DEF Transposed, h
  <2> HIDE DEF j, x
  <2>4. new[c] = Turned(k, j * n + x, Last(pass))
    BY <2>3 DEF ComplexOK, k
  <2>5. Origin(k, j * n + x) = Origin(pass, c)
    <3>1. OriginFact(m, n, t, j, x)
      <4>1. n \in Nat \ {0}
        BY <1>3
      <4> QED
        BY <2>2, <4>1, OriginLine
    <3> QED
      BY <1>4, <2>2, <3>1 DEF Origin, OriginFact, TurnFact
  <2> QED
    BY <2>4, <2>5 DEF Turned
<1> QED
  BY <1>11, <1>12

-----------------------------------------------------------------------------
(* Real transforms: arrays of two dimensions, upright or turned.           *)

Pair(x, y) == [d \in {1, 2} |-> IF d = 1 THEN x ELSE y]

\* n rows of w cells from o on, each along the second dimension, or along the first.
Plain(arr, o, n, w, D) ==
    \A c \in 0..(n * w - 1) :
        o + c \in DOMAIN arr /\ arr[o + c] = [at |-> Pair(c \div w, c % w), done |-> D]
Across(arr, o, n, w, D) ==
    \A c \in 0..(n * w - 1) :
        o + c \in DOMAIN arr /\ arr[o + c] = [at |-> Pair(c % w, c \div w), done |-> D]

LEMMA PairMoved ==
    ASSUME NEW j, NEW x
    PROVE  /\ [Pair(j, 0) EXCEPT ![2] = x] = Pair(j, x)
           /\ [Pair(0, j) EXCEPT ![1] = x] = Pair(x, j)
<1> DEFINE f == [Pair(j, 0) EXCEPT ![2] = x]
           g == [Pair(0, j) EXCEPT ![1] = x]
<1>1. f = [d \in {1, 2} |-> IF d = 2 THEN x ELSE Pair(j, 0)[d]]
  BY DEF Pair
<1>2. g = [d \in {1, 2} |-> IF d = 1 THEN x ELSE Pair(0, j)[d]]
  BY DEF Pair
<1> HIDE DEF f, g
<1>3. f = Pair(j, x) /\ g = Pair(x, j)
  BY <1>1, <1>2 DEF Pair
<1> QED
  BY <1>3 DEF f, g

LEMMA TwoDimensions ==
    ASSUME NEW s \in Seq(Nat \ {0}), Len(s) = 2, NEW D
    PROVE  Plain(RowMajor(s, D), 0, s[1], s[2], D) /\ DOMAIN RowMajor(s, D) = 0..(s[1] * s[2] - 1)
<1> DEFINE a == s[1]
           b == s[2]
<1>1. a \in Nat \ {0} /\ b \in Nat \ {0} /\ DOMAIN s = {1, 2}
  OBVIOUS
<1>2. Product(s) = a * b
  BY <1>1, ProductOfTwo
<1>3. Stride(s, 2) = 1 /\ Stride(s, 1) = b
  <2>1. Stride(s, 2) = 1
    BY StrideEnds
  <2>2. Stride(s, 2 - 1) = b * Stride(s, 2)
    <3>1. 2 \in 1..Len(s)
      OBVIOUS
    <3> QED
      BY <3>1, StrideStep
  <2> HIDE DEF b
  <2> QED
    BY <1>1, <2>1, <2>2
<1>4. RowMajor(s, D) = [c \in 0..(a * b - 1) |->
          [at |-> [d \in {1, 2} |-> (c \div Stride(s, d)) % s[d]], done |-> D]]
  BY <1>1, <1>2 DEF RowMajor
<1>5. ASSUME NEW c \in 0..(a * b - 1)
      PROVE  [d \in {1, 2} |-> (c \div Stride(s, d)) % s[d]] = Pair(c \div b, c % b)
  <2>1. c \in Nat /\ c < a * b
    BY <1>1, Products
  <2>2. c \div b \in Nat /\ c \div b < a
    BY <1>1, <2>1, PlaceInRows
  <2>3. (c \div b) % a = c \div b
    <3> DEFINE q == c \div b
    <3>1. q \in Nat /\ q < a
      BY <2>2
    <3> HIDE DEF q, a, b
    <3>2. q % a = q
      BY <1>1, <3>1
    <3> QED
      BY <3>2 DEF q
  <2>4. c \div 1 = c
    BY <2>1
  <2> QED
    BY <1>3, <2>3, <2>4 DEF Pair
<1> HIDE DEF a, b
<1>6. ASSUME NEW c \in 0..(a * b - 1)
      PROVE  /\ 0 + c \in DOMAIN RowMajor(s, D)
             /\ RowMajor(s, D)[0 + c] = [at |-> Pair(c \div b, c % b), done |-> D]
  <2>1. 0 + c = c
    BY <1>1, Products
  <2> QED
    BY <1>4, <1>5, <2>1
<1> QED
  BY <1>4, <1>6 DEF Plain, a, b

\* Rows along the second dimension,
LEMMA PlainRows ==
    ASSUME NEW src, NEW dst, NEW d0 \in Nat, NEW n \in Nat, NEW D, Slots = {1, 2},
           InLength \in Nat, InLength >= 2, OutLength \in Nat, Suits(2, D), RowsOf(n),
           Plain(src, 0, n, InLength, D), Holds(dst, d0, n * OutLength)
    PROVE  /\ DOMAIN AfterRows(dst, d0, src) = DOMAIN dst
           /\ Plain(AfterRows(dst, d0, src), d0, n, OutLength, D \cup {2})
<1> DEFINE F == [j \in 0..(n - 1) |-> Pair(j, 0)]
           new == AfterRows(dst, d0, src)
<1>1. F \in [0..(n - 1) -> [Slots -> Nat]]
  BY DEF Pair
<1>2. \A j \in 0..(n - 1) : \A x : [F[j] EXCEPT ![2] = x] = Pair(j, x)
  BY PairMoved
<1> HIDE DEF F
<1>3. RowsAre(src, n, InLength, F, 2, D)
  <2> SUFFICES ASSUME NEW j \in 0..(n - 1), NEW x \in 0..(InLength - 1)
               PROVE  /\ j * InLength + x \in DOMAIN src
                      /\ src[j * InLength + x] = [at |-> [F[j] EXCEPT ![2] = x], done |-> D]
    BY DEF RowsAre
  <2> DEFINE c == j * InLength + x
  <2>1. j \in Nat /\ j < n /\ x \in Nat /\ x < InLength
    OBVIOUS
  <2>2. c \in Nat /\ c < n * InLength /\ n * InLength \in Nat
    BY <2>1, RowOfPlace, Products
  <2>3. c \div InLength = j /\ c % InLength = x
    BY <2>1, Quotient
  <2> HIDE DEF c
  <2>4. c \in 0..(n * InLength - 1) /\ 0 + c = c
    BY <2>2
  <2>5. c \in DOMAIN src /\ src[c] = [at |-> Pair(j, x), done |-> D]
    BY <2>3, <2>4 DEF Plain
  <2>6. [F[j] EXCEPT ![2] = x] = Pair(j, x)
    BY <1>2
  <2> QED
    BY <2>5, <2>6 DEF c
<1>4. DOMAIN new = DOMAIN dst /\ RowsWritten(new, d0, n, OutLength, F, 2, D \cup {2})
  BY <1>1, <1>3, RowsRight, Zenon
<1> HIDE DEF new
<1>5. ASSUME NEW c \in 0..(n * OutLength - 1)
      PROVE  /\ d0 + c \in DOMAIN new
             /\ new[d0 + c] = [at |-> Pair(c \div OutLength, c % OutLength), done |-> D \cup {2}]
  <2>1. c \in Nat /\ c < n * OutLength
    BY Products
  <2>2. c \div OutLength \in 0..(n - 1)
    <3> DEFINE o == OutLength
    <3>1. o \in Nat /\ c < n * o
      BY <2>1
    <3> HIDE DEF o
    <3>2. o # 0 /\ c \div o \in Nat /\ c \div o < n
      BY <2>1, <3>1, PlaceInRows
    <3> QED
      BY <3>2 DEF o
  <2> QED
    BY <1>2, <1>4, <2>2 DEF RowsWritten, Holds
<1> QED
  BY <1>4, <1>5 DEF Plain, new

\* and along the first.
LEMMA AcrossRows ==
    ASSUME NEW src, NEW dst, NEW d0 \in Nat, NEW n \in Nat, NEW D, Slots = {1, 2},
           InLength \in Nat, InLength >= 2, OutLength \in Nat, Suits(1, D), RowsOf(n),
           Across(src, 0, n, InLength, D), Holds(dst, d0, n * OutLength)
    PROVE  /\ DOMAIN AfterRows(dst, d0, src) = DOMAIN dst
           /\ Across(AfterRows(dst, d0, src), d0, n, OutLength, D \cup {1})
<1> DEFINE F == [j \in 0..(n - 1) |-> Pair(0, j)]
           new == AfterRows(dst, d0, src)
<1>1. F \in [0..(n - 1) -> [Slots -> Nat]]
  BY DEF Pair
<1>2. \A j \in 0..(n - 1) : \A x : [F[j] EXCEPT ![1] = x] = Pair(x, j)
  BY PairMoved
<1> HIDE DEF F
<1>3. RowsAre(src, n, InLength, F, 1, D)
  <2> SUFFICES ASSUME NEW j \in 0..(n - 1), NEW x \in 0..(InLength - 1)
               PROVE  /\ j * InLength + x \in DOMAIN src
                      /\ src[j * InLength + x] = [at |-> [F[j] EXCEPT ![1] = x], done |-> D]
    BY DEF RowsAre
  <2> DEFINE c == j * InLength + x
  <2>1. j \in Nat /\ j < n /\ x \in Nat /\ x < InLength
    OBVIOUS
  <2>2. c \in Nat /\ c < n * InLength /\ n * InLength \in Nat
    BY <2>1, RowOfPlace, Products
  <2>3. c \div InLength = j /\ c % InLength = x
    BY <2>1, Quotient
  <2> HIDE DEF c
  <2>4. c \in 0..(n * InLength - 1) /\ 0 + c = c
    BY <2>2
  <2>5. c \in DOMAIN src /\ src[c] = [at |-> Pair(x, j), done |-> D]
    BY <2>3, <2>4 DEF Across
  <2>6. [F[j] EXCEPT ![1] = x] = Pair(x, j)
    BY <1>2
  <2> QED
    BY <2>5, <2>6 DEF c
<1>4. DOMAIN new = DOMAIN dst /\ RowsWritten(new, d0, n, OutLength, F, 1, D \cup {1})
  BY <1>1, <1>3, RowsRight, Zenon
<1> HIDE DEF new
<1>5. ASSUME NEW c \in 0..(n * OutLength - 1)
      PROVE  /\ d0 + c \in DOMAIN new
             /\ new[d0 + c] = [at |-> Pair(c % OutLength, c \div OutLength), done |-> D \cup {1}]
  <2>1. c \in Nat /\ c < n * OutLength
    BY Products
  <2>2. c \div OutLength \in 0..(n - 1)
    <3> DEFINE o == OutLength
    <3>1. o \in Nat /\ c < n * o
      BY <2>1
    <3> HIDE DEF o
    <3>2. o # 0 /\ c \div o \in Nat /\ c \div o < n
      BY <2>1, <3>1, PlaceInRows
    <3> QED
      BY <3>2 DEF o
  <2> QED
    BY <1>2, <1>4, <2>2 DEF RowsWritten, Holds
<1> QED
  BY <1>4, <1>5 DEF Across, new

\* Transpositions turn the one into the other.
LEMMA PlainTransposed ==
    ASSUME NEW src, NEW dst, NEW s0 \in Nat, NEW w \in Nat, NEW h \in Nat, NEW D,
           Covered(w) = w, Covered(h) = h,
           Plain(src, s0, h, w, D) \/ Across(src, s0, h, w, D), Holds(dst, 0, w * h)
    PROVE  /\ DOMAIN AfterTranspose(dst, src, s0, w, h) = DOMAIN dst
           /\ Plain(src, s0, h, w, D) =>
                  Across(AfterTranspose(dst, src, s0, w, h), 0, w, h, D)
           /\ Across(src, s0, h, w, D) =>
                  Plain(AfterTranspose(dst, src, s0, w, h), 0, w, h, D)
<1> DEFINE new == AfterTranspose(dst, src, s0, w, h)
<1>1. Holds(src, s0, h * w)
  BY DEF Holds, Plain, Across
<1>2. DOMAIN new = DOMAIN dst /\ Transposed(new, dst, src, s0, w, h)
  BY <1>1, TransposeRight
<1> HIDE DEF new
<1>3. ASSUME NEW c \in 0..(w * h - 1)
      PROVE  /\ c \in DOMAIN new /\ 0 + c = c
             /\ (c % h) * w + (c \div h) \in 0..(h * w - 1)
             /\ new[c] = src[s0 + ((c % h) * w + (c \div h))]
             /\ ((c % h) * w + (c \div h)) \div w = c % h
             /\ ((c % h) * w + (c \div h)) % w = c \div h
  <2>1. c \in Nat /\ c < w * h /\ 0 + c = c
    BY Products
  <2>2. c \in DOMAIN dst
    BY <2>1 DEF Holds
  <2> DEFINE x == c \div h
             y == c % h
  <2>3. x \in Nat /\ x < w /\ y \in Nat /\ y < h
    BY <2>1, PlaceInRows
  <2>4. y * w + x \in 0..(h * w - 1) /\ new[c] = src[s0 + (y * w + x)]
    BY <1>2, <2>2 DEF Transposed
  <2> HIDE DEF x, y
  <2>5. (y * w + x) \div w = y /\ (y * w + x) % w = x
    <3>1. w > 0
      BY <2>3
    <3> QED
      BY <2>3, <3>1, Quotient
  <2> QED
    BY <1>2, <2>1, <2>2, <2>4, <2>5 DEF x, y
<1>4. ASSUME Plain(src, s0, h, w, D) PROVE Across(new, 0, w, h, D)
  BY <1>3, <1>4 DEF Plain, Across
<1>5. ASSUME Across(src, s0, h, w, D) PROVE Plain(new, 0, w, h, D)
  BY <1>3, <1>5 DEF Plain, Across
<1> QED
  BY <1>2, <1>4, <1>5 DEF new

\* What real transforms are made of: the lengths of their two dimensions, and the last
\* one as it is on the side of the complex numbers.
First == req.dims[1]
Second == req.dims[2]
Half == Second \div 2 + 1

LEMMA RealData ==
    ASSUME Fits, RequestsAgreed, req.api \in {"forward", "inverse"}
    PROVE  /\ First \in Nat /\ Second \in Nat /\ Half \in Nat /\ Slots = {1, 2} /\ rank = 2
           /\ req \in Requests
           /\ First * Second \in Nat /\ First * Half \in Nat
           /\ Half * First = First * Half
           /\ req.api = "forward" =>
                  /\ Plain(Input, 0, First, Second, {})
                  /\ Plain(Output, 0, First, Half, {1, 2})
                  /\ DOMAIN Output = 0..(First * Half - 1)
           /\ req.api = "inverse" =>
                  /\ Plain(Input, 0, First, Half, {})
                  /\ Plain(Output, 0, First, Second, {1, 2})
                  /\ DOMAIN Output = 0..(First * Second - 1)
<1>1. req \in Requests /\ rank = 2 /\ Slots = {1, 2}
  BY RealArrays
<1>2. req.dims \in Seq(Nat \ {0}) /\ Len(req.dims) = 2
  BY <1>1, RequestsAssumption DEF rank, RequestType
<1>3. First \in Nat \ {0} /\ Second \in Nat \ {0} /\ Half \in Nat \ {0}
  <2>1. First \in Nat \ {0} /\ Second \in Nat \ {0}
    BY <1>2 DEF First, Second
  <2> QED
    BY <2>1 DEF Half
<1> DEFINE u == req.dims
           v == Halved(req.dims)
<1>4. v \in Seq(Nat \ {0}) /\ Len(v) = 2 /\ v[1] = First /\ v[2] = Half
  BY <1>2, <1>3 DEF Halved, First, Second, Half
<1>5. ASSUME NEW D
      PROVE  /\ Plain(RowMajor(u, D), 0, First, Second, D)
             /\ DOMAIN RowMajor(u, D) = 0..(First * Second - 1)
             /\ Plain(RowMajor(v, D), 0, First, Half, D)
             /\ DOMAIN RowMajor(v, D) = 0..(First * Half - 1)
  <2>1. /\ Plain(RowMajor(u, D), 0, First, Second, D)
        /\ DOMAIN RowMajor(u, D) = 0..(First * Second - 1)
    BY <1>2, TwoDimensions DEF First, Second
  <2> HIDE DEF v
  <2>2. /\ Plain(RowMajor(v, D), 0, v[1], v[2], D)
        /\ DOMAIN RowMajor(v, D) = 0..(v[1] * v[2] - 1)
    BY <1>4, TwoDimensions
  <2> QED
    BY <1>4, <2>1, <2>2
<1>6. First * Second \in Nat /\ First * Half \in Nat /\ Half * First = First * Half
  BY <1>3, Products
<1>7. ASSUME req.api = "forward"
      PROVE  Input = RowMajor(u, {}) /\ Output = RowMajor(v, {1, 2})
  BY <1>1, <1>7 DEF Input, Output, InDims, OutDims
<1>8. ASSUME req.api = "inverse"
      PROVE  Input = RowMajor(v, {}) /\ Output = RowMajor(u, {1, 2})
  BY <1>1, <1>8 DEF Input, Output, InDims, OutDims
<1> HIDE DEF u, v
<1> QED
  BY <1>1, <1>3, <1>5, <1>6, <1>7, <1>8

LEMMA HalfRight ==
    ASSUME NEW b \in Nat, b \div 2 >= 2
    PROVE  b \div 2 + 1 \in Nat /\ b \div 2 + 1 <= b /\ b \div 2 + 1 >= 2
  BY Z3

LEMMA ForwardShape ==
    ASSUME Fits, RequestsAgreed, Executing, req.api = "forward"
    PROVE  /\ pass \in {1, 2} /\ Half >= 2 /\ First >= 2 /\ Half <= Second
           /\ First * Half <= First * Second
           /\ BufCells = First * Second /\ OutCells = First * Half
           /\ pass = 1 => /\ InLength = Second /\ OutLength = Half
                          /\ RowsOf(First) /\ Suits(2, {})
                          /\ Rows(pass).out = Half /\ Rows(pass).count = First
           /\ pass = 2 => /\ InLength = First /\ OutLength = First
                          /\ RowsOf(Half) /\ Suits(1, {2})
                          /\ Rows(pass).out = First /\ Rows(pass).count = Half
<1> DEFINE a == First
           b == Second
           h == Half
<1>1. /\ pass \in {1, 2} /\ plans[1] # NoSlot /\ plans[2] # NoSlot /\ phase = "held"
      /\ Slots = {1, 2} /\ rank = 2
  BY RealArrays DEF Fits, ExecutingOK
<1>2. /\ a \in Nat /\ b \in Nat /\ vol = a * b
      /\ Product(Halved(req.dims)) = a * h
      /\ Lengths(req)[1] = a /\ Lengths(req)[2] = b
      /\ vol \div a = b /\ vol \div b = a
  BY RealArrays DEF First, Second, Half
<1>3. NestedKind(1) = "real" /\ NestedKind(2) = "complex"
  BY DEF NestedKind
<1>4. Fitted(1) /\ Fitted(2)
  BY <1>1 DEF Fits, FittedOK
<1>5. h = b \div 2 + 1 /\ req.dims[1] = a /\ req.dims[2] = b
  BY DEF Half, First, Second
<1> HIDE DEF a, b, h
<1>6. /\ plans[1] = 1 /\ made[1] = <<"real", b>> /\ Accepted("real", b)
      /\ Ns[1] = a /\ Ms[1] = b
      /\ plans[2] = 2 /\ made[2] = <<"complex", a>> /\ Accepted("complex", a)
      /\ Ns[2] = h /\ Ms[2] = a
  BY <1>2, <1>3, <1>4, <1>5 DEF Fitted
<1>7. h \in Nat /\ h <= b /\ h >= 2 /\ a >= 2
  <2>1. a >= 2 /\ b \div 2 >= 2
    BY <1>6 DEF Accepted
  <2>2. b \in Nat
    BY <1>2
  <2>3. b \div 2 + 1 \in Nat /\ b \div 2 + 1 <= b /\ b \div 2 + 1 >= 2
    BY <2>1, <2>2, HalfRight
  <2> QED
    BY <1>5, <2>1, <2>3
<1>8. BufCells = a * b /\ OutCells = a * h
  <2>1. a * b \in Nat /\ a * b + 0 = a * b
    BY <1>2
  <2> QED
    BY <1>2, <2>1 DEF BufCells, OutCells, OutDims, vol
<1>9. a * h <= a * b
  BY <1>2, <1>7, MoreRows, LastRow
<1>10. CASE pass = 1
  <2>1. InLength = b /\ OutLength = h
    BY <1>5, <1>6, <1>10 DEF InLength, OutLength, Nested
  <2>2. Rows(pass) = [count |-> a, in |-> b, out |-> h]
    BY <1>5, <1>6, <1>10 DEF Rows
  <2>3. Suits(2, {})
    BY <1>1, <1>5, <1>6, <1>10 DEF Suits, Nested
  <2> QED
    BY <1>7, <1>8, <1>9, <1>10, <2>1, <2>2, <2>3 DEF RowsOf, a, b, h
<1>11. CASE pass = 2
  <2>1. InLength = a /\ OutLength = a
    BY <1>6, <1>11 DEF InLength, OutLength, Nested
  <2>2. Rows(pass) = [count |-> h, in |-> a, out |-> a]
    BY <1>6, <1>11 DEF Rows
  <2>3. Suits(1, {2})
    BY <1>1, <1>5, <1>6, <1>11 DEF Suits, Nested
  <2> QED
    BY <1>7, <1>8, <1>9, <1>11, <2>1, <2>2, <2>3 DEF RowsOf, a, b, h
<1> QED
  BY <1>1, <1>10, <1>11

LEMMA InverseShape ==
    ASSUME Fits, RequestsAgreed, Executing, req.api = "inverse"
    PROVE  /\ \/ doing = "transpose" /\ pass = 0
              \/ doing = "rows" /\ pass = 1
              \/ doing = "transpose" /\ pass = 1
              \/ doing = "rows" /\ pass = 2
           /\ Half >= 2 /\ First >= 2 /\ Half <= Second
           /\ First * Half <= First * Second
           /\ BufCells = First * Second + First * Half /\ OutCells = First * Second
           /\ Product(Ns) = First * Second
           /\ Ns[1] = First /\ Ms[1] = Half
           /\ pass = 1 => /\ InLength = First /\ OutLength = First
                          /\ RowsOf(Half) /\ Suits(1, {})
           /\ pass = 2 => /\ InLength = Half /\ OutLength = Second
                          /\ RowsOf(First) /\ Suits(2, {1})
<1> DEFINE a == First
           b == Second
           h == Half
<1>1. /\ plans[1] # NoSlot /\ plans[2] # NoSlot /\ phase = "held" /\ Slots = {1, 2} /\ rank = 2
      /\ \/ doing = "transpose" /\ pass = 0
         \/ doing = "rows" /\ pass = 1
         \/ doing = "transpose" /\ pass = 1
         \/ doing = "rows" /\ pass = 2
  BY RealArrays DEF Fits, ExecutingOK
<1>2. /\ a \in Nat /\ b \in Nat /\ vol = a * b
      /\ Product(Halved(req.dims)) = a * h
      /\ Lengths(req)[1] = a /\ Lengths(req)[2] = b
      /\ vol \div a = b /\ vol \div b = a
  BY RealArrays DEF First, Second, Half
<1>3. NestedKind(1) = "complex" /\ NestedKind(2) = "real"
  BY <1>1 DEF NestedKind
<1>4. Fitted(1) /\ Fitted(2)
  BY <1>1 DEF Fits, FittedOK
<1>5. h = b \div 2 + 1 /\ req.dims[1] = a /\ req.dims[2] = b
  BY DEF Half, First, Second
<1> HIDE DEF a, b, h
<1>6. /\ plans[1] = 1 /\ made[1] = <<"complex", a>> /\ Accepted("complex", a)
      /\ Ns[1] = a /\ Ms[1] = h
      /\ plans[2] = 2 /\ made[2] = <<"real", b>> /\ Accepted("real", b)
      /\ Ns[2] = b /\ Ms[2] = a
  BY <1>2, <1>3, <1>4, <1>5 DEF Fitted
<1>7. h \in Nat /\ h <= b /\ h >= 2 /\ a >= 2
  <2>1. a >= 2 /\ b \div 2 >= 2
    BY <1>6 DEF Accepted
  <2>2. b \in Nat
    BY <1>2
  <2>3. b \div 2 + 1 \in Nat /\ b \div 2 + 1 <= b /\ b \div 2 + 1 >= 2
    BY <2>1, <2>2, HalfRight
  <2> QED
    BY <1>5, <2>1, <2>3
<1>8. BufCells = a * b + a * h /\ OutCells = a * b
  BY <1>2, <1>5 DEF BufCells, OutCells, OutDims, vol
<1>9. a * h <= a * b
  BY <1>2, <1>7, MoreRows, LastRow
<1>12. Product(Ns) = a * b
  <2>1. Ns \in [1..2 -> Nat]
    <3>1. Ns \in [Slots -> Nat] /\ Slots = 1..2
      BY <1>1 DEF Fits, IInv, StateOK
    <3> QED
      BY <3>1, Zenon
  <2>2. Len(Ns) = 2
    BY <2>1
  <2> QED
    BY <1>2, <1>6, <2>2, ProductOfTwo
<1>10. CASE pass = 1
  <2>1. InLength = a /\ OutLength = a
    BY <1>6, <1>10 DEF InLength, OutLength, Nested
  <2>2. Rows(pass) = [count |-> h, in |-> a, out |-> a]
    BY <1>6, <1>10 DEF Rows
  <2>3. Suits(1, {})
    BY <1>1, <1>5, <1>6, <1>10 DEF Suits, Nested
  <2> QED
    BY <1>1, <1>6, <1>7, <1>8, <1>9, <1>10, <1>12, <2>1, <2>2, <2>3 DEF RowsOf, a, b, h
<1>11. CASE pass = 2
  <2>1. InLength = h /\ OutLength = b
    BY <1>5, <1>6, <1>11 DEF InLength, OutLength, Nested
  <2>2. Rows(pass) = [count |-> a, in |-> h, out |-> b]
    BY <1>5, <1>6, <1>11 DEF Rows
  <2>3. Suits(2, {1})
    BY <1>1, <1>5, <1>6, <1>11 DEF Suits, Nested
  <2> QED
    BY <1>1, <1>6, <1>7, <1>8, <1>9, <1>11, <1>12, <2>1, <2>2, <2>3 DEF RowsOf, a, b, h
<1>13. CASE pass = 0
  BY <1>1, <1>6, <1>7, <1>8, <1>9, <1>12, <1>13 DEF a, b, h
<1> QED
  BY <1>1, <1>10, <1>11, <1>13

\* Forward: the rows are halved, and the columns turned into rows and back.
ForwardOK == req.api = "forward" =>
    /\ doing = "transpose" /\ pass = 1 => Plain(buf, 0, First, Half, {2})
    /\ doing = "rows" /\ pass = 2 => Across(out, 0, Half, First, {2})
    /\ doing = "transpose" /\ pass = 2 => Across(buf, 0, Half, First, {1, 2})

\* Inverse: the columns first, in the two parts of the buffer.
InverseOK == req.api = "inverse" =>
    /\ doing = "rows" /\ pass = 1 => Across(buf, 0, Half, First, {})
    /\ doing = "transpose" /\ pass = 1 => Across(buf, First * Second, Half, First, {1})
    /\ doing = "rows" /\ pass = 2 => Plain(buf, 0, First, Half, {1})

DataOK == ArraysOK /\ ComplexOK /\ ForwardOK /\ InverseOK /\ TransformRight

LEMMA Halves ==
    ASSUME Fits, RequestsAgreed, RequestsTiled, req.api \in {"forward", "inverse"}
    PROVE  Covered(First) = First /\ Covered(Half) = Half
<1>1. First \in Nat /\ Half \in Nat /\ req \in Requests
  BY RealData
<1>2. Tiled(req) /\ req.api # "complex"
  BY <1>1 DEF RequestsTiled
<1>3. First % Tile = 0 /\ Half % Tile = 0
  BY <1>2 DEF Tiled, First, Half, Second
<1> QED
  BY <1>1, <1>3, TilesCover

\* What holds so many cells holds fewer.
LEMMA HoldsSome ==
    ASSUME NEW arr, NEW m \in Nat, NEW o \in Nat, NEW n \in Nat, o + n <= m,
           DOMAIN arr = 0..(m - 1)
    PROVE  Holds(arr, o, n)
  BY DEF Holds

LEMMA ForwardRowsRight ==
    ASSUME Fits, RequestsAgreed, Executing, req.api = "forward", doing = "rows",
           ArraysOK, ForwardOK, NEW new,
           new = AfterRows(buf, 0, IF pass = 1 THEN Input ELSE out)
    PROVE  /\ DOMAIN new = DOMAIN buf
           /\ pass = 1 => Plain(new, 0, First, Half, {2})
           /\ pass = 2 => Across(new, 0, Half, First, {1, 2})
<1>1. /\ First \in Nat /\ Second \in Nat /\ Half \in Nat /\ Slots = {1, 2}
      /\ First * Second \in Nat /\ First * Half \in Nat /\ Half * First = First * Half
      /\ Plain(Input, 0, First, Second, {})
  BY RealData
<1>2. /\ pass \in {1, 2} /\ Half >= 2 /\ First >= 2 /\ Half <= Second
      /\ First * Half <= First * Second /\ BufCells = First * Second
  BY ForwardShape
<1>3. Holds(buf, 0, First * Half)
  <2> DEFINE m == First * Second
             n == First * Half
  <2>1. m \in Nat /\ n \in Nat /\ 0 + n <= m /\ DOMAIN buf = 0..(m - 1)
    BY <1>1, <1>2 DEF ArraysOK
  <2> HIDE DEF m, n
  <2>2. Holds(buf, 0, n)
    BY <2>1, HoldsSome
  <2> QED
    BY <2>2 DEF n
<1>4. ASSUME pass = 1
      PROVE  DOMAIN new = DOMAIN buf /\ Plain(new, 0, First, Half, {2})
  <2>1. InLength = Second /\ OutLength = Half /\ RowsOf(First) /\ Suits(2, {})
    BY <1>4, ForwardShape
  <2>2. new = AfterRows(buf, 0, Input)
    BY <1>4
  <2>3. /\ DOMAIN AfterRows(buf, 0, Input) = DOMAIN buf
        /\ Plain(AfterRows(buf, 0, Input), 0, First, OutLength, {} \cup {2})
    BY <1>1, <1>2, <1>3, <2>1, PlainRows
  <2>4. {} \cup {2} = {2}
    OBVIOUS
  <2> QED
    BY <2>1, <2>2, <2>3, <2>4
<1>5. ASSUME pass = 2
      PROVE  DOMAIN new = DOMAIN buf /\ Across(new, 0, Half, First, {1, 2})
  <2>1. InLength = First /\ OutLength = First /\ RowsOf(Half) /\ Suits(1, {2})
    BY <1>5, ForwardShape
  <2>2. new = AfterRows(buf, 0, out)
    BY <1>5
  <2>3. Across(out, 0, Half, First, {2})
    BY <1>5 DEF ForwardOK
  <2>4. /\ DOMAIN AfterRows(buf, 0, out) = DOMAIN buf
        /\ Across(AfterRows(buf, 0, out), 0, Half, OutLength, {2} \cup {1})
    BY <1>1, <1>2, <1>3, <2>1, <2>3, AcrossRows
  <2>5. {2} \cup {1} = {1, 2}
    OBVIOUS
  <2> QED
    BY <2>1, <2>2, <2>4, <2>5
<1> QED
  BY <1>2, <1>4, <1>5

LEMMA ForwardTransposed ==
    ASSUME Fits, RequestsAgreed, RequestsTiled, Executing, req.api = "forward",
           doing = "transpose", ArraysOK, ForwardOK, NEW new,
           new = AfterTranspose(out, buf, 0, Rows(pass).out, Rows(pass).count)
    PROVE  /\ DOMAIN new = DOMAIN out
           /\ pass = 1 => Across(new, 0, Half, First, {2})
           /\ pass = 2 => Plain(new, 0, First, Half, {1, 2})
<1>1. /\ First \in Nat /\ Second \in Nat /\ Half \in Nat
      /\ First * Half \in Nat /\ Half * First = First * Half
  BY RealData
<1>2. pass \in {1, 2} /\ OutCells = First * Half
  BY ForwardShape
<1>3. Covered(First) = First /\ Covered(Half) = Half
  BY Halves
<1>4. Holds(out, 0, First * Half) /\ Holds(out, 0, Half * First)
  <2> DEFINE m == First * Half
  <2>1. m \in Nat /\ 0 + m <= m /\ DOMAIN out = 0..(m - 1)
    BY <1>1, <1>2 DEF ArraysOK
  <2> HIDE DEF m
  <2>2. Holds(out, 0, m)
    BY <2>1, HoldsSome
  <2> QED
    BY <1>1, <2>2 DEF m
<1>5. ASSUME pass = 1
      PROVE  DOMAIN new = DOMAIN out /\ Across(new, 0, Half, First, {2})
  <2>1. new = AfterTranspose(out, buf, 0, Half, First)
    BY <1>5, ForwardShape
  <2>2. Plain(buf, 0, First, Half, {2})
    BY <1>5 DEF ForwardOK
  <2> QED
    BY <1>1, <1>3, <1>4, <2>1, <2>2, PlainTransposed
<1>6. ASSUME pass = 2
      PROVE  DOMAIN new = DOMAIN out /\ Plain(new, 0, First, Half, {1, 2})
  <2>1. new = AfterTranspose(out, buf, 0, First, Half)
    BY <1>6, ForwardShape
  <2>2. Across(buf, 0, Half, First, {1, 2})
    BY <1>6 DEF ForwardOK
  <2> QED
    BY <1>1, <1>3, <1>4, <2>1, <2>2, PlainTransposed
<1> QED
  BY <1>2, <1>5, <1>6

LEMMA InverseSteps ==
    ASSUME Fits, RequestsAgreed, RequestsTiled, Executing, req.api = "inverse",
           ArraysOK, InverseOK
    PROVE  /\ pass = 0 => \A new : new = AfterTranspose(buf, Input, 0, Ms[1], Ns[1]) =>
                  DOMAIN new = DOMAIN buf /\ Across(new, 0, Half, First, {})
           /\ doing = "rows" /\ pass = 1 => \A new : new = AfterRows(buf, Product(Ns), buf) =>
                  DOMAIN new = DOMAIN buf /\ Across(new, First * Second, Half, First, {1})
           /\ doing = "transpose" /\ pass = 1 =>
                  \A new : new = AfterTranspose(buf, buf, Product(Ns), Ns[1], Ms[1]) =>
                      DOMAIN new = DOMAIN buf /\ Plain(new, 0, First, Half, {1})
           /\ pass = 2 => \A new : new = AfterRows(out, 0, buf) =>
                  DOMAIN new = DOMAIN out /\ Plain(new, 0, First, Second, {1, 2})
<1>1. /\ First \in Nat /\ Second \in Nat /\ Half \in Nat /\ Slots = {1, 2}
      /\ First * Second \in Nat /\ First * Half \in Nat /\ Half * First = First * Half
      /\ Plain(Input, 0, First, Half, {})
  BY RealData
<1>2. /\ Half >= 2 /\ First >= 2 /\ First * Half <= First * Second
      /\ BufCells = First * Second + First * Half /\ OutCells = First * Second
      /\ Product(Ns) = First * Second /\ Ns[1] = First /\ Ms[1] = Half
      /\ pass = 2 => doing = "rows"
  BY InverseShape
<1>3. Covered(First) = First /\ Covered(Half) = Half
  BY Halves
<1>4. doing # "nothing"
  BY DEF Executing
<1>5. /\ Holds(buf, 0, First * Half) /\ Holds(buf, 0, Half * First)
      /\ Holds(buf, First * Second, Half * First) /\ Holds(out, 0, First * Second)
  <2> DEFINE m == First * Second
             n == First * Half
  <2>1. /\ m \in Nat /\ n \in Nat /\ n <= m /\ Half * First = n
        /\ DOMAIN buf = 0..((m + n) - 1) /\ DOMAIN out = 0..(m - 1)
    BY <1>1, <1>2, <1>4 DEF ArraysOK
  <2> HIDE DEF m, n
  <2>2. m + n \in Nat /\ 0 + n <= m + n /\ m + n <= m + n /\ 0 + m <= m
    BY <2>1
  <2>3. Holds(buf, 0, n) /\ Holds(buf, m, n) /\ Holds(out, 0, m)
    BY <2>1, <2>2, HoldsSome
  <2> QED
    BY <2>1, <2>3 DEF m, n
<1>6. ASSUME pass = 0, NEW new, new = AfterTranspose(buf, Input, 0, Ms[1], Ns[1])
      PROVE  DOMAIN new = DOMAIN buf /\ Across(new, 0, Half, First, {})
  <2>1. new = AfterTranspose(buf, Input, 0, Half, First)
    BY <1>2, <1>6
  <2> QED
    BY <1>1, <1>3, <1>5, <2>1, PlainTransposed
<1>7. ASSUME doing = "rows", pass = 1, NEW new, new = AfterRows(buf, Product(Ns), buf)
      PROVE  DOMAIN new = DOMAIN buf /\ Across(new, First * Second, Half, First, {1})
  <2>1. InLength = First /\ OutLength = First /\ RowsOf(Half) /\ Suits(1, {})
    BY <1>7, InverseShape
  <2> DEFINE o == First * Second
  <2>2. new = AfterRows(buf, o, buf) /\ o \in Nat /\ Holds(buf, o, Half * First)
    BY <1>1, <1>2, <1>5, <1>7
  <2>3. Across(buf, 0, Half, First, {})
    BY <1>7 DEF InverseOK
  <2> HIDE DEF o
  <2>4. /\ DOMAIN AfterRows(buf, o, buf) = DOMAIN buf
        /\ Across(AfterRows(buf, o, buf), o, Half, OutLength, {} \cup {1})
    BY <1>1, <1>2, <2>1, <2>2, <2>3, AcrossRows
  <2>5. {} \cup {1} = {1}
    OBVIOUS
  <2> QED
    BY <2>1, <2>2, <2>4, <2>5 DEF o
<1>8. ASSUME doing = "transpose", pass = 1, NEW new,
             new = AfterTranspose(buf, buf, Product(Ns), Ns[1], Ms[1])
      PROVE  DOMAIN new = DOMAIN buf /\ Plain(new, 0, First, Half, {1})
  <2> DEFINE o == First * Second
  <2>1. new = AfterTranspose(buf, buf, o, First, Half) /\ o \in Nat
    BY <1>1, <1>2, <1>8
  <2>2. Across(buf, o, Half, First, {1})
    BY <1>8 DEF InverseOK
  <2> HIDE DEF o
  <2> QED
    BY <1>1, <1>3, <1>5, <2>1, <2>2, PlainTransposed
<1>9. ASSUME pass = 2, NEW new, new = AfterRows(out, 0, buf)
      PROVE  DOMAIN new = DOMAIN out /\ Plain(new, 0, First, Second, {1, 2})
  <2>1. InLength = Half /\ OutLength = Second /\ RowsOf(First) /\ Suits(2, {1})
    BY <1>9, InverseShape
  <2>2. Plain(buf, 0, First, Half, {1})
    BY <1>2, <1>9 DEF InverseOK
  <2>3. /\ DOMAIN AfterRows(out, 0, buf) = DOMAIN out
        /\ Plain(AfterRows(out, 0, buf), 0, First, OutLength, {1} \cup {2})
    BY <1>1, <1>2, <1>5, <2>1, <2>2, PlainRows
  <2>4. {1} \cup {2} = {1, 2}
    OBVIOUS
  <2> QED
    BY <1>9, <2>1, <2>3, <2>4
<1> QED
  BY <1>6, <1>7, <1>8, <1>9

LEMMA SameArray ==
    ASSUME NEW f, NEW g, NEW n, f = [c \in DOMAIN f |-> f[c]], g = [c \in DOMAIN g |-> g[c]],
           DOMAIN f = 0..(n - 1), DOMAIN g = 0..(n - 1), \A c \in 0..(n - 1) : f[c] = g[c]
    PROVE  f = g
  OBVIOUS

\* An array that is in order all over is the output.
LEMMA OutputReached ==
    ASSUME Fits, RequestsAgreed, NEW new, new = [c \in DOMAIN new |-> new[c]],
           DOMAIN new = 0..(OutCells - 1),
           req.api = "complex" =>
               \A c \in 0..(vol - 1) : new[c] = Turned(rank, c, Last(rank)),
           req.api = "forward" => Plain(new, 0, First, Half, {1, 2}),
           req.api = "inverse" => Plain(new, 0, First, Second, {1, 2})
    PROVE  new = Output
<1>1. Output = [c \in DOMAIN Output |-> Output[c]]
  BY DEF Output, RowMajor
<1>2. req.api \in {"complex", "forward", "inverse"}
  BY RequestRight DEF Fits, IInv, StateOK
<1>3. CASE req.api = "complex"
  <2>1. OutCells = vol /\ vol \in Nat \ {0}
    BY <1>3, ComplexArrays
  <2>2. \A c \in 0..(vol - 1) : Output[c] = Turned(rank, c, Last(rank))
    BY <1>3, OutputTurned
  <2>3. DOMAIN Output = 0..(vol - 1)
    <3>1. 0 \in 0..(vol - 1)
      BY <2>1
    <3> QED
      BY <1>3, <3>1, OutputTurned
  <2> QED
    BY <1>1, <1>3, <2>1, <2>2, <2>3, SameArray
<1>4. ASSUME NEW w \in Nat, Plain(new, 0, First, w, {1, 2}), Plain(Output, 0, First, w, {1, 2}),
             OutCells = First * w, DOMAIN Output = 0..(First * w - 1)
      PROVE  new = Output
  <2> DEFINE n == First * w
  <2>1. \A c \in 0..(n - 1) : new[0 + c] = Output[0 + c]
    BY <1>4 DEF Plain
  <2>2. n \in Nat
    <3>1. First \in Nat
      <4>1. CASE req.api = "complex"
        BY <4>1, ComplexArrays DEF First
      <4>2. CASE req.api # "complex"
        BY <1>2, <4>2, RealData
      <4> QED
        BY <4>1, <4>2
    <3> QED
      BY <3>1, Products
  <2>3. DOMAIN new = 0..(n - 1) /\ DOMAIN Output = 0..(n - 1)
    BY <1>4
  <2> HIDE DEF n
  <2>4. \A c \in 0..(n - 1) : new[c] = Output[c]
    <3>1. \A c \in 0..(n - 1) : 0 + c = c
      BY <2>2
    <3> QED
      BY <2>1, <3>1
  <2> QED
    BY <1>1, <2>3, <2>4, SameArray
<1>5. CASE req.api = "forward"
  <2>1. OutCells = First * Half
    BY <1>5, RealArrays DEF OutCells, OutDims, First, Half, Second
  <2> QED
    BY <1>4, <1>5, <2>1, RealData
<1>6. CASE req.api = "inverse"
  <2>1. OutCells = First * Second
    BY <1>6, RealArrays DEF OutCells, OutDims, First, Second, vol
  <2> QED
    BY <1>4, <1>6, <2>1, RealData
<1> QED
  BY <1>2, <1>3, <1>5, <1>6

\* Executions leave the plan and its request alone.
LEMMA Unmoved ==
    ASSUME vars' = vars
    PROVE  /\ req' = req /\ Slots' = Slots /\ rank' = rank /\ vol' = vol
           /\ First' = First /\ Second' = Second /\ Half' = Half
           /\ BufCells' = BufCells /\ OutCells' = OutCells
           /\ \A k, c, D : Turned(k, c, D)' = Turned(k, c, D)
           /\ \A k : Last(k)' = Last(k)
           /\ Output' = Output
<1>1. req' = req /\ Slots' = Slots /\ rank' = rank /\ vol' = vol
  BY DEF vars, Slots, rank, vol
<1>2. First' = First /\ Second' = Second /\ Half' = Half
  BY <1>1 DEF First, Second, Half
<1>3. BufCells' = BufCells /\ OutCells' = OutCells
  BY <1>1 DEF BufCells, OutCells, OutDims
<1>4. \A k, c, D : Turned(k, c, D)' = Turned(k, c, D)
  BY <1>1 DEF Turned, Origin, Before, After
<1>5. \A k : Last(k)' = Last(k)
  BY <1>1 DEF Last
<1>6. Output' = Output
  BY <1>1 DEF Output, OutDims
<1> QED
  BY <1>1, <1>2, <1>3, <1>4, <1>5, <1>6

\* The data of a complex transform after another step.
LEMMA ComplexNext ==
    ASSUME vars' = vars, req.api = "complex", NEW k,
           doing' = "transpose" =>
               /\ pass' - 1 = k
               /\ \A c \in 0..(vol - 1) : buf'[c] = Turned(k, c, Last(pass')),
           doing' = "rows" =>
               /\ pass' - 1 = k
               /\ \A c \in 0..(vol - 1) : out'[c] = Turned(k, c, Last(k))
    PROVE  ComplexOK'
<1>1. vol' = vol
  BY Unmoved
<1>2. ASSUME doing' = "transpose", NEW c \in 0..(vol - 1)
      PROVE  buf'[c] = Turned(pass - 1, c, Last(pass))'
  <2>1. buf'[c] = Turned(k, c, Last(pass')) /\ pass' - 1 = k
    BY <1>2
  <2> QED
    BY <2>1, Unmoved
<1>3. ASSUME doing' = "rows", NEW c \in 0..(vol - 1)
      PROVE  out'[c] = Turned(pass - 1, c, Last(pass - 1))'
  <2>1. out'[c] = Turned(k, c, Last(k)) /\ pass' - 1 = k
    BY <1>3
  <2> QED
    BY <2>1, Unmoved
<1> QED
  BY <1>1, <1>2, <1>3 DEF ComplexOK

LEMMA LifeStepData ==
    ASSUME LifeStep
    PROVE  DataOK'
  BY DEF LifeStep, Goto, DataOK, ArraysOK, ComplexOK, ForwardOK, InverseOK, TransformRight

LEMMA ExecuteData ==
    ASSUME Fits, DataOK, Execute
    PROVE  DataOK'
<1>1. /\ vars' = vars /\ ~Executing
      /\ buf' = (IF doing = "nothing" THEN JunkArray(BufCells) ELSE buf)
      /\ out' = JunkArray(OutCells)
      /\ IF req.api = "inverse" THEN doing' = "transpose" /\ pass' = 0
         ELSE doing' = "rows" /\ pass' = 1
  BY DEF Execute, Goto
<1>2. ArraysOK'
  <2>1. DOMAIN buf' = 0..(BufCells - 1) /\ DOMAIN out' = 0..(OutCells - 1)
    BY <1>1 DEF DataOK, ArraysOK, JunkArray
  <2> QED
    BY <1>1, <2>1, Unmoved DEF ArraysOK
<1>3. ComplexOK' /\ ForwardOK' /\ InverseOK' /\ TransformRight'
  <2>1. req' = req
    BY <1>1, Unmoved
  <2> QED
    BY <1>1, <2>1 DEF ComplexOK, ForwardOK, InverseOK, TransformRight
<1> QED
  BY <1>2, <1>3 DEF DataOK

LEMMA ThroughRowsData ==
    ASSUME Fits, RequestsAgreed, DataOK, ThroughRows
    PROVE  DataOK'
<1> DEFINE src == IF pass = 1 THEN Input ELSE out
<1>1. /\ req.api # "inverse" /\ doing = "rows" /\ Executing
      /\ doing' = "transpose" /\ pass' = pass /\ vars' = vars /\ out' = out
  BY DEF ThroughRows, Goto, Executing
<1>2. buf' = AfterRows(buf, 0, src)
  BY DEF ThroughRows
<1>3. req.api \in {"complex", "forward"}
  BY <1>1, RequestRight DEF Fits, IInv, StateOK
<1>4. ASSUME req.api = "complex"
      PROVE  /\ DOMAIN buf' = DOMAIN buf
             /\ \A c \in 0..(vol - 1) : buf'[c] = Turned(pass - 1, c, Last(pass))
  <2>1. \A c \in 0..(vol - 1) :
            c \in DOMAIN src /\ src[c] = Turned(pass - 1, c, Last(pass - 1))
    <3>1. CASE pass = 1
      <4>1. \A c \in 0..(vol - 1) : c \in DOMAIN Input /\ Input[c] = Turned(0, c, Last(0))
        BY <1>4, InputTurned
      <4>2. src = Input /\ pass - 1 = 0
        BY <3>1
      <4> HIDE DEF src
      <4> QED
        BY <4>1, <4>2
    <3>2. CASE pass # 1
      <4>1. src = out
        BY <3>2
      <4>2. pass > 1
        <5>1. pass \in Slots
          BY <1>1 DEF Fits, ExecutingOK
        <5>2. Slots = 1..Len(req.dims) /\ rank = Len(req.dims) /\ rank \in Nat
          BY <1>4, ComplexArrays
        <5> QED
          BY <3>2, <5>1, <5>2
      <4>3. \A c \in 0..(vol - 1) : c \in DOMAIN out
        <5>1. OutCells = vol
          BY <1>4, ComplexArrays
        <5> QED
          BY <1>1, <5>1 DEF DataOK, ArraysOK
      <4>4. \A c \in 0..(vol - 1) : out[c] = Turned(pass - 1, c, Last(pass - 1))
        BY <1>1, <1>4, <4>2 DEF DataOK, ComplexOK
      <4> HIDE DEF src
      <4> QED
        BY <4>1, <4>3, <4>4
    <3> QED
      BY <3>1, <3>2
  <2> HIDE DEF src
  <2>2. /\ DOMAIN AfterRows(buf, 0, src) = DOMAIN buf
        /\ \A c \in 0..(vol - 1) : AfterRows(buf, 0, src)[c] = Turned(pass - 1, c, Last(pass))
    BY <1>1, <1>4, <2>1, ComplexRows DEF DataOK
  <2> QED
    BY <1>2, <2>2
<1>5. ASSUME req.api = "forward"
      PROVE  /\ DOMAIN buf' = DOMAIN buf
             /\ pass = 1 => Plain(buf', 0, First, Half, {2})
             /\ pass = 2 => Across(buf', 0, Half, First, {1, 2})
  <2>1. ASSUME NEW new, new = AfterRows(buf, 0, IF pass = 1 THEN Input ELSE out)
        PROVE  /\ DOMAIN new = DOMAIN buf
               /\ pass = 1 => Plain(new, 0, First, Half, {2})
               /\ pass = 2 => Across(new, 0, Half, First, {1, 2})
    BY <1>1, <1>5, <2>1, ForwardRowsRight DEF DataOK
  <2> QED
    BY <1>2, <2>1
<1> HIDE DEF src
<1>6. ArraysOK'
  <2>1. DOMAIN buf' = 0..(BufCells - 1) /\ DOMAIN out' = 0..(OutCells - 1)
    BY <1>1, <1>3, <1>4, <1>5 DEF DataOK, ArraysOK
  <2> QED
    BY <2>1, <1>1, Unmoved DEF ArraysOK
<1>7. ComplexOK'
  <2>1. req' = req
    BY <1>1, Unmoved
  <2>2. CASE req.api = "complex"
    BY <1>1, <1>4, <2>2, ComplexNext
  <2> QED
    BY <2>1, <2>2 DEF ComplexOK
<1>8. ForwardOK'
  BY <1>1, <1>5, Unmoved DEF ForwardOK
<1>9. InverseOK' /\ TransformRight'
  BY <1>1, Unmoved DEF InverseOK, TransformRight
<1> QED
  BY <1>6, <1>7, <1>8, <1>9 DEF DataOK

LEMMA TransposeBackData ==
    ASSUME Fits, RequestsAgreed, RequestsTiled, DataOK, TransposeBack
    PROVE  DataOK'
<1>1. /\ req.api # "inverse" /\ doing = "transpose" /\ Executing
      /\ vars' = vars /\ buf' = buf
      /\ out' = AfterTranspose(out, buf, 0, Rows(pass).out, Rows(pass).count)
      /\ IF pass = rank THEN doing' = "done" /\ pass' = pass
         ELSE doing' = "rows" /\ pass' = pass + 1
  BY DEF TransposeBack, Goto, Executing
<1>2. req.api \in {"complex", "forward"} /\ pass \in Slots
  BY <1>1, RequestRight DEF Fits, IInv, StateOK, ExecutingOK
<1>3. ASSUME req.api = "complex"
      PROVE  /\ DOMAIN out' = DOMAIN out
             /\ \A c \in 0..(vol - 1) : out'[c] = Turned(pass, c, Last(pass))
  <2>1. ASSUME NEW new, new = AfterTranspose(out, buf, 0, Rows(pass).out, Rows(pass).count)
        PROVE  /\ DOMAIN new = DOMAIN out
               /\ \A c \in 0..(vol - 1) : new[c] = Turned(pass, c, Last(pass))
    BY <1>1, <1>3, <2>1, ComplexTransposed DEF DataOK
  <2> QED
    BY <1>1, <2>1
<1>4. ASSUME req.api = "forward"
      PROVE  /\ DOMAIN out' = DOMAIN out
             /\ pass = 1 => Across(out', 0, Half, First, {2})
             /\ pass = 2 => Plain(out', 0, First, Half, {1, 2})
             /\ rank = 2 /\ pass \in {1, 2}
  <2>1. ASSUME NEW new, new = AfterTranspose(out, buf, 0, Rows(pass).out, Rows(pass).count)
        PROVE  /\ DOMAIN new = DOMAIN out
               /\ pass = 1 => Across(new, 0, Half, First, {2})
               /\ pass = 2 => Plain(new, 0, First, Half, {1, 2})
    BY <1>1, <1>4, <2>1, ForwardTransposed DEF DataOK
  <2> QED
    BY <1>1, <1>2, <1>4, <2>1, RealData
<1>5. ArraysOK'
  <2>1. DOMAIN buf' = 0..(BufCells - 1) /\ DOMAIN out' = 0..(OutCells - 1)
    BY <1>1, <1>2, <1>3, <1>4 DEF DataOK, ArraysOK
  <2> QED
    BY <2>1, <1>1, Unmoved DEF ArraysOK
<1>6. ComplexOK'
  <2>1. req' = req
    BY <1>1, Unmoved
  <2>2. CASE req.api = "complex"
    <3>1. pass \in Nat
      BY <1>2, <2>2, ComplexArrays
    <3>2. doing' # "transpose" /\ (doing' = "rows" => pass' - 1 = pass)
      BY <1>1, <3>1
    <3> QED
      BY <1>1, <1>3, <2>2, <3>2, ComplexNext
  <2> QED
    BY <2>1, <2>2 DEF ComplexOK
<1>7. ForwardOK'
  BY <1>1, <1>4, Unmoved DEF ForwardOK
<1>8. InverseOK'
  BY <1>1, Unmoved DEF InverseOK
<1>9. TransformRight'
  <2> SUFFICES ASSUME pass = rank PROVE out' = Output'
    BY <1>1 DEF TransformRight
  <2>1. out' = [c \in DOMAIN out' |-> out'[c]]
    BY <1>1 DEF AfterTranspose
  <2>2. DOMAIN out' = 0..(OutCells - 1)
    BY <1>1, <1>2, <1>3, <1>4 DEF DataOK, ArraysOK
  <2>3. ASSUME NEW new, new = out' PROVE new = Output
    BY <1>1, <1>3, <1>4, <2>1, <2>2, <2>3, OutputReached
  <2> QED
    BY <1>1, <2>3, Unmoved
<1> QED
  BY <1>5, <1>6, <1>7, <1>8, <1>9 DEF DataOK

LEMMA InverseData ==
    ASSUME Fits, RequestsAgreed, RequestsTiled, DataOK,
           InverseIn \/ InverseColumns \/ InverseBack \/ InverseRows
    PROVE  DataOK'
<1>1. /\ req.api = "inverse" /\ Executing /\ vars' = vars /\ req' = req
      /\ ArraysOK /\ InverseOK /\ doing # "nothing"
  BY Unmoved DEF InverseIn, InverseColumns, InverseBack, InverseRows, Executing, DataOK
<1>2. ComplexOK' /\ ForwardOK'
  BY <1>1 DEF ComplexOK, ForwardOK
<1>3. ASSUME DOMAIN buf' = DOMAIN buf, DOMAIN out' = DOMAIN out
      PROVE  ArraysOK'
  <2>1. DOMAIN buf' = 0..(BufCells - 1) /\ DOMAIN out' = 0..(OutCells - 1)
    BY <1>1, <1>3 DEF ArraysOK
  <2> QED
    BY <1>1, <2>1, Unmoved DEF ArraysOK
<1>4. CASE InverseIn
  <2>1. /\ pass = 0 /\ doing' = "rows" /\ pass' = 1 /\ out' = out
        /\ buf' = AfterTranspose(buf, Input, 0, Ms[1], Ns[1])
    BY <1>4 DEF InverseIn, Goto
  <2>2. DOMAIN buf' = DOMAIN buf /\ Across(buf', 0, Half, First, {})
    BY <1>1, <2>1, InverseSteps
  <2>3. InverseOK' /\ TransformRight'
    BY <1>1, <2>1, <2>2, Unmoved DEF InverseOK, TransformRight
  <2> QED
    BY <1>2, <1>3, <2>1, <2>2, <2>3 DEF DataOK
<1>5. CASE InverseColumns
  <2>1. /\ pass = 1 /\ doing = "rows" /\ doing' = "transpose" /\ pass' = 1 /\ out' = out
        /\ buf' = AfterRows(buf, Product(Ns), buf)
    BY <1>5 DEF InverseColumns, Goto
  <2>2. DOMAIN buf' = DOMAIN buf /\ Across(buf', First * Second, Half, First, {1})
    BY <1>1, <2>1, InverseSteps
  <2>3. InverseOK' /\ TransformRight'
    BY <1>1, <2>1, <2>2, Unmoved DEF InverseOK, TransformRight
  <2> QED
    BY <1>2, <1>3, <2>1, <2>2, <2>3 DEF DataOK
<1>6. CASE InverseBack
  <2>1. /\ pass = 1 /\ doing = "transpose" /\ doing' = "rows" /\ pass' = 2 /\ out' = out
        /\ buf' = AfterTranspose(buf, buf, Product(Ns), Ns[1], Ms[1])
    BY <1>6 DEF InverseBack, Goto
  <2>2. DOMAIN buf' = DOMAIN buf /\ Plain(buf', 0, First, Half, {1})
    BY <1>1, <2>1, InverseSteps
  <2>3. InverseOK' /\ TransformRight'
    BY <1>1, <2>1, <2>2, Unmoved DEF InverseOK, TransformRight
  <2> QED
    BY <1>2, <1>3, <2>1, <2>2, <2>3 DEF DataOK
<1>7. CASE InverseRows
  <2>1. /\ pass = 2 /\ doing' = "done" /\ pass' = 2 /\ buf' = buf
        /\ out' = AfterRows(out, 0, buf)
    BY <1>7 DEF InverseRows, Goto
  <2>2. DOMAIN out' = DOMAIN out /\ Plain(out', 0, First, Second, {1, 2})
    BY <1>1, <2>1, InverseSteps
  <2>3. out' = [c \in DOMAIN out' |-> out'[c]]
    BY <2>1 DEF AfterRows
  <2>4. DOMAIN out' = 0..(OutCells - 1)
    BY <1>1, <2>2 DEF ArraysOK
  <2>5. ASSUME NEW new, new = out' PROVE new = Output
    BY <1>1, <2>2, <2>3, <2>4, <2>5, OutputReached
  <2>6. InverseOK' /\ TransformRight'
    BY <1>1, <2>1, <2>5, Unmoved DEF InverseOK, TransformRight
  <2> QED
    BY <1>2, <1>3, <2>1, <2>2, <2>6 DEF DataOK
<1> QED
  BY <1>4, <1>5, <1>6, <1>7

LEMMA StutterData ==
    ASSUME DataOK, UNCHANGED <<vars, execution>>
    PROVE  DataOK'
<1>1. vars' = vars /\ doing' = doing /\ pass' = pass /\ buf' = buf /\ out' = out
  BY DEF execution
<1>2. ArraysOK' /\ ForwardOK' /\ InverseOK' /\ TransformRight'
  BY <1>1, Unmoved DEF DataOK, ArraysOK, ForwardOK, InverseOK, TransformRight
<1>3. ComplexOK'
  BY <1>1, Unmoved DEF DataOK, ComplexOK
<1> QED
  BY <1>2, <1>3 DEF DataOK

LEMMA DataStep ==
    ASSUME Fits, RequestsAgreed, RequestsTiled, DataOK, [NdNext]_<<vars, execution>>
    PROVE  DataOK'
  BY LifeStepData, ExecuteData, ThroughRowsData, TransposeBackData, InverseData, StutterData
     DEF NdNext

\* Whoever executes a plan finds the transform of the data in the output, along each
\* dimension once and in row-major order (ffts.h:72-74, ffts.h:88-89), the first time and
\* ever after, for complex transforms of any rank and lengths and real ones of rank 2: the
\* passes of ffts_execute_nd turn the data by one dimension each, and those of
\* ffts_execute_nd_real and _inv turn it over and back, with N/2+1 cells in its rows on
\* one side.  Where ffts_transpose moves blocks of eight, this takes lengths they cover.
THEOREM AlwaysTransformsRight ==
    RequestsAgreed /\ RequestsTiled => (NdSpec => []TransformRight)
<1> SUFFICES ASSUME RequestsAgreed, RequestsTiled PROVE NdSpec => []TransformRight
  OBVIOUS
<1>1. NdInit => FittedOK /\ ExecutingOK /\ DataOK
  BY DEF NdInit, Init, FittedOK, ExecutingOK, Executing, DataOK, ArraysOK, ComplexOK,
         ForwardOK, InverseOK, TransformRight
<1>2. IInv /\ Typed /\ FittedOK /\ ExecutingOK /\ DataOK /\ [NdNext]_<<vars, execution>> =>
          FittedOK' /\ ExecutingOK' /\ DataOK'
  <2> SUFFICES ASSUME IInv, Typed, FittedOK, ExecutingOK, DataOK,
                      [NdNext]_<<vars, execution>>
               PROVE  FittedOK' /\ ExecutingOK' /\ DataOK'
    OBVIOUS
  <2>1. FittedOK' /\ ExecutingOK'
    BY LifeOrNothing, FittedStep, ExecutingStep
  <2>2. DataOK'
    BY DataStep DEF Fits
  <2> QED
    BY <2>1, <2>2
<1>3. NdInit => Typed
  BY InitTyped DEF NdInit
<1>4. Typed /\ IInv /\ [NdNext]_<<vars, execution>> => Typed'
  BY LifeOrNothing, StepTyped DEF IInv
<1>5. DataOK => TransformRight
  BY DEF DataOK
<1> QED
  BY <1>1, <1>2, <1>3, <1>4, <1>5, Inductive, PTL DEF NdSpec

==============================================================================
