-------------------------------- MODULE PlanNd --------------------------------
(***************************************************************************)
(* The life of multi-dimensional plans: ffts_init_nd and ffts_free_nd      *)
(* (ffts_nd.c), ffts_init_nd_real and ffts_free_nd_real (ffts_real_nd.c).  *)
(*                                                                         *)
(* A plan of rank r keeps r nested one-dimensional plans, made by          *)
(* ffts_init_1d and ffts_init_1d_real.  Dimensions of the same length share*)
(* one nested plan, and nothing but the lengths kept in the plan tells the *)
(* destroy function which slots are shared.                                *)
(*                                                                         *)
(* ffts_init_1d, ffts_init_1d_real and ffts_free are taken as what PlanApi *)
(* says of them: all or nothing.  A nested plan is named by the slot it was*)
(* made for, and the slots are numbered from 1.  ffts_init_nd without      *)
(* lengths returns at once, with one length it calls ffts_init_1d: neither *)
(* makes a multi-dimensional plan.                                         *)
(***************************************************************************)
EXTENDS Naturals, Sequences

CONSTANTS
    Requests,       \* the calls clients make: records as in RequestType
    NestedMayFail   \* kinds of request whose nested inits may run out of memory

RequestType(r) ==
    /\ r.api \in {"complex", "forward", "inverse"}
    /\ r.dims \in Seq(Nat \ {0}) /\ Len(r.dims) >= 1
    /\ r.api = "complex" => Len(r.dims) >= 2

ASSUME RequestsAssumption == \A r \in Requests : RequestType(r)
ASSUME NestedMayFailAssumption ==
    NestedMayFail \subseteq {"complex", "forward", "inverse"}

NoSlot == 0     \* a NULL entry of p->plans

\* The blocks of the plan itself, in the order init allocates them.
AllocSteps == <<"self", "Ms", "Ns", "buf", "plans">>

VARIABLES
    req,        \* the call being served
    phase,      \* where it stands
    at,         \* index of the allocation, or of the slot, it is at
    mem,        \* blocks of the plan that are allocated
    Ns, Ms,     \* p->Ns, p->Ms
    plans,      \* plans[i]: the nested plan in slot i
    made,       \* made[s]: kind and length of the nested plan made for slot s
    live        \* nested plans that are allocated

vars == <<req, phase, at, mem, Ns, Ms, plans, made, live>>

Phases == {"idle", "alloc", "nest", "held", "destroy"}
rank == Len(req.dims)
Slots == 1..rank

Product(s) ==
    LET upTo[n \in 0..Len(s)] == IF n = 0 THEN 1 ELSE upTo[n - 1] * s[n]
    IN upTo[Len(s)]
vol == Product(req.dims)

\* The last index of each phase.
LastIndex(f) ==
    IF f = "alloc" THEN Len(AllocSteps)
    ELSE IF f = "nest" THEN rank
    ELSE IF f = "destroy" THEN rank + 1 ELSE 1

TypeOK ==
    /\ req \in Requests
    /\ phase \in Phases
    /\ at \in 1..LastIndex(phase)
    /\ mem \subseteq {"self", "Ms", "Ns", "buf", "plans"}
    /\ Ns \in [Slots -> Nat]
    /\ Ms \in [Slots -> Nat]
    /\ plans \in [Slots -> Slots \cup {NoSlot}]
    /\ made \in [Slots -> ({"complex", "real"} \X Nat) \cup {<<>>}]
    /\ live \subseteq Slots

Init ==
    /\ req \in Requests
    /\ phase = "idle"
    /\ at = 1
    /\ mem = {}
    /\ Ns = [i \in Slots |-> 0]
    /\ Ms = [i \in Slots |-> 0]
    /\ plans = [i \in Slots |-> NoSlot]
    /\ made = [i \in Slots |-> <<>>]
    /\ live = {}

\* A client calls; calloc will leave every slot NULL.
Request(r) ==
    /\ phase = "idle"
    /\ req' = r
    /\ phase' = "alloc"
    /\ at' = 1
    /\ Ns' = [i \in 1..Len(r.dims) |-> 0]
    /\ Ms' = [i \in 1..Len(r.dims) |-> 0]
    /\ plans' = [i \in 1..Len(r.dims) |-> NoSlot]
    /\ made' = [i \in 1..Len(r.dims) |-> <<>>]
    /\ UNCHANGED <<mem, live>>

-----------------------------------------------------------------------------
(* Init: the blocks of the plan.                                           *)

\* The order is not reversed.
Lengths_asGiven(r) == r.dims

\* ffts_init_nd stores the lengths in reverse order, ffts_init_nd_real as given.
Lengths(r) ==
    [i \in 1..Len(r.dims) |->
        IF r.api = "complex" THEN r.dims[Len(r.dims) - i + 1] ELSE r.dims[i]]

Allocate ==
    /\ phase = "alloc"
    /\ at <= Len(AllocSteps)
    /\ mem' = mem \cup {AllocSteps[at]}
    /\ Ns' = IF AllocSteps[at] = "Ns" THEN Lengths(req) ELSE Ns
    /\ IF at = Len(AllocSteps)
       THEN phase' = "nest" /\ at' = 1
       ELSE at' = at + 1 /\ UNCHANGED phase
    /\ UNCHANGED <<req, Ms, plans, made, live>>

\* goto cleanup; there is nothing to clean up when it is the struct that failed.
AllocateFails ==
    /\ phase = "alloc"
    /\ at <= Len(AllocSteps)
    /\ phase' = IF AllocSteps[at] = "self" THEN "idle" ELSE "destroy"
    /\ at' = 1
    /\ UNCHANGED <<req, mem, Ns, Ms, plans, made, live>>

-----------------------------------------------------------------------------
(* Init: the nested plans.                                                 *)

\* The slots before i that init looks at to find a plan for the same length.
Candidates(i) ==
    IF req.api = "forward"
    THEN {j \in Slots : 2 <= j /\ j < i /\ Ms[j] = vol \div Ns[i]}
    ELSE {j \in Slots : j < i /\ Ns[j] = Ns[i] /\ (req.api = "inverse" => i # rank)}

MinOf(S) == CHOOSE j \in S : \A k \in S : j <= k

\* The one it takes: the first.
SharedPlan(i) ==
    IF Candidates(i) = {} THEN NoSlot ELSE plans[MinOf(Candidates(i))]

\* The first dimension of a real forward transform and the last of an inverse
\* one are made by ffts_init_1d_real.
NestedKind(i) ==
    IF (req.api = "forward" /\ i = 1) \/ (req.api = "inverse" /\ i = rank)
    THEN "real" ELSE "complex"

NestedLength(i) == IF req.api = "forward" THEN vol \div Ns[i] ELSE Ns[i]

\* ffts_init_1d refuses lengths below 2, and ffts_init_1d_real(N) asks it for N/2.
Accepted(k, n) == IF k = "real" THEN n \div 2 >= 2 ELSE n >= 2

\* After making a complex plan the real inits narrow the other length of the slot
\* to the N/2+1 outputs a real transform has.
NarrowNs(i) ==
    IF req.api = "forward" /\ NestedKind(i) = "complex"
    THEN [Ns EXCEPT ![i] = @ \div 2 + 1] ELSE Ns

NarrowMs(i) ==
    IF req.api = "inverse" /\ NestedKind(i) = "complex"
    THEN [Ms EXCEPT ![i] = (vol \div Ns[i]) \div 2 + 1]
    ELSE [Ms EXCEPT ![i] = vol \div Ns[i]]

\* The index is not reset for the caller.
NextSlot_noReset ==
    /\ at' = at + 1
    /\ IF at = rank THEN phase' = "held" ELSE UNCHANGED phase

NextSlot ==
    IF at = rank
    THEN phase' = "held" /\ at' = 1
    ELSE at' = at + 1 /\ UNCHANGED phase

InLoop == phase = "nest" /\ at \in Slots

Share ==
    /\ InLoop
    /\ SharedPlan(at) # NoSlot
    /\ plans' = [plans EXCEPT ![at] = SharedPlan(at)]
    /\ Ms' = [Ms EXCEPT ![at] = vol \div Ns[at]]
    /\ NextSlot
    /\ UNCHANGED <<req, mem, Ns, made, live>>

Make ==
    /\ InLoop
    /\ SharedPlan(at) = NoSlot
    /\ Accepted(NestedKind(at), NestedLength(at))
    /\ plans' = [plans EXCEPT ![at] = at]
    /\ made' = [made EXCEPT ![at] = <<NestedKind(at), NestedLength(at)>>]
    /\ live' = live \cup {at}
    /\ Ns' = NarrowNs(at)
    /\ Ms' = NarrowMs(at)
    /\ NextSlot
    /\ UNCHANGED <<req, mem>>

Refused ==
    \/ ~Accepted(NestedKind(at), NestedLength(at))
    \/ req.api \in NestedMayFail

\* The array of slots is tested by ffts_init_nd_real as well.
MakeFails_arrayTested ==
    /\ InLoop
    /\ SharedPlan(at) = NoSlot
    /\ Refused
    /\ Ns' = NarrowNs(at)
    /\ Ms' = NarrowMs(at)
    /\ NextSlot
    /\ UNCHANGED <<req, mem, plans, made, live>>

\* The nested init returns NULL.  ffts_init_nd tests p->plans, which is not NULL,
\* and goes on; ffts_init_nd_real tests p->plans[i].
MakeFails ==
    /\ InLoop
    /\ SharedPlan(at) = NoSlot
    /\ Refused
    /\ Ns' = NarrowNs(at)
    /\ Ms' = NarrowMs(at)
    /\ IF req.api = "complex"
       THEN NextSlot
       ELSE phase' = "destroy" /\ at' = 1
    /\ UNCHANGED <<req, mem, plans, made, live>>

-----------------------------------------------------------------------------
(* Destroy: ffts_free on a held plan, and the cleanup labels.              *)

Free ==
    /\ phase = "held"
    /\ phase' = "destroy"
    /\ at' = 1
    /\ UNCHANGED <<req, mem, Ns, Ms, plans, made, live>>

\* No slot is compared: every slot with a plan frees it.
Owns_noCompare(i) == plans[i] # NoSlot

\* A slot is compared with the next ones too, itself included.
Owns_offByOne(i) == plans[i] # NoSlot /\ \A j \in Slots : j <= i => Ns[i] # Ns[j]

\* The slot whose turn it is to free its plan: no earlier one has the same length.
Owns(i) == plans[i] # NoSlot /\ \A j \in Slots : j < i => Ns[i] # Ns[j]

InDestroyLoop == phase = "destroy" /\ "plans" \in mem /\ at \in Slots

ReleaseSlot ==
    /\ InDestroyLoop
    /\ Owns(at) => plans[at] \in live
    /\ live' = IF Owns(at) THEN live \ {plans[at]} ELSE live
    /\ at' = at + 1
    /\ UNCHANGED <<req, phase, mem, Ns, Ms, plans, made>>

\* free(p->plans), p->Ns, p->Ms, p->buf and p, as far as they were allocated.
ReleaseBlocks ==
    /\ phase = "destroy"
    /\ "plans" \notin mem \/ at > rank
    /\ mem' = {}
    /\ phase' = "idle"
    /\ at' = 1
    /\ UNCHANGED <<req, Ns, Ms, plans, made, live>>

-----------------------------------------------------------------------------
Next ==
    \/ \E r \in Requests : Request(r)
    \/ Allocate
    \/ AllocateFails
    \/ Share
    \/ Make
    \/ MakeFails
    \/ Free
    \/ ReleaseSlot
    \/ ReleaseBlocks

Spec == Init /\ [][Next]_vars

-----------------------------------------------------------------------------
(* Properties.                                                             *)

\* The destroy functions free no nested plan twice, though slots share plans and
\* the lengths they compare may have been changed since (ffts_real_nd.c:228, 244).
NoDoubleFree ==
    InDestroyLoop /\ Owns(at) => plans[at] \in live

\* When no plan is there, nothing is allocated: each nested plan was freed, by the
\* destroy function of a failed init as by ffts_free.
NoLeak ==
    phase = "idle" => mem = {} /\ live = {}

\* A plan an init returned has a nested plan, still allocated, in every slot.
Complete ==
    phase = "held" => \A i \in Slots : plans[i] \in live
==============================================================================
