------------------------------- MODULE PlanLife -------------------------------
(***************************************************************************)
(* The life of one-dimensional plans: ffts_init_1d (ffts.c), with          *)
(* ffts_generate_luts and ffts_init_offsets / ffts_init_is behind it,      *)
(* ffts_chirp_z_init (ffts_chirp_z.c), ffts_init_1d_real (ffts_real.c),    *)
(* the three destroy functions and ffts_free.                              *)
(*                                                                         *)
(* An init function is a sequence of steps; each allocates one block and   *)
(* stores it in the plan, calls something that needs the blocks stored so  *)
(* far, or makes the nested plan plans[0] by calling ffts_init_1d.  A step *)
(* that fails where the code tests for it jumps to the cleanup label, which*)
(* runs the destroy function on whatever has been stored.                  *)
(*                                                                         *)
(* Every handle advances on its own: a client may have one plan half made  *)
(* or half freed while another call runs.  The library keeps no state      *)
(* outside the plans, so calls on different plans share only the memory    *)
(* that is left for plan structs.                                          *)
(***************************************************************************)
EXTENDS Naturals, Sequences

CONSTANTS
    Handles,        \* memory for plan structs
    NoPlan,         \* a NULL plan pointer, and the caller of a client's plan
    Kinds,          \* the kinds of plan this build makes
    MayFail,        \* <<kind, step>> pairs that can fail
    PosixMmap       \* TRUE: mmap, whose failure value is not NULL

AllKinds == {"small", "static", "dynamic", "chirp_z", "real"}

\* Steps that store a block in the plan struct, the struct itself included.
Blocks == {"self", "ws", "ws_is", "offsets", "is", "transform_base",
           "A", "B", "buf"}

\* Steps that call a function and keep nothing.
Calls == {"luts", "codegen", "allow_execute", "flush", "chirp", "table"}

Steps == Blocks \cup Calls \cup {"plan0"}

ASSUME KindsAssumption == Kinds \subseteq AllKinds
ASSUME NoPlanAssumption == NoPlan \notin Handles
ASSUME MayFailAssumption == MayFail \subseteq AllKinds \X Steps
ASSUME PosixMmapAssumption == PosixMmap \in BOOLEAN

-----------------------------------------------------------------------------
(* The order of work in the init and destroy functions.                    *)

\* Code that is never made executable.
InitSteps_noAllow == [
    small   |-> <<"self">>,
    static  |-> <<"self", "ws", "ws_is", "luts", "offsets", "is">>,
    dynamic |-> <<"self", "ws", "ws_is", "luts", "offsets", "is",
                  "transform_base", "codegen", "flush">>,
    chirp_z |-> <<"self", "plan0", "A", "B", "buf", "chirp">>,
    real    |-> <<"self", "plan0", "buf", "A", "B", "table">> ]

\* Tables filled before the memory of one of them is there.
InitSteps_early == [
    small   |-> <<"self">>,
    static  |-> <<"self", "ws", "luts", "ws_is", "offsets", "is">>,
    dynamic |-> <<"self", "ws", "luts", "ws_is", "offsets", "is",
                  "transform_base", "codegen", "allow_execute", "flush">>,
    chirp_z |-> <<"self", "plan0", "A", "B", "chirp", "buf">>,
    real    |-> <<"self", "plan0", "buf", "A", "table", "B">> ]

InitSteps == [
    small   |-> <<"self">>,
    static  |-> <<"self", "ws", "ws_is", "luts", "offsets", "is">>,
    dynamic |-> <<"self", "ws", "ws_is", "luts", "offsets", "is",
                  "transform_base", "codegen", "allow_execute", "flush">>,
    chirp_z |-> <<"self", "plan0", "A", "B", "buf", "chirp">>,
    real    |-> <<"self", "plan0", "buf", "A", "B", "table">> ]

\* A nested plan that is never freed.
DestroySteps_keepNested == [
    small   |-> <<"transform_base", "ws_is", "ws", "is", "offsets", "self">>,
    static  |-> <<"transform_base", "ws_is", "ws", "is", "offsets", "self">>,
    dynamic |-> <<"transform_base", "ws_is", "ws", "is", "offsets", "self">>,
    chirp_z |-> <<"B", "A", "buf", "self">>,
    real    |-> <<"B", "A", "buf", "self">> ]

\* A table that is released twice, and one that is forgotten.
DestroySteps_twice == [
    small   |-> <<"transform_base", "ws_is", "ws", "is", "is", "self">>,
    static  |-> <<"transform_base", "ws_is", "ws", "is", "is", "self">>,
    dynamic |-> <<"transform_base", "ws_is", "ws", "is", "is", "self">>,
    chirp_z |-> <<"B", "A", "buf", "plan0", "self">>,
    real    |-> <<"B", "A", "buf", "plan0", "self">> ]

DestroySteps == [
    small   |-> <<"transform_base", "ws_is", "ws", "is", "offsets", "self">>,
    static  |-> <<"transform_base", "ws_is", "ws", "is", "offsets", "self">>,
    dynamic |-> <<"transform_base", "ws_is", "ws", "is", "offsets", "self">>,
    chirp_z |-> <<"B", "A", "buf", "plan0", "self">>,
    real    |-> <<"B", "A", "buf", "plan0", "self">> ]

\* What a call dereferences: it faults when one of these is missing.
Uses == [
    luts          |-> {"ws", "ws_is"},
    codegen       |-> {"transform_base", "ws_is"},
    allow_execute |-> {},
    flush         |-> {},
    chirp         |-> {"A", "B", "buf"},
    table         |-> {"A", "B"} ]

\* What the plan's transform function dereferences.
TransformUses == [
    small   |-> {},
    static  |-> {"ws", "ws_is", "offsets", "is"},
    dynamic |-> {"ws", "offsets", "is", "transform_base"},
    chirp_z |-> {"A", "B", "buf"},
    real    |-> {"A", "B", "buf"} ]

\* The blocks that a step fills with what executions read; the other blocks are
\* scratch memory.
FilledBy(s) ==
    CASE s \in {"offsets", "is"} -> {s}
      [] s = "luts" -> {"ws", "ws_is"}
      [] s = "codegen" -> {"transform_base"}
      [] s \in {"chirp", "table"} -> {"A", "B"}
      [] OTHER -> {}

\* Kinds that ffts_init_1d can choose for plans[0]: chirp_z asks for a power of
\* two of at least 8, real for N/2, which is any size.
NestedKinds(k) ==
    IF k = "chirp_z" THEN Kinds \ {"chirp_z", "real"} ELSE Kinds \ {"real"}

\* Steps whose failure the code does not test for: the scratch buffers of
\* ffts_generate_luts, the convolution buffer of ffts_chirp_z_init, the -1 that
\* ffts_generate_chirp_32f returns when it gets no memory for its table, and a
\* mmap that returns MAP_FAILED where the test is for NULL.
Unchecked ==
    {<<"static", "luts">>, <<"dynamic", "luts">>,
     <<"chirp_z", "buf">>, <<"chirp_z", "chirp">>} \cup
    (IF PosixMmap THEN {<<"dynamic", "transform_base">>} ELSE {})

\* Steps whose failure the code tests for; the scratch list of
\* ffts_init_offsets and that of the code generator fail with their step.
Checked ==
    ( {<<k, "self">> : k \in AllKinds} \cup
      ({"static", "dynamic"} \X {"ws", "ws_is", "offsets", "is"}) \cup
      ({"dynamic"} \X {"transform_base", "codegen", "allow_execute", "flush"}) \cup
      {<<"chirp_z", "A">>, <<"chirp_z", "B">>} \cup
      ({"real"} \X {"buf", "A", "B"}) )  \  Unchecked

\* Nothing fails but what the code tests for.
FailuresTested == MayFail \cap Unchecked = {}

-----------------------------------------------------------------------------
VARIABLES
    phase,      \* phase[h]: where the life of plan h stands
    kind,       \* kind[h]: what it is
    at,         \* at[h]: index of the current step of init or destroy
    ptr,        \* ptr[h]: members of the plan struct that were given memory
    mem,        \* mem[h]: blocks of h that are allocated
    full,       \* full[h]: members of h whose memory was filled
    sub,        \* sub[h]: plans[0]
    boss,       \* boss[h]: the plan whose init or destroy called for h
    code        \* code[h]: state of the pages at transform_base

vars == <<phase, kind, at, ptr, mem, full, sub, boss, code>>

Phases == {"absent", "init", "held", "cleanup", "free", "crashed"}
Active == {"init", "cleanup", "free"}
\* "failed": transform_base is MAP_FAILED.
CodeStates == {"none", "failed", "writable", "executable", "flushed"}

TypeOK ==
    /\ phase \in [Handles -> Phases]
    /\ kind \in [Handles -> AllKinds]
    /\ at \in [Handles -> Nat \ {0}]
    /\ ptr \in [Handles -> SUBSET Blocks]
    /\ mem \in [Handles -> SUBSET Blocks]
    /\ full \in [Handles -> SUBSET Blocks]
    /\ sub \in [Handles -> Handles \cup {NoPlan}]
    /\ boss \in [Handles -> Handles \cup {NoPlan}]
    /\ code \in [Handles -> CodeStates]

Init ==
    /\ phase = [h \in Handles |-> "absent"]
    /\ kind = [h \in Handles |-> "small"]
    /\ at = [h \in Handles |-> 1]
    /\ ptr = [h \in Handles |-> {}]
    /\ mem = [h \in Handles |-> {}]
    /\ full = [h \in Handles |-> {}]
    /\ sub = [h \in Handles |-> NoPlan]
    /\ boss = [h \in Handles |-> NoPlan]
    /\ code = [h \in Handles |-> "none"]

\* The thread working on h is inside a call it made for h's nested plan (and
\* stays there when that call crashes).
Blocked(h) == \E g \in Handles : boss[g] = h /\ phase[g] \in Active \cup {"crashed"}

InitStep(h) == InitSteps[kind[h]][at[h]]
DestroyStep(h) == DestroySteps[kind[h]][at[h]]

AtInit(h) ==
    /\ phase[h] = "init"
    /\ at[h] <= Len(InitSteps[kind[h]])
    /\ ~Blocked(h)

AtDestroy(h) ==
    /\ phase[h] \in {"cleanup", "free"}
    /\ at[h] <= Len(DestroySteps[kind[h]])
    /\ ~Blocked(h)

-----------------------------------------------------------------------------
(* Entering and leaving the init functions.                                *)

\* The fields of a struct that calloc has yet to clear are those of the NULL plan.
Enter(h, k, b) ==
    /\ phase[h] = "absent"
    /\ kind' = [kind EXCEPT ![h] = k]
    /\ at' = [at EXCEPT ![h] = 1]
    /\ boss' = [boss EXCEPT ![h] = b]
    /\ phase' = [phase EXCEPT ![h] = "init"]
    /\ UNCHANGED <<ptr, mem, full, sub, code>>

\* The struct of h is gone, and with it what it was.
Forget(h) ==
    /\ kind' = [kind EXCEPT ![h] = "small"]
    /\ boss' = [boss EXCEPT ![h] = NoPlan]
    /\ full' = [full EXCEPT ![h] = {}]

\* A client calls ffts_init_1d or ffts_init_1d_real.
ClientInit(h, k) == Enter(h, k, NoPlan)

\* The init of h calls ffts_init_1d for plans[0].
NestedInit(h, g, k) ==
    /\ AtInit(h)
    /\ InitStep(h) = "plan0"
    /\ k \in NestedKinds(kind[h])
    /\ Enter(g, k, h)

\* The destroy function starts before its first step.
ToCleanup_zero(h) ==
    /\ phase' = [phase EXCEPT ![h] = "cleanup"]
    /\ at' = [at EXCEPT ![h] = 0]

\* NULL is returned, and what was stored so far is left behind.
ToCleanup_return(h) ==
    /\ phase' = [phase EXCEPT ![h] = "absent"]
    /\ at' = [at EXCEPT ![h] = 1]

\* The failed step is tried again, for as long as it fails.
ToCleanup_retry(h) == UNCHANGED <<phase, at>>

\* goto cleanup: the destroy function runs on the plan as it is.
ToCleanup(h) ==
    /\ phase' = [phase EXCEPT ![h] = "cleanup"]
    /\ at' = [at EXCEPT ![h] = 1]

\* The NULL that a nested init returned is not tested for.
NestedRefused_ignored(h) ==
    /\ AtInit(h)
    /\ InitStep(h) = "plan0"
    /\ kind[h] = "real" \/ \A g \in Handles : phase[g] # "absent"
    /\ at' = [at EXCEPT ![h] = @ + 1]
    /\ UNCHANGED <<phase, kind, ptr, mem, full, sub, boss, code>>

\* ffts_init_1d(N/2) returns NULL at once when N/2 < 2; the same happens when no
\* memory is left for the struct.
NestedRefused(h) ==
    /\ AtInit(h)
    /\ InitStep(h) = "plan0"
    /\ kind[h] = "real" \/ \A g \in Handles : phase[g] # "absent"
    /\ ToCleanup(h)
    /\ UNCHANGED <<kind, ptr, mem, full, sub, boss, code>>

\* Init of h returns the plan, to the client or into plans[0] of its caller.
Finish(h) ==
    /\ phase[h] = "init"
    /\ at[h] > Len(InitSteps[kind[h]])
    /\ phase' = [phase EXCEPT ![h] = "held"]
    /\ IF boss[h] = NoPlan
       THEN at' = [at EXCEPT ![h] = 1] /\ UNCHANGED sub
       ELSE /\ at' = [at EXCEPT ![h] = 1, ![boss[h]] = @ + 1]
            /\ sub' = [sub EXCEPT ![boss[h]] = h]
    /\ UNCHANGED <<kind, ptr, mem, full, boss, code>>

-----------------------------------------------------------------------------
(* The steps of an init function.                                          *)

Allocate(h) ==
    /\ AtInit(h)
    /\ InitStep(h) \in Blocks
    /\ ptr' = [ptr EXCEPT ![h] = @ \cup {InitStep(h)}]
    /\ mem' = [mem EXCEPT ![h] = @ \cup {InitStep(h)}]
    /\ full' = [full EXCEPT ![h] = @ \cup FilledBy(InitStep(h))]
    /\ at' = [at EXCEPT ![h] = @ + 1]
    /\ code' = IF InitStep(h) = "transform_base"
               THEN [code EXCEPT ![h] = "writable"] ELSE code
    /\ UNCHANGED <<phase, kind, sub, boss>>

\* A call that has what it needs; code is written to writable pages only.
Ready(h) ==
    /\ Uses[InitStep(h)] \subseteq mem[h]
    /\ InitStep(h) = "codegen" => code[h] = "writable"

Call(h) ==
    /\ AtInit(h)
    /\ InitStep(h) \in Calls
    /\ Ready(h)
    /\ at' = [at EXCEPT ![h] = @ + 1]
    /\ code' = IF InitStep(h) = "allow_execute" THEN [code EXCEPT ![h] = "executable"]
               ELSE IF InitStep(h) = "flush" /\ code[h] = "executable"
                    THEN [code EXCEPT ![h] = "flushed"]
               ELSE code
    /\ full' = [full EXCEPT ![h] = @ \cup FilledBy(InitStep(h))]
    /\ UNCHANGED <<phase, kind, ptr, mem, sub, boss>>

\* A call that dereferences a pointer nothing was stored in.
Crash(h) ==
    /\ AtInit(h)
    /\ InitStep(h) \in Calls
    /\ ~Ready(h)
    /\ phase' = [phase EXCEPT ![h] = "crashed"]
    /\ UNCHANGED <<kind, at, ptr, mem, full, sub, boss, code>>

Fails(h) ==
    /\ AtInit(h)
    /\ <<kind[h], InitStep(h)>> \in MayFail

\* calloc of the struct fails: NULL is returned and there is nothing to clean up.
StructFails(h) ==
    /\ Fails(h)
    /\ InitStep(h) = "self"
    /\ IF boss[h] = NoPlan
       THEN /\ phase' = [phase EXCEPT ![h] = "absent"]
            /\ UNCHANGED at
       ELSE /\ phase' = [phase EXCEPT ![h] = "absent", ![boss[h]] = "cleanup"]
            /\ at' = [at EXCEPT ![boss[h]] = 1]
    /\ Forget(h)
    /\ UNCHANGED <<ptr, mem, sub, code>>

\* A failure that is noticed.
StepFails(h) ==
    /\ Fails(h)
    /\ InitStep(h) # "self"
    /\ <<kind[h], InitStep(h)>> \notin Unchecked
    /\ ToCleanup(h)
    /\ UNCHANGED <<kind, ptr, mem, full, sub, boss, code>>

\* A failure that is not: ffts_generate_luts writes its scratch buffer through
\* NULL, a member stays NULL (buf) or becomes MAP_FAILED (transform_base), or the
\* chirp is left as malloc gave it, and the init goes on.
StepFailsUnnoticed(h) ==
    /\ Fails(h)
    /\ <<kind[h], InitStep(h)>> \in Unchecked
    /\ InitStep(h) \in Calls => Ready(h)
    /\ IF InitStep(h) = "luts"
       THEN phase' = [phase EXCEPT ![h] = "crashed"] /\ UNCHANGED at
       ELSE at' = [at EXCEPT ![h] = @ + 1] /\ UNCHANGED phase
    /\ code' = IF InitStep(h) = "transform_base"
               THEN [code EXCEPT ![h] = "failed"] ELSE code
    /\ UNCHANGED <<kind, ptr, mem, full, sub, boss>>

-----------------------------------------------------------------------------
(* The destroy functions, run by ffts_free and by the cleanup labels.      *)

ClientFree(h) ==
    /\ phase[h] = "held"
    /\ boss[h] = NoPlan
    /\ phase' = [phase EXCEPT ![h] = "free"]
    /\ at' = [at EXCEPT ![h] = 1]
    /\ UNCHANGED <<kind, ptr, mem, full, sub, boss, code>>

\* if (p->member) free(p->member): the member itself is not cleared.  munmap of
\* MAP_FAILED is refused by the system and changes nothing.
Release(h) ==
    /\ AtDestroy(h)
    /\ DestroyStep(h) \in Blocks \ {"self"}
    /\ DestroyStep(h) \in ptr[h] => DestroyStep(h) \in mem[h]
    /\ mem' = [mem EXCEPT ![h] = @ \ ({DestroyStep(h)} \cap ptr[h])]
    /\ code' = IF DestroyStep(h) = "transform_base"
               THEN [code EXCEPT ![h] = "none"] ELSE code
    /\ at' = [at EXCEPT ![h] = @ + 1]
    /\ UNCHANGED <<phase, kind, ptr, full, sub, boss>>

\* if (p->plans[0]) ffts_free(p->plans[0]).
ReleaseNested(h) ==
    /\ AtDestroy(h)
    /\ DestroyStep(h) = "plan0"
    /\ IF sub[h] = NoPlan
       THEN at' = [at EXCEPT ![h] = @ + 1] /\ UNCHANGED phase
       ELSE /\ at' = [at EXCEPT ![h] = @ + 1, ![sub[h]] = 1]
            /\ phase' = [phase EXCEPT ![sub[h]] = "free"]
    /\ sub' = [sub EXCEPT ![h] = NoPlan]
    /\ UNCHANGED <<kind, ptr, mem, full, boss, code>>

\* free(p), and the return: ffts_free to its caller, a failed init with NULL,
\* on which the caller's own init goes to its cleanup label.
ReleaseStruct(h) ==
    /\ AtDestroy(h)
    /\ DestroyStep(h) = "self"
    /\ mem' = [mem EXCEPT ![h] = @ \ {"self"}]
    /\ ptr' = [ptr EXCEPT ![h] = {}]
    /\ IF phase[h] = "cleanup" /\ boss[h] # NoPlan
       THEN /\ phase' = [phase EXCEPT ![h] = "absent", ![boss[h]] = "cleanup"]
            /\ at' = [at EXCEPT ![h] = 1, ![boss[h]] = 1]
       ELSE /\ phase' = [phase EXCEPT ![h] = "absent"]
            /\ at' = [at EXCEPT ![h] = 1]
    /\ Forget(h)
    /\ UNCHANGED <<sub, code>>

-----------------------------------------------------------------------------
Work(h) ==
    \/ \E g \in Handles, k \in Kinds : NestedInit(h, g, k)
    \/ NestedRefused(h)
    \/ Finish(h)
    \/ Allocate(h)
    \/ Call(h)
    \/ Crash(h)
    \/ StructFails(h)
    \/ StepFails(h)
    \/ StepFailsUnnoticed(h)
    \/ Release(h)
    \/ ReleaseNested(h)
    \/ ReleaseStruct(h)

Next ==
    \/ \E h \in Handles, k \in Kinds : ClientInit(h, k)
    \/ \E h \in Handles : ClientFree(h)
    \/ \E h \in Handles : Work(h)

\* A thread inside a call goes on running.
Fairness == \A h \in Handles : WF_vars(Work(h))

Spec == Init /\ [][Next]_vars /\ Fairness

-----------------------------------------------------------------------------
(* Properties.                                                             *)

\* The failure of step x is one that can happen to h and is not tested for.
Untested(h, x) == <<kind[h], x>> \in MayFail \cap Unchecked

\* Whichever allocation or system call fails, tested or not, an init uses memory
\* that it did not get only where a failure it does not test for has befallen
\* itself: each block that the crashing call misses is one whose allocation is
\* untested, and a call that misses none is one whose own scratch memory is.
\* Every tested failure is therefore caught before anything needs the block
\* (the goto cleanup tests of ffts.c:248-253, 447-512, ffts_chirp_z.c:102-112,
\* ffts_real.c:624-640), those of nested inits included.
OnlyUntestedCrash ==
    \A h \in Handles : phase[h] = "crashed" =>
        /\ InitStep(h) \in Calls
        /\ \A b \in Uses[InitStep(h)] \ mem[h] : Untested(h, b)
        /\ Uses[InitStep(h)] \subseteq mem[h] => Untested(h, InitStep(h))

\* A destroy function never frees a block twice: when it comes to a member that
\* was given memory, the block is still allocated, after a cleanup from any step
\* and whichever failures, tested or not, came before.
NoDoubleFree ==
    \A h \in Handles :
        AtDestroy(h) /\ DestroyStep(h) \in ptr[h] => DestroyStep(h) \in mem[h]

\* A plan that an init returned can be executed, as long as nothing fails but
\* what the code tests for: all that its transform function dereferences is
\* allocated and, the scratch buffer aside, was filled; the nested plan is alive;
\* generated code lies in executable pages that were flushed (ffts.c:473-512).
Usable ==
    \A h \in Handles : phase[h] = "held" =>
        /\ TransformUses[kind[h]] \subseteq mem[h]
        /\ TransformUses[kind[h]] \ {"buf"} \subseteq full[h]
        /\ kind[h] \in {"chirp_z", "real"} =>
               sub[h] # NoPlan /\ phase[sub[h]] = "held"
        /\ kind[h] = "dynamic" => code[h] = "flushed"

\* A nested plan has exactly one owner, which is alive, and is not orphaned
\* when the owner's init fails or its destroy function returns.
NestedOwned ==
    \A g \in Handles : phase[g] = "held" /\ boss[g] # NoPlan =>
        /\ phase[boss[g]] # "absent"
        /\ sub[boss[g]] = g

\* The plans and the memory that a client of the API sees: a plan under
\* construction or being destroyed is not there.
heldBar == {h \in Handles : phase[h] = "held"}
ownedBar == [h \in Handles |->
                IF phase[h] \in {"absent", "held"} THEN mem[h] ELSE {}]

Api == INSTANCE PlanApi WITH held <- heldBar, owned <- ownedBar

\* All or nothing: each plan implements PlanApi, so a failed init leaves nothing
\* allocated, a plan's memory is left alone while it is held, and free gives
\* back everything.
ApiImplemented == Api!Spec

\* Every init and every free returns.
CallsReturn ==
    \A h \in Handles : phase[h] \in Active ~> phase[h] \in {"absent", "held"}
==============================================================================
