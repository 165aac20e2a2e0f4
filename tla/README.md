# Verification project for ffts

ffts computes fast Fourier transforms in single precision. A client makes a
*plan* (`ffts_init_*`), runs it any number of times (`ffts_execute`) and gives it
back (`ffts_free`). Everything that can be decided before the data is there is
decided when the plan is made: tables of twiddle factors, tables of indexes, and
on x86-64 and ARM a function generated for the one size. This directory models how plans
are made, what they contain, how they are executed and how they are freed. TLC
checks the models on small instances; TLAPS proves the main results for every
value of the constants.

All paths below are relative to the root of the repository.

## 1. The system

### Components

| Component | Source | State it keeps | Operations |
|---|---|---|---|
| One-dimensional plans | `src/ffts.c`, `src/ffts_chirp_z.c`, `src/ffts_real.c` | the plan struct: `ws`, `ws_is`, `offsets`, `is`, `transform_base`, `A`, `B`, `buf`, nested plan `plans[0]` | `ffts_init_1d`, `ffts_init_1d_real`, `ffts_chirp_z_init`, `ffts_free` |
| Multi-dimensional plans | `src/ffts_nd.c`, `src/ffts_real_nd.c`, `src/ffts_transpose.c` | `Ns`, `Ms`, `plans[]`, `buf` | `ffts_init_nd`, `ffts_init_nd_real`, execute, `ffts_free` |
| Split radix recursion | `ffts_tree_count`, `ffts_elaborate_tree` in `src/codegen.c`; `ffts_static_rec_*` in `src/ffts_static.c` | none | the tree of sub-transforms |
| Code generator | `src/codegen.c`, `src/codegen_sse.h`, `src/codegen_arm.h` | generated code; while generating, what the registers will hold | `ffts_generate_func_code`; running the code |
| Instruction emission | what the generator uses of `src/arch/x64/x64-codegen.h`, `src/arch/x86/x86-codegen.h` | none | one macro per instruction |
| Vendored encoders | the rest of those headers; `src/arch/` for other processors | none | one macro per instruction and kind of operand; padding, prologs, epilogs, patching |
| Compiled transforms | `src/ffts_static.c`, `src/macros.h` | none | first pass, recursion, small transforms |
| Vector units | `src/macros-sse.h`, `src/macros-neon.h`, `src/macros-alpha.h` | none | arithmetic and moves on two complex numbers |
| Index tables | `src/patterns.h` | `offsets`, `is`, `i0`, `i1` | `ffts_init_offsets`, `ffts_init_is` |
| Twiddle factors | `ffts_generate_luts` in `src/ffts.c` | `ws`, `ws_is` | picking and interleaving factors |
| Trigonometric tables | `src/ffts_trig.c`, `src/ffts_dd.h` | tables of angles | Buneman generation, subvector scaling, `ffts_cexp_32f` |
| Chirp-z plans | `src/ffts_chirp_z.c`, `ffts_generate_chirp_32f` | `A`, `B`, `buf`, nested plan of a power of two | init, execute |
| Real execution | `src/ffts_real.c` | `A`, `B`, `buf`, nested complex plan | `ffts_execute_1d_real`, `_inv` |
| Java binding | `java/` | a plan pointer, two sizes | `complex`, `real`, `execute`, `free` |

### How they interact

`ffts_init_1d` picks one of four kinds of plan. Sizes 2 to 16 need no tables
("small"). Larger powers of two need twiddle factors and index tables, and
either a generated function ("dynamic") or the compiled recursion ("static"),
depending on the build. Any other size is a chirp-z plan, which nests a plan of
a power of two by calling `ffts_init_1d` again. A real plan nests a complex plan of half
its size, which may be a chirp-z plan: plans are nested up to three deep. A
multi-dimensional plan nests one plan per dimension and lets dimensions of the
same length share one. `ffts_free` calls the destroy function kept in the plan,
which is also what the cleanup label of every init function calls.

There are no threads, locks, callbacks or global variables in the library, and
nothing is persisted. Concurrency exists only between the threads of a client.

### What is hard

* Cleanup: one destroy function serves complete plans and any prefix of an
  init, through three levels of nesting.
* Sharing: who owns a nested plan is written down nowhere.
* Differences: generated calls are given differences of operands, from a list made
  by one recursion in memory sized by another.
* Bytes: what the generator writes is never looked at again until it runs. Whether an
  immediate takes one byte or four, where a prefix goes, how far a jump reaches and
  what a calling convention keeps is decided in macros of two headers.
* Index arithmetic: leaves, offsets, tables and twiddle factors fit together
  by formulas written in different files, per build, with cases for the parity
  of log2 N and for the remainder of N by 3.
* Tables filled in place: values that are sources and values that are results share memory.
* Four versions of one loop: what the real transforms do to a pair of numbers is
  written for four builds, which divide the signs between lanes, masks and tables.
* Boundaries: sizes at which a branch changes (8, 16, 32, 128, 2048 points;
  multiples of 4, of 2, odd; 8 × 8 blocks).

`hazards` in `PROJECT.json` lists each with its line and the properties that
would catch it.

### What makes each component correct

| Component | Correctness |
|---|---|
| One-dimensional plans | an init is all or nothing; nothing is used that was not obtained; nothing is freed twice or lost; what is returned can be executed; every call returns |
| Multi-dimensional plans | each nested plan is freed exactly once; an execution transforms the data along each dimension exactly once and stays in its arrays |
| Recursion | each sub-transform once, after its parts |
| Code generator | each call finds its own operands in every run; list and code stay in their memory; the bytes that were written compute a Fourier transform and leave the caller's registers alone |
| Instruction emission, encoders | a processor reads the instruction that was asked for |
| Compiled transforms | the result is a discrete Fourier transform, in either direction |
| Vector units | every unit does the same complex arithmetic |
| Twiddle factors | read in bounds, written in bounds, found where the passes look |
| Trigonometric tables | every slot gets its own angle, from sources that are still there |
| Chirp-z plans | the convolution is a discrete Fourier transform; nothing old gets in |

## 2. Modules

| Module | Models | Remarks |
|---|---|---|
| `PlanApi` | what `include/ffts.h` promises | abstract: plans are created, or not, and destroyed |
| `PlanLife` | the three inits of one-dimensional plans and their destroy functions | implements `PlanApi` |
| `PlanLifeProofs` | theorems about `PlanLife` | |
| `PlanNd` | init and destroy of multi-dimensional plans | nested plans as `PlanApi` promises them |
| `NdExecute` | their execution and `ffts_transpose` | extends `PlanNd` |
| `PlanNdProofs` | theorems about `PlanNd` and `NdExecute` | |
| `SplitTree` | `ffts_tree_count`, `ffts_elaborate_tree` | pure functions |
| `SubTransforms` | every sub-transform exactly once, after its parts | abstract |
| `Codegen` | the calls `ffts_generate_func_code` emits, and their run | implements `SubTransforms` |
| `CodegenProofs` | theorems about `Codegen`, `SplitTree` and, through them, `MachineCode` | |
| `X64` | the macros of the two encoder headers that the generator uses, byte by byte | pure functions |
| `SseItems` | short names for the instructions, padding | extends `X64` |
| `CodeSysV`, `CodeWin64` | what `codegen_sse.h` generates for either calling convention | pure functions |
| `Processor` | fetches, decodes and executes those bytes | knows nothing of the macros |
| `MachineCode` | the generated text and its execution | extends `Codegen` |
| `Patterns` | the order of the leaves: `offsets`, `i0`, `i1` | pure functions |
| `StaticTransform` | `ffts_static.c`, `macros.h`, `patterns.h` on symbolic inputs | implements `SubTransforms` (in `MCStaticTransform`) |
| `VectorUnits` | the `V4SF` macros of SSE, NEON and plain C | pure functions |
| `VectorUnitsProofs` | theorems about `VectorUnits` | |
| `Luts` | `ffts_generate_luts` in three builds | |
| `TrigTable` | Buneman generation, for complex and for real plans | |
| `RealPlan` | the tables `A` and `B`, and the execution of one-dimensional real plans in four builds | extends `TrigTable` |
| `PlanTables` | `TrigTable`, `Luts` and `RealPlan` together | |
| `PlanTablesProofs` | theorems about `TrigTable` and `Luts` | |
| `TrigReduce` | the reduction of an angle in `ffts_cexp_32f` and `_32f64f` | |
| `CosSin` | `ffts_generate_cosine_sine_32f` | |
| `CosSinProofs` | theorems about `CosSin` | |
| `ChirpZ` | chirp, kernel, padding, convolution | reads the table of another module |
| `ChirpZProofs` | theorems about `ChirpZ` | |
| `ChirpPlan` | `TrigReduce`, `CosSin` and `ChirpZ` together | |
| `ChirpPlanProofs` | theorems about `TrigReduce` and `ChirpPlan` | applies `CosSinProofs` to the answers of `TrigReduce`, and `ChirpZProofs` to the table of `CosSin` |
| `X86Macros`, `X64Macros` | the instruction macros of the encoder headers, all kinds of operands | pure functions |
| `IntelFormat` | how a processor reads an instruction in 32-bit and 64-bit mode | knows nothing of the macros |
| `Encoders` | one instruction, padding, or a framed function at a time | |
| `MC*` | instances for TLC | |

### PlanLife

A plan struct is a *handle*. An init is a row of `InitSteps`: each step
allocates one block and stores it (`Allocate`), calls something that needs
blocks stored before (`Call`; `Uses` says which), or makes the nested plan
(`NestedInit`). A step in `MayFail` can fail: `StepFails` goes to the cleanup label, as
the `goto` does, `StructFails` returns at once, and `StepFailsUnnoticed` goes on where the
code has no test. `Crash` is the use of memory that is not there. `Release`,
`ReleaseNested` and `ReleaseStruct` are the lines of the destroy functions, in
the order of `DestroySteps`; the cleanup labels take the same steps. A
caller of a nested init waits until it has returned (`Blocked`). Other handles
advance on their own, so that a plan can be half made or half freed while another
call runs; the library keeps no state outside the plans, so they share only the memory left for
structs, and nothing is claimed about races.
`ptr` (members that were given memory) is kept apart from `mem` (blocks that are
allocated) because destroy functions look at the former: a difference of the
two is a double free or a use after free. `full` tells which blocks were filled (`FilledBy`),
so that a plan with a table left as `malloc` gave it is not one that can be executed.
A `transform_base` that is `MAP_FAILED` is the value `"failed"` of `code`: code generation crashes
in it, and `munmap` of it changes nothing.

### PlanNd and NdExecute

A request is an API function and its lengths. `Allocate` goes through the
blocks of the plan, `Share` and `Make` through the slots, with the branches of
`ffts_init_nd_real` for the two directions and its narrowing of lengths. A
nested plan is named by the slot it was made for, so that shared slots hold the
same name. `ReleaseSlot` decides who owns a nested plan as the code does
(`Owns`). `NdExecute` runs a plan on arrays of cells; a cell is the place in
the data it stands for and the set of dimensions along which it is transformed.
A nested plan that is given anything but one whole line of its length yields
`Junk`. `ffts_transpose` moves blocks of `Tile` cells: 8 in SSE2 builds, 1
in builds without. A held plan may be executed again and again.

### Codegen, SplitTree, SubTransforms

`Emit` is one turn of the loop at `src/codegen.c:241`: it appends a block (the
instructions before a call, and the call) and keeps `pAddr`, `pN`, `pLUT` as
the code does. `Execute`, `RunBlock`, `Return` run the blocks on three
registers. `slots` is the size of the list.
`Calls`, `Count` and `WsIs` are parameters: the list, its size and the places
of the twiddle factors; `MCMachineCode` gives them the values that `SplitTree` and
`Luts` have. `combined` records which
sub-transforms were executed, in which order; with it `Codegen` and `StaticTransform`
implement `SubTransforms` under the mapping `done <- combined`. It is a sequence, so that
executing one twice is a step, and one that `SubTransforms` does not allow.

### MachineCode, CodeSysV, CodeWin64, X64, Processor

`MachineCode` adds the bytes to `Codegen`. `GenerateSize4` to `GenerateEpilogue`
append what one part of `ffts_generate_func_code` writes, `GenerateCall`
together with `Emit`; `text` is the memory from `transform_base` on. In an
execution `MachineStep` executes one instruction, whatever the bytes at `rip`
happen to be; where they are a call, `CallStep` takes `RunBlock` as well, so that
what `Codegen` says of the registers and what the processor has in them can be
compared (`OperandsRight`). An instruction that is none, an access outside of the
buffers, a write to a constant or a misaligned `movaps` is a `fault`.

Real numbers are elements of the field of 40961 elements, in which roots of unity of
2^13 exist: `Cos` and `Sin` are the halves of sums and differences of their powers.
Sums, products and changes of sign are exact there, and two different formulas agree by
chance once in 40961 times per output. The input is a fixed vector
without regularities. Memory begins with one value that arithmetic refuses (`Unset`).

A program that calls the same functions was compiled from `src/codegen.c` and its headers
once for System V and once with `_M_X64` defined; for 2^5 to 2^12 points and both signs
the bytes it writes are those of `CodeSysV` and `CodeWin64`.

### StaticTransform and Patterns

Transforms are linear, so a complex number is kept as the set of terms
⟨input, exponent of the root of unity⟩ it is the sum of. The macros `L_2_4`,
`L_4_4`, `K_N`, ... are operators on pairs of such sets; `Leaf` is a
leaf of the first pass, `Combine` one iteration of `V4SF_X_4` or `V4SF_X_8`, in the order of
`ffts_static_rec_f_32f` and `ffts_static_rec_i_32f`. `Is` and `Offset` are the tables of `patterns.h`.
Multiplication by a twiddle factor adds exponents. The output begins as
`Garbage`. `inv` is the direction: where the code takes its inverse argument, or is
written twice, the model turns by the other sign, and the result is compared with
the transform of that sign.

### VectorUnits

A register is four lanes; the instructions of SSE and NEON that the macros use
(`mm_shuffle_ps`, `vrev64q_f32`, ...) are operators, and the macros of each unit are written
with them. Lanes are integers: what is claimed is an identity of sums and products.

### RealPlan

A float is a sequence of exponents and stands for the sum of the powers of
exp(-2πi/N) they name: cosines, sines, and all that sums and products
make of them are known exactly. Two floats are equal when they have the same
normal form, in which w^(N/2) = -1; this is unique because N is a power of two.
The tables are those `TrigTable` has filled, floats made of
angles as lines 1033-1136 of `ffts_trig.c` make them, with the signs that one of the builds
wants. A step is one pass of the loop: a pair in the scalar
build, four floats in the others, lane by lane, with the shuffles, masks,
`addsub` and the register `kept` from one step to the next. The complex
transform of N/2 points that a real plan nests is taken to be right
(`static_transform` and `machine_code` are about it). Memory holds `Old` until it is
written, which stands for whatever an earlier execution left there. Inputs
have one float that is not zero: the code is linear.

### Luts, TrigTable, PlanTables, TrigReduce, CosSin, ChirpZ, ChirpPlan

Table values are named by their angles: a product of two values is the
sum of their angles, a mirrored value the complement, and a mean in Buneman's
sense is defined only if the distance of the two angles is the one its half secant is made for.
One pass through a loop body is one step. In `PlanTables` `Luts` and `RealPlan` read the
table that `TrigTable` has filled. `CosSin` has a memory in which a pair
of doubles occupies two cells and a pair of floats one. `ChirpPlan` answers its
questions for angles with `TrigReduce`, one call after the other, and gives
`ChirpZ` the table that `CosSin` has filled.

### Encoders, X86Macros, X64Macros, IntelFormat

The headers have a macro for each instruction and kind of operand (`x86_alu_reg_reg`,
`x86_alu_reg_membase`, ...). An operator stands for all kinds and takes the operand;
families of macros that differ in an opcode alone are one table. A step of `Encoders` is a
family: it stores the bytes (`text`) and the instruction the macro's name stands for
(`asked`). `misread` is set for the macros known to mean something else; `ReadsBack`
requires that these, and no others, read back wrongly, so the list is exact. `Patch`
applies `x86_patch` to a branch. `Function` writes a prolog and an epilog and `Run` executes
them instruction by instruction, with a `Body` in between that overwrites registers.

A program that calls every macro that `Encoders` has an action for, except the vector
instructions of the 32-bit header, compiled with the headers, writes the same bytes for all
operands the two have in common: 95,506 byte strings in 64-bit mode, 12,944 in 32-bit mode.

## 3. Runs

| Run | Instance | What it shows |
|---|---|---|
| `life_plans` | 2 plan structs, the kinds of the builds with and without code generation, every tested failure | plans implement `PlanApi` (a failed init leaves nothing, a held plan keeps its memory, a free returns all of it); what is returned can be executed, its tables filled; every call returns |
| `life_anyfailure` | 3 plan structs (symmetric), the kinds of a build that generates code, every failure, tested or not, `MAP_FAILED` too | an init crashes only where a failure of its own that it does not test for is to blame; no double free and no orphan, whatever fails |
| `nd_plans` | complex plans of rank 2 to 4, real plans of rank 2 whose stored lengths stay distinct | shared nested plans are freed exactly once; every slot is filled; executions transform each dimension once, in their arrays |
| `nd_single_point` | lengths 1, 2, 4 | violation, finding 1 |
| `nd_cube` | forward real plans of rank 3 | violation, finding 2 |
| `nd_blocks` | `Tile = 8`, lengths 4, 8, 16 | violation, finding 3 |
| `machine_code` | code for 32 to 2048 points, both signs, both calling conventions; executions of 32 to 256 points | list and code stay in their memory; the bytes never fault, give every call its operands in every run, combine every sub-transform once after its parts, leave a Fourier transform and the caller's general registers |
| `win64` | 32 points | violation, finding 4 |
| `static_transform` | 2 to 256 points, both directions | the compiled transforms are Fourier transforms, whatever was in the output; their recursion implements `SubTransforms` |
| `plan_tables` | tables of 2 to 256 slots by both generators; twiddle factors for 32 to 1024 points in three builds; executions of 4 to 32 points, every input float, both directions, four builds | each slot gets its angle from initialized entries; twiddle factors are written in bounds and found by the passes; real transforms and their inverses are right in every build |
| `chirp_plan` | single angles of 11 denominators; tables of many sizes up to 100: odd, twice odd, multiples of four, next to powers of two | the reduction is exact and stays in its table; tables filled in place are complete; chirp-z plans compute Fourier transforms, twice and more; all of it ends |
| `encoders` | every macro, 8 and 16 registers, all kinds of operands, 32-bit and 64-bit mode | a processor reads what was asked for, but for the macros listed in section 4; padding is idle and as long as asked; prolog and epilog undo each other |

### Bounds and why they are enough

* *Plan structs.* Two can hold a nesting and an unrelated plan in turn; three hold
  a real plan on a chirp-z plan on a power of two, the deepest nesting there is.
  `life_plans` takes the kinds of both builds at once: its behaviours include those of either, and
  a static and a dynamic plan side by side never act on each other. The theorems hold for any number
  and any set of kinds.
* *Requests.* Rank 2 to 4 with lengths from two or three values gives every
  pattern of repetition. Real plans are asked for in rank 2, the only rank their
  execute functions can serve; `d[1] # d[2] \div 2 + 1` (forward) and `d[1] # d[2]`
  (inverse) leave out the requests whose plans are lost or freed twice (finding 2).
* *Sizes of `machine_code`.* 2^5 is the smallest generated plan, 2^11 the first with
  a code buffer that depends on the size. 2^5 to 2^8 are executed: loops of one turn
  and of several, both parities of the logarithm and both remainders of N/8 by 3, differences
  that fit in one byte and that need four. Larger sizes are generated, which is what `TextFits` and
  `ListFits` are about; their instructions are those of the smaller ones with other operands.
* *Sizes of `static_transform`.* 2 to 16 are the small transforms; 32, 64 and
  128 the ends of the recursion; 256 the first with a recursive call. Both
  parities of the logarithm and both remainders of N/8 by 3 occur on each side.
* *`plan_tables`.* Twiddle factors: two levels at least, and one level of each shape; the groups of
  all builds fit once and more. Executions: 4 and 8 points have code of their own in the SSE builds,
  16 is one step of their loop and 32 two, so that a register is carried from one into the
  other. `MaxPoints` bounds the executions only.
* *`chirp_plan`.* Denominators are powers of two, odd numbers and multiples of three; the theorems
  are for all numerators and denominators, and for all sizes of tables (of a plan, up to 65536). Table
  sizes have every residue by 4 and by the lengths of the loops, and lie just below and above powers of two, where the number of passes changes.
* *`encoders`.* All registers in operands, and three in the register field, one of them with the high
  bit. ESP, EBP and the registers with the same low bits are the bases with forms of their own.
  Displacements need no byte, one and four, immediates one and four with either sign, branches
  lie on both sides of the limits of a byte.

Deadlock is checked except where the system does stop: after a crash
(`life_anyfailure`), when a table that nothing transforms with, or a transform, is finished
(`plan_tables`), for tables of odd size, which no chirp needs (`chirp_plan`), and when the one
instruction that was asked for is written (`encoders`).

### Fairness

Two specifications have fairness. `PlanLife` has `WF_vars(Work(h))` for each
plan in a call: the code of an init or a free runs in the caller's thread and
never waits for another one, so a thread that the system schedules gets on. A client is free
never to call again: `ClientInit` and `ClientFree` have no fairness. An init
that waits for its nested init is not enabled, so nothing is assumed of it. `ChirpPlan` has weak
fairness of its whole next-state relation: all of it is sequential code of one thread, the loops of which are
what `PlansGetReady` is about. In the other modules termination shows as the absence of deadlock.

## 4. Findings

1. *A plan with a hole* (`nd_single_point`). `src/ffts_nd.c:172` tests `p->plans` where
   `p->plans[i]` is meant. `ffts_init_2d(4, 1, -1)` returns a plan; executing it
   dereferences NULL.
2. *Freeing what was shared by another rule* (`nd_cube`). `src/ffts_real_nd.c:50`
   compares `Ns`; the forward init shares by `Ms` from slot 1 on and
   halves `Ns` of the slots that made a plan, the inverse init halves `Ms`.
   Forward plans of rank 3 with two equal lengths free a nested plan twice;
   inverse squares and forward plans with N1 = N2/2 + 1 lose one.
3. *Blocks of eight* (`nd_blocks`). The SSE2 branch of `ffts_transpose` has no
   code for what is left of a width or a height after blocks of eight. A
   compiled 4 × 4 transform leaves its output as it was; 8 × 8 and 16 × 16 are
   right.

4. *A register that does not come back* (`win64`). The Windows prologue
   (`src/codegen_sse.h:204-223`) saves XMM8 in the 16 bytes right below the stack pointer it has
   set; every call of `x_4` and `x_8` pushes its return address over the upper half of them, and the
   epilogue loads what is there. The general registers lie deeper and are kept
   (`GeneralRegistersKept`).

Observed while modelling, without a run:

* Failures that are not tested for: the allocations at `src/ffts_chirp_z.c:114` and
  `src/ffts.c:263`, `:273`, `:312-314`, which end in a crash of the init; `src/ffts_chirp_z.c:116`
  ignores the -1 of `ffts_generate_chirp_32f` (`src/ffts_trig.c:438-440`) and returns a plan whose
  `A` nothing was written to; and `src/ffts.c:496` tests the result of `mmap` for NULL, not for
  `MAP_FAILED`. `Unchecked` in `PlanLife` has them all. The run `life_anyfailure` lets each of them
  happen; `life_plans` does not, for `Usable` fails with the one that is ignored and `CallsReturn` with those that crash.
* Two-dimensional real transforms in SSE builds fault: rows of N/2+1 complex
  numbers are not aligned to 16 bytes, `src/ffts_real.c:246` stores with
  `_mm_store_ps`, called from `src/ffts_real_nd.c:96`.
* `src/ffts_trig.c:1066` copies one entry more than it uses and reads behind
  `cos_sin_pi_table` for it. The value is never used, which `TableComplete` shows.
* Real plans of rank 3 make nested plans of length vol / N, not N
  (`src/ffts_real_nd.c:217`, `:227`).
* The branch for builds without SSE2 in `src/ffts_trig.c` (880-1016) does not
  compile.
* Real plans whose N is no power of two. `ffts_generate_table_1d_real_32f`
  (`src/ffts_trig.c:1058-1061`) takes the number of trailing zeros of N for its
  logarithm, so the angles of the table are not multiples of 2π/N; for N no
  multiple of 4 some slots stay as `malloc` left them; and the SSE loops take
  steps of sixteen floats (`src/ffts_real.c:184`). Nothing tests N, and `ffts.h:84-91`
  names no restriction. In a compiled library the results for 12 and
  24 points are wrong, and 20 points overrun the arrays.
* The comment at `src/ffts_trig.c:320` says `cos(pi * n / d)`; the reduction is
  that of a full circle, which is how callers use it (`AngleExact`).
* `FFTS.java:64` sets `outSize` to `inSize`; `java/jni/ffts_jni.c:201` adds offsets counted in
  floats to `void` pointers.
* `src/sequitur.h`, which nothing includes: a program that compresses all words of two letters
  with it finds words of 14 letters and more that expand to something else, since
  `seq_merge_small_rules` copies symbols without counting them as uses of their rules.
* Macros of the encoder headers that do not emit what they are named for. The
  library uses none of them; `Encoders` has each in a list that `ReadsBack` shows to be exact.
  - 32-bit: `regp` operands with ESP or EBP; `x86_pop_mem` and `x86_pop_membase` emit
    the opcode of `xchg`.
  - 64-bit operands: an absolute address (`mem`) is read relative to RIP except in the moves of a
    register; `regp` with a base whose low bits are 4 or 5; `memindex` without a
    base, which becomes RDI; RIP as a base where `x86_membase_emit` gets it, which becomes R8.
  - 64-bit, when one register is R8 or above: `cmpxchg`, `xchg`, `xadd`, `test`, `shrd` and
    `shld` of two registers (REX bits exchanged), `x64_clear_reg`, `cmov` from memory,
    `movsxd` with such an index, `x64_test_reg_imm` with R8, and every
    16-bit macro, which puts REX in front of the operand size prefix.
  - 64-bit, others: `x64_mov_reg_imm` of a negative number; `widen_reg` of the byte registers 4 to 7;
    `alu_reg8_reg8` of AH to BH behind a REX byte; `pop` to memory; `x64_branch_disp`
    with a size of 8 (one byte off); `pushad`, `popad`; the opcodes of `psubusw`, `rsqrtpd`, `rcppd` and `psraq`.
  - `frem` is `fprem` in both. `x64_shift_mem`, `x64_shift_mem_imm`, `x64_shift_membase_imm` and
    `x64_enter` do not compile when they are used.

## 5. Proofs

Eight modules hold theorems. No axiom is used beyond the assumptions on
constants that the modules declare, and TLC evaluates each of them. Premises that are more than that
stand in the theorems themselves and are named below.

**PlanLifeProofs** (any handles, kinds and set of failures). The properties are
not inductive. `IInv` adds what the code never writes down: during an init the
plan holds exactly the blocks of the steps before, but for one whose allocation is untested, which
can be missing (`Lacking`) until the next step crashes for want of it, and what those steps fill is
filled, but for a chirp that failed (`InitOK`); a held plan holds
all blocks (`HeldOK`); during a destroy function the blocks still allocated are
the members not yet come to (`DestroyOK`); `plans[0]` and its caller point at each other
(`SubOK`, `BossOK`); a caller has one nested call at a time (`OneCall`). Each
action has a lemma that it preserves `IInv`, whichever failures happen. From it follow `TypeCorrect`,
`CrashOnlyUntested`, `DoubleFreeNever`, `NestedAlwaysOwned`, and
`Implementation`: each action is a `Create`, a `Destroy` or a stutter of
`PlanApi`. None of these has a premise. `BadAccessNever` (no init crashes) and `AlwaysUsable` have
`FailuresTested`, that what fails is something the code tests for: an untested
allocation refutes the first, the ignored result of `ffts_generate_chirp_32f` the second.

**PlanNdProofs** (any set of requests under `RequestsAgreed`: complex plans of any rank and any
lengths, real plans of rank 2 whose stored lengths stay distinct; of nested plans only those of real
inits may fail to be made). Which slot owns
a nested plan is written down nowhere; the invariant says it: a slot owns its plan if `plans[i] = i`,
the plan of any slot was made for the first slot of the same length (`SharedOK`), and the
plans that exist are those of the owning slots, in a destroy function those not yet come to (`LiveOK`). The
rule of the destroy functions, a slot whose length no earlier slot has, is then the same
(`OwnerIsMaker`). `NestedFreedOnce`, `NestedAllFreed` and, where no dimension is a single
point, `SlotsFilled` follow. Real plans of other shapes are excluded because the rule of the
destroy functions is wrong for them (finding 2), as is the single point (finding 1).
`AlwaysTyped` needs these too: the next request may have fewer slots, and a plan that was
left over would have the name of one that is gone.

For executions the invariant says of a finished plan that each slot has the plan its length asks for
(`FittedOK`) and of a running one that the product of rows and length is the volume of
the data in every pass (`ExecutingOK`): the volume is a product over the dimensions, and reordering
them, or halving one and adding a point, changes it as the buffers allow. `AlwaysInArrays` is the
result, for every rank and every size of blocks.

`AlwaysTransformsRight` follows the data. A cell of an array stands for the point of the request it began
at and the set of dimensions it has been transformed along. In a complex plan each pass transforms
the rows and the transposition turns the data by one dimension, so that after k passes the cell c holds the
point that c names once its coordinates are rotated by k (`Turned`, `ComplexOK`); after as many passes as there are
dimensions the rotation is the identity. A real plan of rank 2 lays the rows `Across` and back (`Plain`), and
the invariant says which buffer holds which layout in each stage (`ForwardOK`, `InverseOK`); `buf` and `out`
change roles, and a stage that read the wrong one would find what the stage before has left. The
theorem's premise beside `RequestsAgreed` is `RequestsTiled`: each length that is transposed is a multiple of `Tile`.
In a build without SSE2 `Tile` is 1 and every request is; with blocks of 8 by 8 the premise names the lengths that the
blocks cover, and the others are finding 3.

**CodegenProofs** (any sizes, any places of twiddle factors). `IInv` ties together what the generator
remembers (the entry before), what it has emitted (differences of neighbours:
`BlockOf`) and what a run finds in the registers. `RegistersAlwaysRight`: the
sums of the differences are the operands, in every run, for any list of calls that begins at the start of the
output.

The other theorems are about the list of `ffts_elaborate_tree`; their premise is that `Calls` and `Count`
are the functions of `SplitTree` and that `LeafLog` is 3, as `SplitTree` and the code have it
(`ffts.c:424`). Both functions are recursive, so the lemmas are proved of the least size for which they fail.
`ListAlwaysFits`: the two recursions agree on the number of entries (`ListIsCounted`). For `Implementation`,
`Lists(list, T)` says that a list holds the sub-transforms of the set T, each after its
composite parts, and lemmas say that this survives moving a list, appending lists and appending the whole
to its parts. So each list holds a sub-transform with all of its parts (`ListClosed`), and all but
the whole are parts of another (`EveryParent`); this is what the levels of `SubTransforms` collect
(`ListIsAll`). None is listed twice, because the five parts lie side by side and are smaller than the
whole (`Placed`, `EveryListOnce`); this uses the values of the powers of two up to 2^31, since the
prover knows none for an exponent without bound, and that is the bound `Implementation` has. With
`Ran`, that what is combined is the list up to the program counter, each step is a
`Combine`, an `Again` or a stutter of `SubTransforms`. `MachineRefines`: the steps of
`MachineCode` are those of `Codegen`, or leave its variables alone, so all this holds of
the machine code as well.

**PlanTablesProofs** (any logarithms of sizes up to 28, as `Logs` of `TrigTable` is assumed to be: the
tables of `ffts_trig.c` end there). `TablesAlwaysComplete`: the invariant says which angle each entry
of `w` is kept for. `w[l]` is the next odd multiple of 2^l that the loop comes to, and the two sources
of the next one are 2^l below and above it: one of them is at l + 1, the other as far up as
the carry of an addition to the counter goes. `AlwaysWritesInWs` and `TwiddlesAlwaysFit` are for
all three builds. Their invariant names the place of every level in closed form; the groups of
one level fill it, the next begins behind it, and the last one ends with the memory. The premise is again
`LeafLog = 3`.

**CosSinProofs** (table sizes from 2 on). The memory holds doubles and floats
at once, and what is in a cell depends on how far each loop has come: the
invariant has one description of the memory for each of the loops, whose cells are the doubles
written from both ends, the floats that have replaced them and the cells not yet
written. `AlwaysInTable`: no step leaves the table. `AlwaysComplete`: in the end each cell
has the angle of its slot. In an odd size and in twice an odd one the loops are others;
all of them are in the proof.

**ChirpZProofs** (every size up to 32768, beyond which `ffts_next_power_of_2` shifts too far; any
number of executions). The premise is
that the table holds at index c the angle c (`TableRight`). `ChirpOK`: the index of the chirp is the square of the counter modulo 2N, for which one
subtraction per step suffices (`NextSquare`). `KernelOK`: the two ends of the kernel hold the chirp
and never meet, since M > 2N - 1 (`Padded`), and the zeros are between them. `ChirpConvolves` then is the
identity (k - n)² = n² + k² - 2kn taken modulo 2N (`SquareOfDistance`, `Congruent`);
`ChirpNoOldValues` says that three loops together write the whole buffer.

**ChirpPlanProofs** (any numerators and denominators; table sizes from 2 to 65536, `SizesKnown`). First
`TrigReduce` alone: `Kept` says in each
stage which angle the remaining numerator, the flags and the index stand for, with
one lemma per stage (`AngleAlwaysExact`). Then the composed system: what `TrigReduce` answers is what `CosSin`
asked for, so that the table is filled as `CosSinProofs` has it (`PlanTableInBounds`,
`PlanTableComplete`), and the whole is to a plan what `ChirpSpec` allows, because a plan is half as long as its
table and nothing writes to the table any more (`PlanOK`, `TableStep`). `PlanAngleExact`, `PlanInTable`,
`PlansConvolve` and `PlansNoOldValues` are with them all the safety properties of `chirp_plan`,
for every size the code is good for.

**VectorUnitsProofs** (any floats, taken as integers). `UnitsAgree` shows lane by lane that the
moves of SSE, NEON and plain C put the same floats in the same places; from then on a
macro is the same in every unit. `SignsChanged` says what an exclusive-or with a mask of signs does
to each lane. From these, and the product of integers being distributive, follow
`HalvesMoved` (which complex number of which operand is where), `TimesI` (`IMULI` multiplies by i or -i)
and `TwiddleProduct` (`IMUL` and `IMULJ` are the complex products with a factor and
with its conjugate, for both directions). These are what `StaticTransform` has in place of the macros.

Only model-checked: liveness (`CallsReturn`, `PlansGetReady`), which is beyond the prover;
the compiled transforms, their results and their refinement of `SubTransforms`; the results of
`RealPlan`, which are sums of powers of roots of unity; the execution of
machine code, what its bytes mean and how many they are (`TextFits`); the encoders, which are a finite matter
for each range of immediates.

## 6. What the models leave out

* Floating point: rounding, the polynomials behind `ffts_cexp_32f`,
  double-double arithmetic (`src/ffts_dd.h`), scaling by constants.
* The ARM branch of the generator, which copies and patches hand-written assembly, and that assembly
  (`neon.s`, `neon_static.s`, `vfp.s`); the NEON branch of `ffts_transpose`.
* `macros-altivec.h`, whose inclusion is commented out in `macros.h:45-47`.
* Of the encoder headers: `x86_prefix`, a far `x64_jump_code`, the branches for Native Client.
  `Encoders` compares instructions, not
  what they compute.
* The other encoders and trampolines of `src/arch/` (`arm`, `arm64`, `ia64`, `mips`, `ppc`, `s390x`, `sparc`), which
  are part of Mono and included by no file of the library.
* `src/sequitur.h`, which nothing includes.
* Alignment of buffers, except in `MachineCode`; widths of integers beyond sizes that fit in memory.
* Concurrent executions of one plan: chirp-z, real and multi-dimensional plans keep
  scratch memory in the plan, and the models execute a plan in one thread
  at a time.
* Real plans whose N is no power of two (section 4): `RealPlan` has no exact
  floats for them.
* The Java binding. What it adds to a plan is a handle and two sizes, both of which are wrong in
  the ways section 4 and `hazards` name; correct properties are those of `PlanApi`.
* Tests and build files.

## 7. Plan

Done: `PlanApi`, `PlanLife`, `PlanLifeProofs`; `PlanNd`, `NdExecute`, `PlanNdProofs`; `SplitTree`,
`SubTransforms`, `Codegen`, `CodegenProofs`; `X64`, `SseItems`, `CodeSysV`, `CodeWin64`,
`Processor`, `MachineCode`; `Patterns`, `StaticTransform`; `VectorUnits`, `VectorUnitsProofs`; `Luts`,
`TrigTable`, `RealPlan`, `PlanTables`, `PlanTablesProofs`; `TrigReduce`, `CosSin`, `CosSinProofs`, `ChirpZ`,
`ChirpZProofs`, `ChirpPlan`, `ChirpPlanProofs`; `X86Macros`, `X64Macros`, `IntelFormat`, `Encoders`.

Next, in this order:

1. That `StaticTransform` implements `SubTransforms`: its recursion lists what `ffts_elaborate_tree`
   lists.
2. Of `MachineCode`: `TextFits`, a matter of lengths, and `TargetsAligned`.
3. Of `Encoders`: `PaddingIsIdle` and `FrameUndone`.
4. The alignment of rows in `NdExecute`; the handle of `FFTS.java` over `PlanApi`.
