-------------------------------- MODULE Codegen --------------------------------
(***************************************************************************)
(* The calls that ffts_generate_func_code (codegen.c) writes into the      *)
(* generated function, and what happens when that function runs.           *)
(*                                                                         *)
(* Each sub-transform is combined by a call of one of two routines, x_4    *)
(* and x_8, that find their operands in three registers: the address of    *)
(* the data, the size, and the address of the twiddle factors.  No call is *)
(* given its operands: the generator remembers what the registers will     *)
(* hold when the call before it has returned, and emits the difference.    *)
(*                                                                         *)
(* Addresses are byte offsets, of data from the output buffer and of       *)
(* twiddle factors from p->ws; the size register holds a power of two and  *)
(* is kept as its logarithm, which a shift adds to.                        *)
(***************************************************************************)
EXTENDS Integers, Sequences

CONSTANTS
    Sizes,          \* logarithms of the sizes of the plans
    MaxLog,         \* the largest of them
    LeafLog,        \* log2(leaf_N)
    Calls(_),       \* Calls(s): what ffts_elaborate_tree lists for 2^s points
    Count(_),       \* Count(s): what ffts_tree_count makes of it
    WsIs(_)         \* WsIs(i): p->ws_is[i], counted in complex numbers

ASSUME SizesAssumption == MaxLog \in Nat /\ Sizes \subseteq 1..MaxLog
ASSUME CallsAssumption ==
    \A s \in Sizes :
        /\ Calls(s) \in Seq([size : Nat \ {0}, at : Nat])
        /\ Len(Calls(s)) >= 1
        /\ Calls(s)[1].at = 0

ASSUME LeafLogInNat == LeafLog \in Nat
ASSUME WsIsInNat ==
    \A s \in Sizes : \A i \in 1..Len(Calls(s)) :
        WsIs(Calls(s)[i].size - LeafLog - 1) \in Nat

VARIABLES
    stage,      \* of the plan: emit, ready, run
    plan,       \* logarithm of the plan's size
    slots,      \* entries allocated for the list of calls
    pps,        \* index of the entry the generator is at
    pAddr,      \* the generator's idea of the data register,
    pN,         \*     the size register (0: not set yet)
    pLUT,       \*     and the twiddle register
    code,       \* the blocks emitted so far
    pc,         \* index of the next block to run
    regs,       \* the registers
    combined    \* sub-transforms combined so far in the output buffer, in their order

generator == <<slots, pps, pAddr, pN, pLUT, code>>
vars == <<stage, plan, generator, pc, regs, combined>>

\* What may stand in front of a call: 0 where nothing is emitted.  mov is the
\* size that is loaded, shift a shift to the left or (negative) to the right.
Blocks == [mov : Nat, addr : Int, shift : Int, lut : Int, base : {"x_4", "x_8"}]
Registers == [data : Int, size : Int, lut : Int]
NotSet == [data |-> 0, size |-> 0, lut |-> 0]

TypeOK ==
    /\ stage \in {"emit", "ready", "run"}
    /\ plan \in Sizes
    /\ slots \in Nat
    /\ pps \in 1..(Len(Calls(plan)) + 1)
    /\ pAddr \in Nat /\ pN \in Nat /\ pLUT \in Nat
    /\ code \in Seq(Blocks)
    /\ pc \in 1..(Len(code) + 1)
    /\ regs \in Registers
    /\ combined \in Seq([size : Int, pos : Int])

Init ==
    /\ stage = "emit"
    /\ plan \in Sizes
    /\ slots = Count(plan) + 1
    /\ pps = 1
    /\ pAddr = 0 /\ pN = 0 /\ pLUT = 0
    /\ code = <<>>
    /\ pc = 1
    /\ regs = NotSet
    /\ combined = <<>>

\* The code of the plan before is still being counted.
NextPlan_keepsPc(s) ==
    /\ stage = "ready"
    /\ stage' = "emit"
    /\ plan' = s
    /\ slots' = Count(s) + 1
    /\ pps' = 1
    /\ pAddr' = 0 /\ pN' = 0 /\ pLUT' = 0
    /\ code' = <<>>
    /\ regs' = NotSet
    /\ combined' = <<>>
    /\ UNCHANGED pc

\* The plan is freed and ffts_init_1d comes here with one of 2^s points.
NextPlan(s) ==
    /\ stage = "ready"
    /\ stage' = "emit"
    /\ plan' = s
    /\ slots' = Count(s) + 1
    /\ pps' = 1
    /\ pAddr' = 0 /\ pN' = 0 /\ pLUT' = 0
    /\ code' = <<>>
    /\ pc' = 1
    /\ regs' = NotSet
    /\ combined' = <<>>

-----------------------------------------------------------------------------
(* The generator.  transform_size is what ffts_init_1d maps for it.        *)

Entry == Calls(plan)[pps]
Lut(size) == 8 * WsIs(size - LeafLog - 1)

Base(size) == IF size = LeafLog + 1 THEN "x_4" ELSE "x_8"

\* The change of the data register is counted from the start of the output.
AddrBefore_absolute == IF pN = 0 THEN 0 ELSE 4 * Entry.at

\* What is added to the data register: nothing before the first call.
AddrBefore == IF pN = 0 THEN 0 ELSE 4 * Entry.at - pAddr

ShiftBefore == IF pN = 0 THEN 0 ELSE Entry.size - pN

Block == [ mov |-> IF pN = 0 THEN Entry.size ELSE 0,
           addr |-> AddrBefore,
           shift |-> ShiftBefore,
           lut |-> Lut(Entry.size) - pLUT,
           base |-> Base(Entry.size) ]

Emit ==
    /\ stage = "emit"
    /\ pps <= Len(Calls(plan))
    /\ code' = Append(code, Block)
    /\ pAddr' = 4 * Entry.at
    /\ pN' = Entry.size
    /\ pLUT' = Lut(Entry.size)
    /\ pps' = pps + 1
    /\ UNCHANGED <<stage, plan, slots, pc, regs, combined>>

\* The sentinel ends the list: epilogue and return.
EmitEnd ==
    /\ stage = "emit"
    /\ pps = Len(Calls(plan)) + 1
    /\ stage' = "ready"
    /\ UNCHANGED <<plan, generator, pc, regs, combined>>

-----------------------------------------------------------------------------
(* The generated function.                                                 *)

\* ffts_execute: the caller passes the output buffer, and the code after the leaves
\* loads p->ws.  The size register is free: the first block loads it.
Execute ==
    /\ stage = "ready"
    /\ stage' = "run"
    /\ regs' = NotSet
    /\ pc' = 1
    /\ combined' = <<>>
    /\ UNCHANGED <<plan, generator>>

\* A block is run: the registers change, and the routine called leaves them alone.
RunBlock ==
    /\ stage = "run"
    /\ pc <= Len(code)
    /\ regs' = [ data |-> regs.data + code[pc].addr,
                 size |-> IF code[pc].mov # 0 THEN code[pc].mov
                          ELSE regs.size + code[pc].shift,
                 lut |-> regs.lut + code[pc].lut ]
    /\ pc' = pc + 1
    /\ combined' = Append(combined, [size |-> regs'.size, pos |-> regs'.data \div 8])
    /\ UNCHANGED <<stage, plan, generator>>

Return ==
    /\ stage = "run"
    /\ pc = Len(code) + 1
    /\ stage' = "ready"
    /\ UNCHANGED <<plan, generator, pc, regs, combined>>

Next ==
    \/ Emit
    \/ EmitEnd
    \/ Execute
    \/ RunBlock
    \/ Return
    \/ \E s \in Sizes : NextPlan(s)

Spec == Init /\ [][Next]_vars

-----------------------------------------------------------------------------
(* Properties.                                                             *)

\* A call finds in the registers the operands of its own entry of the list, not
\* what the differences added up to (codegen.c:239-308), in every run.
RegistersRight ==
    stage = "run" /\ pc > 1 =>
        /\ regs.data = 4 * Calls(plan)[pc - 1].at
        /\ regs.size = Calls(plan)[pc - 1].size
        /\ regs.lut = Lut(Calls(plan)[pc - 1].size)

\* The list and its sentinel fit in what was allocated for them.
ListFits == Len(Calls(plan)) + 1 <= slots

\* An execution combines every sub-transform exactly once, none before the composite
\* parts it is made of (codegen.c:87-103, 239-308), and the next one begins when all are
\* there.
Abstract == INSTANCE SubTransforms WITH root <- plan, done <- combined
ImplementsSubTransforms == Abstract!Spec
==============================================================================
