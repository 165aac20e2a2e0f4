----------------------------- MODULE CodegenProofs -----------------------------
(***************************************************************************)
(* The generated code gives every call its operands, for every plan size   *)
(* and every list of calls that begins at the start of the output.         *)
(*                                                                         *)
(* The invariant ties three things together: what the generator remembers  *)
(* is the last entry it emitted; each block holds the difference of its    *)
(* entry to the one before; and the registers hold the operands of the     *)
(* last call that ran.                                                     *)
(*                                                                         *)
(* For the list that ffts_elaborate_tree makes, more is shown: it fits in  *)
(* the memory allocated for it, holds the sub-transforms of the recursion  *)
(* and no others, and each after its parts.  So the generated function     *)
(* implements SubTransforms.  The machine code takes no other steps.       *)
(***************************************************************************)
EXTENDS MachineCode, TLAPS, WellFoundedInduction, SequenceTheorems

\* The block of entry i of the list for 2^s points.
BlockOf(s, i) ==
    [ mov |-> IF i = 1 THEN Calls(s)[1].size ELSE 0,
      addr |-> IF i = 1 THEN 0 ELSE 4 * Calls(s)[i].at - 4 * Calls(s)[i-1].at,
      shift |-> IF i = 1 THEN 0 ELSE Calls(s)[i].size - Calls(s)[i-1].size,
      lut |-> IF i = 1 THEN Lut(Calls(s)[1].size)
              ELSE Lut(Calls(s)[i].size) - Lut(Calls(s)[i-1].size),
      base |-> Base(Calls(s)[i].size) ]

\* What the generator remembers.
Remembers ==
    /\ pps = 1 => pAddr = 0 /\ pN = 0 /\ pLUT = 0
    /\ pps > 1 => /\ pAddr = 4 * Calls(plan)[pps - 1].at
                  /\ pN = Calls(plan)[pps - 1].size
                  /\ pLUT = Lut(Calls(plan)[pps - 1].size)

\* What has been emitted.
Emitted ==
    /\ code \in Seq(Blocks)
    /\ Len(code) = pps - 1
    /\ \A i \in 1..Len(code) : code[i] = BlockOf(plan, i)

\* What a run finds in the registers.
Loaded ==
    /\ regs \in Registers
    /\ stage # "emit" => pps = Len(Calls(plan)) + 1
    /\ pc \in 1..(Len(code) + 1)
    /\ stage = "run" /\ pc = 1 => regs.data = 0 /\ regs.lut = 0
    /\ RegistersRight

IInv ==
    /\ stage \in {"emit", "ready", "run"}
    /\ plan \in Sizes
    /\ pps \in 1..(Len(Calls(plan)) + 1)
    /\ Remembers
    /\ Emitted
    /\ Loaded

LEMMA SeqElement ==
    ASSUME NEW T, NEW c \in Seq(T), NEW i \in 1..Len(c)
    PROVE  c[i] \in T
OBVIOUS

LEMMA Differences ==
    ASSUME NEW a \in Nat, NEW b \in Nat
    PROVE  4 * a - 4 * b \in Int /\ a - b \in Int
OBVIOUS

\* The entries of a list: sizes that are not zero, and twiddle factors somewhere.
LEMMA EntryType ==
    ASSUME NEW s \in Sizes, NEW i \in 1..Len(Calls(s))
    PROVE  /\ Calls(s)[i].size \in Nat \ {0}
           /\ Calls(s)[i].at \in Nat
           /\ Lut(Calls(s)[i].size) \in Nat
<1>1. Calls(s) \in Seq([size : Nat \ {0}, at : Nat])
  BY CallsAssumption
<1>2. Calls(s)[i] \in [size : Nat \ {0}, at : Nat]
  BY <1>1, SeqElement
<1>3. WsIs(Calls(s)[i].size - LeafLog - 1) \in Nat
  BY WsIsInNat
<1>. QED BY <1>2, <1>3 DEF Lut

\* The list of every plan has an entry, and the first lies at the start.
LEMMA FirstEntry ==
    ASSUME NEW s \in Sizes
    PROVE  /\ Len(Calls(s)) \in Nat
           /\ 1 \in 1..Len(Calls(s))
           /\ Calls(s)[1].at = 0
<1>1. Calls(s) \in Seq([size : Nat \ {0}, at : Nat]) /\ Len(Calls(s)) >= 1
  BY CallsAssumption
<1>2. Len(Calls(s)) \in Nat
  BY <1>1
<1>. QED BY <1>1, <1>2, CallsAssumption

\* A block is of the type that blocks have.
LEMMA BlockOfType ==
    ASSUME NEW s \in Sizes, NEW i \in 1..Len(Calls(s))
    PROVE  BlockOf(s, i) \in Blocks
<1>1. /\ Calls(s)[i].size \in Nat \ {0}
      /\ Calls(s)[i].at \in Nat
      /\ Lut(Calls(s)[i].size) \in Nat
  BY EntryType
<1>2. CASE i = 1
  BY <1>1, <1>2 DEF BlockOf, Blocks, Base
<1>3. CASE i # 1
  <2>1. i - 1 \in 1..Len(Calls(s))
    BY <1>3, FirstEntry
  <2>2. /\ Calls(s)[i-1].size \in Nat \ {0}
        /\ Calls(s)[i-1].at \in Nat
        /\ Lut(Calls(s)[i-1].size) \in Nat
    BY <2>1, EntryType
  <2>3. 4 * Calls(s)[i].at - 4 * Calls(s)[i-1].at \in Int
        /\ Calls(s)[i].size - Calls(s)[i-1].size \in Int
        /\ Lut(Calls(s)[i].size) - Lut(Calls(s)[i-1].size) \in Int
    <3>1. Calls(s)[i].size \in Nat /\ Calls(s)[i-1].size \in Nat
      BY <1>1, <2>2
    <3>. QED BY <1>1, <2>2, <3>1, Differences
  <2>4. BlockOf(s, i) =
          [ mov |-> 0,
            addr |-> 4 * Calls(s)[i].at - 4 * Calls(s)[i-1].at,
            shift |-> Calls(s)[i].size - Calls(s)[i-1].size,
            lut |-> Lut(Calls(s)[i].size) - Lut(Calls(s)[i-1].size),
            base |-> Base(Calls(s)[i].size) ]
    BY <1>3 DEF BlockOf
  <2>5. Base(Calls(s)[i].size) \in {"x_4", "x_8"}
    BY DEF Base
  <2>. QED BY <2>3, <2>4, <2>5 DEF Blocks
<1>. QED BY <1>2, <1>3

LEMMA InitIInv == Init => IInv
<1>. SUFFICES ASSUME Init PROVE IInv
  OBVIOUS
<1>1. plan \in Sizes
  BY DEF Init
<1>2. Len(Calls(plan)) \in Nat /\ Len(Calls(plan)) >= 1
  BY <1>1, FirstEntry
<1>. QED
  BY <1>1, <1>2 DEF Init, IInv, Remembers, Emitted, Loaded, NotSet, Registers, RegistersRight, Blocks

\* The block that is emitted is the difference of its entry to the one before.
LEMMA BlockRight ==
    ASSUME IInv, pps <= Len(Calls(plan))
    PROVE  Block = BlockOf(plan, pps)
<1>1. plan \in Sizes /\ pps \in 1..Len(Calls(plan))
  BY FirstEntry DEF IInv
<1>2. CASE pps = 1
  <2>1. pN = 0 /\ pLUT = 0
    BY <1>2 DEF IInv, Remembers
  <2>2. Lut(Calls(plan)[1].size) \in Nat
    BY <1>1, <1>2, EntryType
  <2>. QED BY <1>2, <2>1, <2>2 DEF Block, BlockOf, Entry, AddrBefore, ShiftBefore
<1>3. CASE pps > 1
  <2>1. pps - 1 \in 1..Len(Calls(plan))
    BY <1>1, <1>3, FirstEntry
  <2>2. pN # 0
    BY <1>1, <1>3, <2>1, EntryType DEF IInv, Remembers
  <2>3. pAddr = 4 * Calls(plan)[pps - 1].at /\ pN = Calls(plan)[pps - 1].size
        /\ pLUT = Lut(Calls(plan)[pps - 1].size) /\ pps # 1
    BY <1>3 DEF IInv, Remembers
  <2>. QED BY <2>2, <2>3 DEF Block, BlockOf, Entry, AddrBefore, ShiftBefore
<1>. QED BY <1>1, <1>2, <1>3

LEMMA EmitStep ==
    ASSUME IInv, Emit
    PROVE  IInv'
<1>1. plan \in Sizes /\ pps \in 1..Len(Calls(plan)) /\ plan' = plan
      /\ stage = "emit" /\ stage' = "emit" /\ pps' = pps + 1 /\ pc' = pc /\ regs' = regs
  BY FirstEntry DEF IInv, Emit
<1>2. Len(Calls(plan)) \in Nat
  BY <1>1, FirstEntry
<1>3. code \in Seq(Blocks) /\ Len(code) = pps - 1
  BY DEF IInv, Emitted
<1>4. Block = BlockOf(plan, pps) /\ Block \in Blocks
  BY <1>1, BlockRight, BlockOfType
<1>5. code' = Append(code, Block)
  BY DEF Emit
<1>6. /\ code' \in Seq(Blocks)
      /\ Len(code') = pps
      /\ \A i \in 1..Len(code) : code'[i] = code[i]
      /\ code'[pps] = Block
  BY <1>1, <1>3, <1>4, <1>5
<1>7. Remembers'
  <2>1. pAddr' = 4 * Calls(plan)[pps].at /\ pN' = Calls(plan)[pps].size
        /\ pLUT' = Lut(Calls(plan)[pps].size)
    BY DEF Emit, Entry
  <2>2. pps' - 1 = pps /\ pps' # 1
    BY <1>1
  <2>. QED BY <1>1, <2>1, <2>2 DEF Remembers, Lut
<1>8. Emitted'
  <2>1. \A i \in 1..Len(code') : code'[i] = BlockOf(plan, i)
    <3>1. \A i \in 1..Len(code) : code[i] = BlockOf(plan, i)
      BY DEF IInv, Emitted
    <3>. QED BY <1>1, <1>3, <1>4, <1>6, <3>1
  <2>. QED BY <1>1, <1>6, <2>1 DEF Emitted, BlockOf, Lut, Base
<1>9. Loaded'
  BY <1>1, <1>3, <1>6 DEF IInv, Loaded, RegistersRight
<1>. QED BY <1>1, <1>2, <1>7, <1>8, <1>9 DEF IInv

\* Running block i takes the registers from the operands of call i-1 to those of i.
LEMMA RunBlockStep ==
    ASSUME IInv, RunBlock
    PROVE  IInv'
<1>1. plan \in Sizes /\ plan' = plan /\ stage = "run" /\ stage' = "run"
      /\ pc' = pc + 1 /\ code' = code /\ pps' = pps
      /\ pAddr' = pAddr /\ pN' = pN /\ pLUT' = pLUT
  BY DEF IInv, RunBlock, generator
<1>2. pc \in 1..Len(code) /\ Len(code) = Len(Calls(plan)) /\ Len(code) \in Nat
  <2>1. Len(Calls(plan)) \in Nat
    BY <1>1, FirstEntry
  <2>. QED BY <1>1, <2>1 DEF IInv, Emitted, Loaded, RunBlock
<1>3. code[pc] = BlockOf(plan, pc)
  BY <1>2 DEF IInv, Emitted
<1>4. regs \in Registers
  BY DEF IInv, Loaded
<1>5. /\ Calls(plan)[pc].size \in Nat \ {0}
      /\ Calls(plan)[pc].at \in Nat
      /\ Lut(Calls(plan)[pc].size) \in Nat
  BY <1>1, <1>2, EntryType
<1>6. regs' = [ data |-> regs.data + code[pc].addr,
                size |-> IF code[pc].mov # 0 THEN code[pc].mov
                         ELSE regs.size + code[pc].shift,
                lut |-> regs.lut + code[pc].lut ]
  BY DEF RunBlock
<1>7. regs' = [ data |-> 4 * Calls(plan)[pc].at,
                size |-> Calls(plan)[pc].size,
                lut |-> Lut(Calls(plan)[pc].size) ]
  <2>1. CASE pc = 1
    <3>1. regs.data = 0 /\ regs.lut = 0
      BY <1>1, <2>1 DEF IInv, Loaded
    <3>2. Calls(plan)[1].at = 0
      BY <1>1, FirstEntry
    <3>3. /\ code[pc].addr = 0
          /\ code[pc].mov = Calls(plan)[pc].size
          /\ code[pc].lut = Lut(Calls(plan)[pc].size)
      BY <1>3, <2>1 DEF BlockOf
    <3>. QED BY <1>5, <1>6, <2>1, <3>1, <3>2, <3>3
  <2>2. CASE pc > 1
    <3>1. pc - 1 \in 1..Len(Calls(plan))
      BY <1>2, <2>2
    <3>2. /\ Calls(plan)[pc-1].size \in Nat \ {0}
          /\ Calls(plan)[pc-1].at \in Nat
          /\ Lut(Calls(plan)[pc-1].size) \in Nat
      BY <1>1, <3>1, EntryType
    <3>3. /\ regs.data = 4 * Calls(plan)[pc-1].at
          /\ regs.size = Calls(plan)[pc-1].size
          /\ regs.lut = Lut(Calls(plan)[pc-1].size)
      BY <1>1, <2>2 DEF IInv, Loaded, RegistersRight
    <3>4. /\ code[pc].addr = 4 * Calls(plan)[pc].at - 4 * Calls(plan)[pc-1].at
          /\ code[pc].mov = 0
          /\ code[pc].shift = Calls(plan)[pc].size - Calls(plan)[pc-1].size
          /\ code[pc].lut = Lut(Calls(plan)[pc].size) - Lut(Calls(plan)[pc-1].size)
      BY <1>2, <1>3, <2>2 DEF BlockOf
    <3>. QED BY <1>5, <1>6, <3>2, <3>3, <3>4
  <2>. QED BY <1>2, <2>1, <2>2
<1>8. Loaded'
  <2>1. regs' \in Registers
    BY <1>5, <1>7 DEF Registers
  <2>2. RegistersRight'
    <3>1. pc' - 1 = pc
      BY <1>1, <1>2
    <3>2. regs'.data = 4 * Calls(plan)[pc].at /\ regs'.size = Calls(plan)[pc].size
          /\ regs'.lut = Lut(Calls(plan)[pc].size)
      BY <1>7
    <3>. QED BY <1>1, <3>1, <3>2 DEF RegistersRight, Lut
  <2>. QED BY <1>1, <1>2, <2>1, <2>2 DEF IInv, Loaded
<1>9. Remembers' /\ Emitted'
  BY <1>1 DEF IInv, Remembers, Emitted, BlockOf, Lut, Base
<1>. QED BY <1>1, <1>8, <1>9 DEF IInv

LEMMA NextPlanStep ==
    ASSUME IInv, NEW s \in Sizes, NextPlan(s)
    PROVE  IInv'
<1>1. Len(Calls(s)) \in Nat
  BY FirstEntry
<1>. QED
  BY <1>1 DEF NextPlan, IInv, Remembers, Emitted, Loaded, NotSet, Registers, RegistersRight,
              Blocks

\* The other steps leave the code as it is.
LEMMA QuietStep ==
    ASSUME IInv, EmitEnd \/ Execute \/ Return \/ UNCHANGED vars
    PROVE  IInv'
<1>1. /\ plan' = plan /\ pps' = pps /\ code' = code
      /\ pAddr' = pAddr /\ pN' = pN /\ pLUT' = pLUT
  BY DEF EmitEnd, Execute, Return, vars, generator
<1>2. Remembers' /\ Emitted'
  BY <1>1 DEF IInv, Remembers, Emitted, BlockOf, Lut, Base
<1>3. Loaded'
  <2>1. CASE Execute
    <3>1. Len(code) \in Nat /\ pps = Len(Calls(plan)) + 1
      BY <2>1 DEF Execute, IInv, Emitted, Loaded
    <3>2. regs' = NotSet /\ pc' = 1 /\ stage' = "run"
      BY <2>1 DEF Execute
    <3>3. regs' \in Registers /\ regs'.data = 0 /\ regs'.lut = 0
      BY <3>2 DEF NotSet, Registers
    <3>. QED BY <1>1, <3>1, <3>2, <3>3 DEF Loaded, RegistersRight
  <2>2. CASE EmitEnd \/ Return
    BY <1>1, <2>2 DEF EmitEnd, Return, IInv, Loaded, RegistersRight
  <2>3. CASE UNCHANGED vars
    BY <1>1, <2>3 DEF vars, IInv, Loaded, RegistersRight, Lut
  <2>. QED BY <2>1, <2>2, <2>3
<1>4. stage' \in {"emit", "ready", "run"}
  BY DEF EmitEnd, Execute, Return, vars, IInv
<1>. QED BY <1>1, <1>2, <1>3, <1>4 DEF IInv

\* The invariant holds in every reachable state.
THEOREM CodegenInductive == Spec => []IInv
<1>1. IInv /\ [Next]_vars => IInv'
  BY EmitStep, RunBlockStep, NextPlanStep, QuietStep DEF Next
<1>. QED BY InitIInv, <1>1, PTL DEF Spec

\* Every call of every run finds the operands of its own sub-transform in the
\* registers (codegen.c:241-307), whatever the sizes, the twiddle offsets and the
\* list of calls, as long as the first call is at the start of the output.
THEOREM RegistersAlwaysRight == Spec => []RegistersRight
<1>1. IInv => RegistersRight
  BY DEF IInv, Loaded
<1>. QED BY CodegenInductive, <1>1, PTL

-----------------------------------------------------------------------------
(* The types of the other variables.                                       *)

Typed ==
    /\ IInv
    /\ slots \in Nat
    /\ combined \in Seq([size : Int, pos : Int])

LEMMA TypedStep ==
    ASSUME \A s \in Sizes : Count(s) \in Nat, Typed, [Next]_vars
    PROVE  Typed'
<1>1. IInv'
  BY EmitStep, RunBlockStep, NextPlanStep, QuietStep DEF Next, Typed
<1>2. slots' \in Nat
  <2>1. CASE \E s \in Sizes : NextPlan(s)
    <3>1. PICK s \in Sizes : NextPlan(s)
      BY <2>1
    <3>2. slots' = Count(s) + 1 /\ Count(s) \in Nat
      BY <3>1 DEF NextPlan
    <3>. QED BY <3>2
  <2>2. CASE ~\E s \in Sizes : NextPlan(s)
    BY <2>2 DEF Typed, Next, Emit, EmitEnd, Execute, RunBlock, Return, vars, generator
  <2>. QED BY <2>1, <2>2
<1>3. combined' \in Seq([size : Int, pos : Int])
  <2>1. CASE RunBlock
    <3>1. regs'.size \in Int /\ regs'.data \in Int
      BY <1>1 DEF IInv, Loaded, Registers
    <3>2. regs'.data \div 8 \in Int
      BY <3>1
    <3>. QED BY <2>1, <3>1, <3>2 DEF RunBlock, Typed
  <2>2. CASE Emit \/ EmitEnd \/ Return \/ UNCHANGED vars
    BY <2>2 DEF Typed, Emit, EmitEnd, Return, vars
  <2>3. CASE Execute \/ \E s \in Sizes : NextPlan(s)
    <3>1. combined' = <<>>
      BY <2>3 DEF Execute, NextPlan
    <3>. QED BY <3>1
  <2>. QED BY <2>1, <2>2, <2>3 DEF Next, Typed
<1>. QED BY <1>1, <1>2, <1>3 DEF Typed

LEMMA TypedIsTypeOK == Typed => TypeOK
<1>. SUFFICES ASSUME Typed PROVE TypeOK
  OBVIOUS
<1>1. /\ plan \in Sizes /\ pps \in 1..(Len(Calls(plan)) + 1)
      /\ Remembers /\ Emitted /\ Loaded
  BY DEF Typed, IInv
<1>2. pAddr \in Nat /\ pN \in Nat /\ pLUT \in Nat
  <2>1. CASE pps = 1
    BY <1>1, <2>1 DEF Remembers
  <2>2. CASE pps > 1
    <3>1. pps - 1 \in 1..Len(Calls(plan))
      BY <1>1, <2>2, FirstEntry
    <3>2. /\ Calls(plan)[pps - 1].size \in Nat /\ Calls(plan)[pps - 1].at \in Nat
          /\ Lut(Calls(plan)[pps - 1].size) \in Nat
      BY <1>1, <3>1, EntryType
    <3>. QED BY <1>1, <2>2, <3>2 DEF Remembers
  <2>. QED BY <1>1, <2>1, <2>2, FirstEntry
<1>. QED BY <1>1, <1>2 DEF Typed, IInv, TypeOK, Emitted, Loaded

\* The variables have their types, if the number of transforms that are no leaves is a
\* number (codegen.c:52).
THEOREM AlwaysTyped ==
    ASSUME \A s \in Sizes : Count(s) \in Nat
    PROVE  Spec => []TypeOK
<1>1. Init => Typed
  <2>. SUFFICES ASSUME Init PROVE Typed
    OBVIOUS
  <2>1. plan \in Sizes /\ slots = Count(plan) + 1 /\ combined = <<>>
    BY DEF Init
  <2>2. slots \in Nat
    BY <2>1
  <2>. QED BY <2>1, <2>2, InitIInv DEF Typed
<1>2. Typed /\ [Next]_vars => Typed'
  BY TypedStep
<1>. QED BY <1>1, <1>2, TypedIsTypeOK, PTL DEF Spec

-----------------------------------------------------------------------------
(* The list of calls and the entries allocated for it.                     *)

Least(S) == CHOOSE m \in S : \A k \in S : m <= k

LEMMA LeastIsLeast ==
    ASSUME NEW S \in SUBSET Nat, S # {}
    PROVE  Least(S) \in S /\ \A k \in S : Least(S) <= k
<1>1. \E below : /\ \E m \in S : \A k \in S : <<k, m>> \notin below
                 /\ \A k, m \in Nat : k < m => <<k, m>> \in below
  <2>. WITNESS OpToRel(<, Nat)
  <2>1. \E m \in S : \A k \in S : <<k, m>> \notin OpToRel(<, Nat)
    BY NatLessThanWellFounded, WFMin
  <2>2. \A k, m \in Nat : k < m => <<k, m>> \in OpToRel(<, Nat)
    BY DEF OpToRel
  <2>. QED BY <2>1, <2>2, Zenon
<1>2. PICK below : /\ \E m \in S : \A k \in S : <<k, m>> \notin below
                   /\ \A k, m \in Nat : k < m => <<k, m>> \in below
  BY <1>1
<1>3. PICK m \in S : \A k \in S : <<k, m>> \notin below
  BY <1>2
<1>4. ASSUME NEW k \in S PROVE m <= k
  <2>1. ~(k < m)
    BY <1>2, <1>3, Zenon
  <2>. QED BY <2>1
<1>. QED BY <1>4 DEF Least

\* A list of n entries, whatever they are.
IsList(list, n) == n \in Nat /\ list = [i \in 1..n |-> list[i]]

LEMMA ListLength ==
    ASSUME NEW list, NEW n \in Nat, IsList(list, n)
    PROVE  Len(list) = n
<1>. DEFINE T == {list[i] : i \in 1..n}
<1>1. list \in [1..n -> T]
  BY DEF IsList
<1>2. list \in Seq(T) /\ DOMAIN list = 1..n
  BY <1>1
<1>. QED BY <1>2

LEMMA Concatenation ==
    ASSUME NEW a, NEW b, NEW m \in Nat, NEW n \in Nat, IsList(a, m), IsList(b, n)
    PROVE  IsList(a \o b, m + n)
<1>. DEFINE T == {a[i] : i \in 1..m} \cup {b[i] : i \in 1..n}
<1>1. a \in [1..m -> T] /\ b \in [1..n -> T]
  BY DEF IsList
<1>2. a \in Seq(T) /\ b \in Seq(T) /\ Len(a) = m /\ Len(b) = n
  BY <1>1, ListLength
<1>. HIDE DEF T
<1>. DEFINE ab == a \o b
<1>3. ab \in Seq(T) /\ Len(ab) = m + n
  BY <1>2
<1>. HIDE DEF ab
<1>4. ab \in [1..(m + n) -> T]
  BY <1>3, LenProperties
<1>5. IsList(ab, m + n)
  BY <1>4 DEF IsList
<1>. QED BY <1>5 DEF ab

\* The entry for 2^s points of the list of all lists, and of the counts.
ListOf(f, s) ==
    IF s <= LeafLog THEN <<>>
    ELSE Abstract!Listed(
             [i \in 1..5 |-> Abstract!Moved(f[Abstract!Parts(s)[i].size], Abstract!Parts(s)[i].pos)],
             <<[size |-> s, at |-> 0]>>)

CountOf(f, s) == IF s <= LeafLog THEN 0 ELSE 1 + 3 * f[s - 2] + 2 * f[s - 3]

\* The parts of a transform are smaller than it.
LEMMA PartSizes ==
    ASSUME NEW s \in Nat, NEW i \in 1..5
    PROVE  Abstract!Parts(s)[i].size = IF i \in {2, 3} THEN s - 3 ELSE s - 2
<1>1. i = 1 \/ i = 2 \/ i = 3 \/ i = 4 \/ i = 5
  OBVIOUS
<1>. QED BY <1>1 DEF Abstract!Parts

LEMMA ListOfSame ==
    ASSUME NEW s \in Nat, NEW f, NEW g, LeafLog = 3,
           s > LeafLog => f[s - 2] = g[s - 2] /\ f[s - 3] = g[s - 3]
    PROVE  ListOf(f, s) = ListOf(g, s)
<1>1. CASE s <= LeafLog
  BY <1>1 DEF ListOf
<1>2. CASE s > LeafLog
  <2>1. \A i \in 1..5 : f[Abstract!Parts(s)[i].size] = g[Abstract!Parts(s)[i].size]
    BY <1>2, PartSizes
  <2>2. [i \in 1..5 |-> Abstract!Moved(f[Abstract!Parts(s)[i].size], Abstract!Parts(s)[i].pos)]
        = [i \in 1..5 |-> Abstract!Moved(g[Abstract!Parts(s)[i].size], Abstract!Parts(s)[i].pos)]
    BY <2>1
  <2>. QED BY <2>2 DEF ListOf
<1>. QED BY <1>1, <1>2

\* The recursive functions exist, so that their definitions say what they are.
LEMMA ListsExist ==
    ASSUME LeafLog = 3
    PROVE  \E f : f = [s \in 0..MaxLog |-> ListOf(f, s)]
<1>. DEFINE Good(n) == \E f : f = [s \in 0..n |-> ListOf(f, s)]
            S == {n \in Nat : ~Good(n)}
<1>1. SUFFICES ASSUME S # {} PROVE FALSE
  BY SizesAssumption
<1>. DEFINE m == Least(S)
<1>2. m \in S /\ \A n \in S : m <= n
  BY <1>1, LeastIsLeast
<1>. HIDE DEF m
<1>3. CASE m = 0
  <2>. DEFINE g == [s \in 0..0 |-> <<>>]
  <2>1. \A s \in 0..0 : g[s] = ListOf(g, s)
    BY DEF ListOf
  <2>2. g = [s \in 0..0 |-> ListOf(g, s)]
    BY <2>1
  <2>. QED BY <1>2, <1>3, <2>2
<1>4. CASE m # 0
  <2>1. m - 1 \in Nat /\ m - 1 \notin S
    BY <1>2, <1>4
  <2>2. PICK f : f = [s \in 0..(m - 1) |-> ListOf(f, s)]
    BY <2>1
  <2>. DEFINE g == [s \in 0..m |-> IF s = m THEN ListOf(f, m) ELSE f[s]]
  <2>3. \A s \in 0..(m - 1) : g[s] = f[s]
    BY <1>2
  <2>4. ASSUME NEW s \in 0..m PROVE g[s] = ListOf(g, s)
    <3>. HIDE DEF g
    <3>1. s > LeafLog => g[s - 2] = f[s - 2] /\ g[s - 3] = f[s - 3]
      <4>. SUFFICES ASSUME s > LeafLog PROVE g[s - 2] = f[s - 2] /\ g[s - 3] = f[s - 3]
        OBVIOUS
      <4>1. s - 2 \in 0..(m - 1) /\ s - 3 \in 0..(m - 1)
        BY <1>2
      <4>. QED BY <2>3, <4>1
    <3>2. ListOf(g, s) = ListOf(f, s)
      BY <3>1, ListOfSame
    <3>3. g[s] = ListOf(f, s)
      <4>1. CASE s = m
        BY <4>1 DEF g
      <4>2. CASE s # m
        <5>1. s \in 0..(m - 1)
          BY <1>2, <4>2
        <5>. QED BY <2>2, <2>3, <5>1
      <4>. QED BY <4>1, <4>2
    <3>. QED BY <3>2, <3>3
  <2>5. g = [s \in 0..m |-> ListOf(g, s)]
    <3>1. g = [s \in 0..m |-> g[s]]
      OBVIOUS
    <3>. HIDE DEF g
    <3>. QED BY <2>4, <3>1
  <2>. QED BY <1>2, <2>5
<1>. QED BY <1>3, <1>4

LEMMA CountsExist ==
    ASSUME LeafLog = 3
    PROVE  \E f : f = [s \in 0..MaxLog |-> CountOf(f, s)]
<1>. DEFINE Good(n) == \E f : f = [s \in 0..n |-> CountOf(f, s)]
            S == {n \in Nat : ~Good(n)}
<1>1. SUFFICES ASSUME S # {} PROVE FALSE
  BY SizesAssumption
<1>. DEFINE m == Least(S)
<1>2. m \in S /\ \A n \in S : m <= n
  BY <1>1, LeastIsLeast
<1>. HIDE DEF m
<1>3. CASE m = 0
  <2>. DEFINE g == [s \in 0..0 |-> 0]
  <2>1. g = [s \in 0..0 |-> CountOf(g, s)]
    BY DEF CountOf
  <2>. QED BY <1>2, <1>3, <2>1
<1>4. CASE m # 0
  <2>1. m - 1 \in Nat /\ m - 1 \notin S
    BY <1>2, <1>4
  <2>2. PICK f : f = [s \in 0..(m - 1) |-> CountOf(f, s)]
    BY <2>1
  <2>. DEFINE g == [s \in 0..m |-> IF s = m THEN CountOf(f, m) ELSE f[s]]
  <2>3. \A s \in 0..(m - 1) : g[s] = f[s]
    BY <1>2
  <2>4. ASSUME NEW s \in 0..m PROVE g[s] = CountOf(g, s)
    <3>. HIDE DEF g
    <3>1. CountOf(g, s) = CountOf(f, s)
      <4>1. CASE s > LeafLog
        <5>1. s - 2 \in 0..(m - 1) /\ s - 3 \in 0..(m - 1)
          BY <1>2, <4>1
        <5>. QED BY <2>3, <5>1 DEF CountOf
      <4>2. CASE s <= LeafLog
        BY <4>2 DEF CountOf
      <4>. QED BY <4>1, <4>2
    <3>2. g[s] = CountOf(f, s)
      <4>1. CASE s = m
        BY <4>1 DEF g
      <4>2. CASE s # m
        <5>1. s \in 0..(m - 1)
          BY <1>2, <4>2
        <5>. QED BY <2>2, <2>3, <5>1
      <4>. QED BY <4>1, <4>2
    <3>. QED BY <3>1, <3>2
  <2>5. g = [s \in 0..m |-> CountOf(g, s)]
    <3>1. g = [s \in 0..m |-> g[s]]
      OBVIOUS
    <3>. HIDE DEF g
    <3>. QED BY <2>4, <3>1
  <2>. QED BY <1>2, <2>5
<1>. QED BY <1>3, <1>4

LEMMA TreeEquations ==
    ASSUME LeafLog = 3
    PROVE  /\ \A s \in 0..MaxLog : Abstract!Elaborate[s] = ListOf(Abstract!Elaborate, s)
           /\ \A s \in 0..MaxLog : Abstract!TreeCount[s] = CountOf(Abstract!TreeCount, s)
<1>1. Abstract!Elaborate = CHOOSE f : f = [s \in 0..MaxLog |-> ListOf(f, s)]
  BY DEF Abstract!Elaborate, ListOf
<1>2. Abstract!TreeCount = CHOOSE f : f = [s \in 0..MaxLog |-> CountOf(f, s)]
  BY DEF Abstract!TreeCount, CountOf, Abstract!Counted
<1>3. Abstract!Elaborate = [s \in 0..MaxLog |-> ListOf(Abstract!Elaborate, s)]
  BY <1>1, ListsExist
<1>4. Abstract!TreeCount = [s \in 0..MaxLog |-> CountOf(Abstract!TreeCount, s)]
  BY <1>2, CountsExist
<1>. QED BY <1>3, <1>4, Zenon

LEMMA MovedList ==
    ASSUME NEW list, NEW n \in Nat, NEW pos, IsList(list, n)
    PROVE  IsList(Abstract!Moved(list, pos), n)
<1>1. DOMAIN list = 1..n
  BY DEF IsList
<1>. QED BY <1>1 DEF IsList, Abstract!Moved

\* A list has as many entries as its parts, and one more.
LEMMA ListedLength ==
    ASSUME NEW f, NEW s \in Nat, s > LeafLog, LeafLog = 3,
           NEW a \in Nat, NEW b \in Nat, IsList(f[s - 2], a), IsList(f[s - 3], b)
    PROVE  IsList(ListOf(f, s), 1 + 3 * a + 2 * b)
<1>. DEFINE Part(i) == Abstract!Moved(f[Abstract!Parts(s)[i].size], Abstract!Parts(s)[i].pos)
            part == [i \in 1..5 |-> Part(i)]
            whole == <<[size |-> s, at |-> 0]>>
<1>1. ListOf(f, s) =
        part[1] \o part[2] \o part[3] \o part[4] \o part[5] \o whole
  <2>1. ~(s <= LeafLog)
    OBVIOUS
  <2>2. ListOf(f, s) = Abstract!Listed(part, whole)
    BY <2>1, Zenon DEF ListOf
  <2>. HIDE DEF part, whole
  <2>3. Abstract!Listed(part, whole) =
          part[1] \o part[2] \o part[3] \o part[4] \o part[5] \o whole
    BY Zenon DEF Abstract!Listed
  <2>. QED BY <2>2, <2>3, Zenon
<1>2. \A i \in 1..5 : part[i] = Part(i)
  OBVIOUS
<1>3. ASSUME NEW i \in 1..5 PROVE IsList(Part(i), IF i \in {2, 3} THEN b ELSE a)
  <2>. DEFINE list == f[Abstract!Parts(s)[i].size]
  <2>1. IsList(list, IF i \in {2, 3} THEN b ELSE a)
    BY PartSizes
  <2>. HIDE DEF list
  <2>2. IsList(Abstract!Moved(list, Abstract!Parts(s)[i].pos), IF i \in {2, 3} THEN b ELSE a)
    BY <2>1, MovedList
  <2>. QED BY <2>2 DEF list
<1>. HIDE DEF Part
<1>4. /\ IsList(part[1], a) /\ IsList(part[2], b) /\ IsList(part[3], b)
      /\ IsList(part[4], a) /\ IsList(part[5], a)
  BY <1>2, <1>3
<1>5. IsList(whole, 1)
  BY DEF IsList
<1>. HIDE DEF part, whole
<1>6. IsList(part[1] \o part[2], a + b)
  BY <1>4, Concatenation
<1>7. IsList(part[1] \o part[2] \o part[3], a + b + b)
  BY <1>4, <1>6, Concatenation
<1>8. IsList(part[1] \o part[2] \o part[3] \o part[4], a + b + b + a)
  BY <1>4, <1>7, Concatenation
<1>9. IsList(part[1] \o part[2] \o part[3] \o part[4] \o part[5], a + b + b + a + a)
  BY <1>4, <1>8, Concatenation
<1>10. IsList(part[1] \o part[2] \o part[3] \o part[4] \o part[5] \o whole, a + b + b + a + a + 1)
  <2>1. a + b + b + a + a \in Nat /\ 1 \in Nat
    OBVIOUS
  <2>. QED BY <1>5, <1>9, <2>1, Concatenation
<1>11. a + b + b + a + a + 1 = 1 + 3 * a + 2 * b
  OBVIOUS
<1>. QED BY <1>1, <1>10, <1>11

\* ffts_tree_count counts what ffts_elaborate_tree lists.
LEMMA ListIsCounted ==
    ASSUME LeafLog = 3, NEW s \in 0..MaxLog
    PROVE  /\ Abstract!TreeCount[s] \in Nat
           /\ Len(Abstract!Elaborate[s]) = Abstract!TreeCount[s]
<1>. DEFINE E == Abstract!Elaborate
            C == Abstract!TreeCount
            Good(n) == C[n] \in Nat /\ IsList(E[n], C[n])
            S == {n \in Nat : n <= MaxLog /\ ~Good(n)}
<1>1. /\ \A n \in 0..MaxLog : E[n] = ListOf(E, n)
      /\ \A n \in 0..MaxLog : C[n] = CountOf(C, n)
  BY TreeEquations
<1>. HIDE DEF E, C
<1>2. S = {}
  <2>. SUFFICES ASSUME S # {} PROVE FALSE
    OBVIOUS
  <2>. DEFINE m == Least(S)
  <2>1. m \in S /\ \A n \in S : m <= n
    BY LeastIsLeast
  <2>. HIDE DEF m
  <2>2. m \in Nat /\ m <= MaxLog /\ ~Good(m) /\ m \in 0..MaxLog
    BY <2>1
  <2>3. CASE m <= LeafLog
    <3>1. E[m] = <<>> /\ C[m] = 0
      BY <1>1, <2>2, <2>3 DEF ListOf, CountOf
    <3>. QED BY <2>2, <3>1 DEF IsList
  <2>4. CASE m > LeafLog
    <3>1. m - 2 \in Nat /\ m - 3 \in Nat /\ m - 2 \notin S /\ m - 3 \notin S
      BY <2>1, <2>2, <2>4
    <3>2. Good(m - 2) /\ Good(m - 3)
      BY <2>2, <3>1, SizesAssumption
    <3>3. IsList(ListOf(E, m), 1 + 3 * C[m - 2] + 2 * C[m - 3])
      BY <2>2, <2>4, <3>2, ListedLength
    <3>4. C[m] = 1 + 3 * C[m - 2] + 2 * C[m - 3] /\ E[m] = ListOf(E, m)
      BY <1>1, <2>2, <2>4 DEF CountOf
    <3>. QED BY <2>2, <3>2, <3>3, <3>4
  <2>. QED BY <2>2, <2>3, <2>4
<1>3. Good(s)
  BY <1>2
<1>4. Len(E[s]) = C[s] /\ C[s] \in Nat
  BY <1>3, ListLength
<1>. QED BY <1>4 DEF E, C

\* The list of the calls of a plan, its sentinel included, fits in the memory that is
\* allocated for it (codegen.c:126-133), for every size of the recursion: what
\* ffts_tree_count counts is what ffts_elaborate_tree lists.
THEOREM ListAlwaysFits ==
    ASSUME LeafLog = 3,
           \A s \in Sizes : Calls(s) = Abstract!Elaborate[s] /\ Count(s) = Abstract!TreeCount[s]
    PROVE  Spec => []ListFits
<1>. DEFINE Fits == plan \in Sizes /\ slots = Count(plan) + 1
<1>1. Init => Fits
  BY DEF Init
<1>2. Fits /\ [Next]_vars => Fits'
  BY DEF Next, Emit, EmitEnd, Execute, RunBlock, Return, NextPlan, vars, generator
<1>3. Fits => ListFits
  <2>. SUFFICES ASSUME plan \in Sizes, slots = Count(plan) + 1 PROVE ListFits
    OBVIOUS
  <2>1. plan \in 0..MaxLog
    BY SizesAssumption
  <2>2. Len(Calls(plan)) = Count(plan) /\ Count(plan) \in Nat
    BY <2>1, ListIsCounted
  <2>. QED BY <2>2 DEF ListFits
<1>. QED BY <1>1, <1>2, <1>3, PTL DEF Spec

-----------------------------------------------------------------------------
(* The order of the list.                                                  *)

\* The sub-transform of an entry, and those of the first k entries of a list.
Node(entry) == [size |-> entry.size, pos |-> entry.at \div 2]
NodesTo(list, k) == {Node(list[i]) : i \in 1..k}

\* Sub-transforms that lie p points further on.
Shifted(t, p) == [size |-> t.size, pos |-> t.pos + p]
ShiftAll(T, p) == {Shifted(t, p) : t \in T}

CompositeParts(t) == Abstract!Composite(Abstract!PartsOf(t))

Entry4 == [size : 4..MaxLog, at : Int]
Node4 == [size : 4..MaxLog, pos : Int]

\* A list of the sub-transforms T, each after the composite parts it is made of.
Lists(list, T) ==
    /\ list \in Seq(Entry4)
    /\ \A i \in 1..Len(list) : CompositeParts(Node(list[i])) \subseteq NodesTo(list, i - 1)
    /\ NodesTo(list, Len(list)) = T

LEMMA NodeTyped ==
    ASSUME NEW e \in Entry4
    PROVE  Node(e) \in Node4
  BY DEF Entry4, Node4, Node

LEMMA PartTyped ==
    ASSUME NEW s \in 4..MaxLog, NEW i \in 1..5
    PROVE  /\ Abstract!Parts(s)[i].size \in 1..MaxLog
           /\ Abstract!Parts(s)[i].size <= s - 2
           /\ Abstract!Parts(s)[i].pos \in Int
<1>1. s \in Nat /\ s >= 4 /\ s <= MaxLog /\ MaxLog \in Nat
  BY SizesAssumption
<1>2. Abstract!Parts(s)[i].size = IF i \in {2, 3} THEN s - 3 ELSE s - 2
  BY <1>1, PartSizes
<1>3. s - 2 \in Nat /\ s - 3 \in Nat /\ s - 1 \in Nat
  BY <1>1
<1>4. 2^(s - 2) \in Int /\ 2^(s - 3) \in Int /\ 2^(s - 1) \in Int
  BY <1>3
<1>5. i = 1 \/ i = 2 \/ i = 3 \/ i = 4 \/ i = 5
  OBVIOUS
<1>6. Abstract!Parts(s)[i].pos \in Int
  <2>. DEFINE x == 2^(s - 2)
              y == 2^(s - 3)
              z == 2^(s - 1)
  <2>1. x \in Int /\ y \in Int /\ z \in Int
    BY <1>4
  <2>2. Abstract!Parts(s)[i].pos \in {0, x, x + y, z, 3 * x}
    BY <1>5 DEF Abstract!Parts
  <2>. HIDE DEF x, y, z
  <2>. QED BY <2>1, <2>2
<1>. QED BY <1>1, <1>2, <1>6

\* The composite parts of a sub-transform, one by one.
LEMMA CompositePart ==
    ASSUME LeafLog = 3, NEW t \in Node4, NEW u
    PROVE  u \in CompositeParts(t) <=>
             \E i \in 1..5 : /\ u = [size |-> Abstract!Parts(t.size)[i].size,
                                     pos |-> t.pos + Abstract!Parts(t.size)[i].pos]
                             /\ Abstract!Parts(t.size)[i].size >= 4
<1>1. \A i \in 1..5 : Abstract!Parts(t.size)[i].size \in Int
  BY PartTyped DEF Node4
<1>. QED BY <1>1 DEF CompositeParts, Abstract!Composite, Abstract!PartsOf

\* Composite parts are sub-transforms of smaller size.
LEMMA PartOfNode ==
    ASSUME LeafLog = 3, NEW t \in Node4, NEW u \in CompositeParts(t)
    PROVE  u \in Node4 /\ u.size <= t.size - 2
<1>1. PICK i \in 1..5 : /\ u = [size |-> Abstract!Parts(t.size)[i].size,
                                pos |-> t.pos + Abstract!Parts(t.size)[i].pos]
                        /\ Abstract!Parts(t.size)[i].size >= 4
  BY CompositePart
<1>2. t.size \in 4..MaxLog /\ t.pos \in Int
  BY DEF Node4
<1>3. /\ Abstract!Parts(t.size)[i].size \in 1..MaxLog
      /\ Abstract!Parts(t.size)[i].size <= t.size - 2
      /\ Abstract!Parts(t.size)[i].pos \in Int
  BY <1>2, PartTyped
<1>. QED BY <1>1, <1>2, <1>3, SizesAssumption DEF Node4

\* Moving a sub-transform moves its parts.
LEMMA ShiftedParts ==
    ASSUME LeafLog = 3, NEW t \in Node4, NEW p \in Int
    PROVE  Shifted(t, p) \in Node4 /\ CompositeParts(Shifted(t, p)) = ShiftAll(CompositeParts(t), p)
<1>1. Shifted(t, p) \in Node4 /\ t.size \in 4..MaxLog /\ t.pos \in Int
  BY DEF Shifted, Node4
<1>. DEFINE size(i) == Abstract!Parts(t.size)[i].size
            pos(i) == Abstract!Parts(t.size)[i].pos
<1>2. \A i \in 1..5 : pos(i) \in Int
  BY <1>1, PartTyped
<1>3. \A i \in 1..5 : (t.pos + p) + pos(i) = (t.pos + pos(i)) + p
  BY <1>1, <1>2
<1>4. \A u : u \in CompositeParts(Shifted(t, p)) <=>
          \E i \in 1..5 : u = [size |-> size(i), pos |-> (t.pos + p) + pos(i)] /\ size(i) >= 4
  BY <1>1, CompositePart DEF Shifted
<1>5. \A u : u \in CompositeParts(t) <=>
          \E i \in 1..5 : u = [size |-> size(i), pos |-> t.pos + pos(i)] /\ size(i) >= 4
  BY CompositePart
<1>. HIDE DEF size, pos
<1>6. ASSUME NEW u \in CompositeParts(Shifted(t, p)) PROVE u \in ShiftAll(CompositeParts(t), p)
  <2>1. PICK i \in 1..5 : u = [size |-> size(i), pos |-> (t.pos + p) + pos(i)] /\ size(i) >= 4
    BY <1>4
  <2>. DEFINE v == [size |-> size(i), pos |-> t.pos + pos(i)]
  <2>2. v \in CompositeParts(t)
    BY <1>5, <2>1
  <2>3. u = Shifted(v, p)
    BY <1>3, <2>1 DEF Shifted
  <2>. QED BY <2>2, <2>3 DEF ShiftAll
<1>7. ASSUME NEW u \in ShiftAll(CompositeParts(t), p) PROVE u \in CompositeParts(Shifted(t, p))
  <2>1. PICK v \in CompositeParts(t) : u = Shifted(v, p)
    BY DEF ShiftAll
  <2>2. PICK i \in 1..5 : v = [size |-> size(i), pos |-> t.pos + pos(i)] /\ size(i) >= 4
    BY <1>5
  <2>3. u = [size |-> size(i), pos |-> (t.pos + p) + pos(i)]
    BY <1>3, <2>1, <2>2 DEF Shifted
  <2>. QED BY <1>4, <2>2, <2>3
<1>. QED BY <1>1, <1>6, <1>7

LEMMA EmptyLists == Lists(<<>>, {})
  BY DEF Lists, NodesTo

LEMMA MovedLists ==
    ASSUME LeafLog = 3, NEW list, NEW T, Lists(list, T), NEW p \in Int
    PROVE  Lists(Abstract!Moved(list, p), ShiftAll(T, p))
<1>. DEFINE n == Len(list)
            moved == Abstract!Moved(list, p)
<1>1. list \in Seq(Entry4) /\ n \in Nat /\ DOMAIN list = 1..n
  BY DEF Lists
<1>2. \A i \in 1..n : list[i] \in Entry4
  BY <1>1
<1>3. moved = [i \in 1..n |-> [size |-> list[i].size, at |-> list[i].at + 2 * p]]
  BY <1>1 DEF Abstract!Moved
<1>4. \A i \in 1..n : [size |-> list[i].size, at |-> list[i].at + 2 * p] \in Entry4
  BY <1>2 DEF Entry4
<1>. HIDE DEF n, moved
<1>5. moved \in [1..n -> Entry4]
  BY <1>3, <1>4
<1>6. moved \in Seq(Entry4) /\ Len(moved) = n
  BY <1>1, <1>5
<1>7. ASSUME NEW i \in 1..n PROVE Node(moved[i]) = Shifted(Node(list[i]), p)
  <2>1. list[i].at \in Int
    BY <1>2 DEF Entry4
  <2>2. (list[i].at + 2 * p) \div 2 = (list[i].at \div 2) + p
    BY <2>1
  <2>. QED BY <1>3, <2>2 DEF Node, Shifted
<1>8. \A k \in 0..n : NodesTo(moved, k) = ShiftAll(NodesTo(list, k), p)
  <2>1. \A k \in 0..n : \A i \in 1..k : i \in 1..n
    BY <1>1
  <2>. QED BY <1>7, <2>1 DEF NodesTo, ShiftAll
<1>9. ASSUME NEW i \in 1..n PROVE CompositeParts(Node(moved[i])) \subseteq NodesTo(moved, i - 1)
  <2>1. Node(list[i]) \in Node4
    BY <1>2, NodeTyped
  <2>2. CompositeParts(Node(moved[i])) = ShiftAll(CompositeParts(Node(list[i])), p)
    BY <1>7, <2>1, ShiftedParts
  <2>3. CompositeParts(Node(list[i])) \subseteq NodesTo(list, i - 1)
    BY DEF Lists, n
  <2>4. i - 1 \in 0..n
    BY <1>1
  <2>. QED BY <1>8, <2>2, <2>3, <2>4 DEF ShiftAll
<1>10. NodesTo(list, n) = T
  BY DEF Lists, n
<1>. QED BY <1>1, <1>6, <1>8, <1>9, <1>10 DEF Lists, moved

LEMMA ConcatenatedLists ==
    ASSUME NEW a, NEW A, Lists(a, A), NEW b, NEW B, Lists(b, B)
    PROVE  Lists(a \o b, A \cup B)
<1>. DEFINE m == Len(a)
            n == Len(b)
            ab == a \o b
<1>1. a \in Seq(Entry4) /\ b \in Seq(Entry4) /\ m \in Nat /\ n \in Nat
  BY DEF Lists
<1>2. /\ ab \in Seq(Entry4) /\ Len(ab) = m + n
      /\ \A i \in 1..(m + n) : ab[i] = IF i <= m THEN a[i] ELSE b[i - m]
  BY <1>1, ConcatProperties
<1>. HIDE DEF ab
<1>3. /\ \A i \in 1..m : CompositeParts(Node(a[i])) \subseteq NodesTo(a, i - 1)
      /\ \A i \in 1..n : CompositeParts(Node(b[i])) \subseteq NodesTo(b, i - 1)
      /\ NodesTo(a, m) = A /\ NodesTo(b, n) = B
  BY DEF Lists
<1>. HIDE DEF m, n
<1>4. \A i \in 1..m : i \in 1..(m + n) /\ ab[i] = a[i]
  BY <1>1, <1>2
<1>5. \A i \in 1..n : i + m \in 1..(m + n) /\ ab[i + m] = b[i]
  <2>. SUFFICES ASSUME NEW i \in 1..n PROVE i + m \in 1..(m + n) /\ ab[i + m] = b[i]
    OBVIOUS
  <2>1. i + m \in 1..(m + n) /\ ~(i + m <= m) /\ (i + m) - m = i
    BY <1>1
  <2>. QED BY <1>2, <2>1
<1>6. \A i \in 1..(m + n) : i \in 1..m \/ (i - m \in 1..n /\ (i - m) + m = i)
  BY <1>1
<1>7. \A k \in 0..m : NodesTo(ab, k) = NodesTo(a, k)
  <2>1. \A k \in 0..m : \A i \in 1..k : i \in 1..m
    BY <1>1
  <2>. QED BY <1>4, <2>1 DEF NodesTo
<1>8. ASSUME NEW k \in 0..n PROVE NodesTo(ab, k + m) = A \cup NodesTo(b, k)
  <2>1. ASSUME NEW i \in 1..(k + m) PROVE Node(ab[i]) \in A \cup NodesTo(b, k)
    <3>1. CASE i \in 1..m
      BY <1>3, <1>4, <3>1 DEF NodesTo
    <3>2. CASE i \notin 1..m
      <4>. DEFINE j == i - m
      <4>1. j \in 1..k /\ j \in 1..n /\ i = j + m
        BY <1>1, <3>2
      <4>. HIDE DEF j
      <4>2. ab[i] = b[j]
        BY <1>5, <4>1
      <4>. QED BY <4>1, <4>2 DEF NodesTo
    <3>. QED BY <3>1, <3>2
  <2>2. ASSUME NEW x \in A PROVE x \in NodesTo(ab, k + m)
    <3>1. PICK i \in 1..m : x = Node(a[i])
      BY <1>3 DEF NodesTo
    <3>2. i \in 1..(k + m) /\ ab[i] = a[i]
      BY <1>1, <1>4
    <3>. QED BY <3>1, <3>2 DEF NodesTo
  <2>3. ASSUME NEW x \in NodesTo(b, k) PROVE x \in NodesTo(ab, k + m)
    <3>1. PICK i \in 1..k : x = Node(b[i])
      BY DEF NodesTo
    <3>2. i + m \in 1..(k + m) /\ i \in 1..n
      BY <1>1
    <3>3. ab[i + m] = b[i]
      BY <1>5, <3>2
    <3>. QED BY <3>1, <3>2, <3>3 DEF NodesTo
  <2>4. NodesTo(ab, k + m) \subseteq A \cup NodesTo(b, k)
    BY <2>1 DEF NodesTo
  <2>. QED BY <2>2, <2>3, <2>4
<1>9. ASSUME NEW i \in 1..(m + n) PROVE CompositeParts(Node(ab[i])) \subseteq NodesTo(ab, i - 1)
  <2>1. CASE i \in 1..m
    <3>1. i - 1 \in 0..m /\ ab[i] = a[i]
      BY <1>1, <1>4, <2>1
    <3>. QED BY <1>3, <1>7, <2>1, <3>1
  <2>2. CASE i \notin 1..m
    <3>. DEFINE j == i - m
    <3>1. j \in 1..n /\ j - 1 \in 0..n /\ i = j + m /\ i - 1 = (j - 1) + m
      BY <1>1, <2>2
    <3>. HIDE DEF j
    <3>2. ab[i] = b[j]
      BY <1>5, <3>1
    <3>3. NodesTo(ab, i - 1) = A \cup NodesTo(b, j - 1)
      BY <1>8, <3>1
    <3>4. CompositeParts(Node(b[j])) \subseteq NodesTo(b, j - 1)
      BY <1>3, <3>1
    <3>. QED BY <3>2, <3>3, <3>4
  <2>. QED BY <2>1, <2>2
<1>10. NodesTo(ab, m + n) = A \cup B
  <2>1. n \in 0..n /\ n + m = m + n
    BY <1>1
  <2>. QED BY <1>3, <1>8, <2>1
<1>. QED BY <1>2, <1>9, <1>10 DEF Lists, ab

\* The whole is listed when its parts are.
LEMMA WholeListed ==
    ASSUME NEW a, NEW A, Lists(a, A), NEW e \in Entry4, CompositeParts(Node(e)) \subseteq A
    PROVE  Lists(a \o <<e>>, A \cup {Node(e)})
<1>. DEFINE m == Len(a)
            ae == a \o <<e>>
<1>1. a \in Seq(Entry4) /\ m \in Nat /\ <<e>> \in Seq(Entry4) /\ Len(<<e>>) = 1 /\ <<e>>[1] = e
  BY DEF Lists
<1>2. /\ ae \in Seq(Entry4) /\ Len(ae) = m + 1
      /\ \A i \in 1..(m + 1) : ae[i] = IF i <= m THEN a[i] ELSE <<e>>[i - m]
  BY <1>1, ConcatProperties
<1>. HIDE DEF ae
<1>3. /\ \A i \in 1..m : CompositeParts(Node(a[i])) \subseteq NodesTo(a, i - 1)
      /\ NodesTo(a, m) = A
  BY DEF Lists
<1>. HIDE DEF m
<1>4. \A i \in 1..m : i \in 1..(m + 1) /\ ae[i] = a[i]
  BY <1>1, <1>2
<1>5. ae[m + 1] = e
  <2>1. m + 1 \in 1..(m + 1) /\ ~(m + 1 <= m) /\ (m + 1) - m = 1
    BY <1>1
  <2>. QED BY <1>1, <1>2, <2>1
<1>6. \A k \in 0..m : NodesTo(ae, k) = NodesTo(a, k)
  <2>1. \A k \in 0..m : \A i \in 1..k : i \in 1..m
    BY <1>1
  <2>. QED BY <1>4, <2>1 DEF NodesTo
<1>7. \A i \in 1..(m + 1) : i \in 1..m \/ i = m + 1
  BY <1>1
<1>8. NodesTo(ae, m + 1) = A \cup {Node(e)}
  <2>1. \A i \in 1..m : ae[i] = a[i] /\ i \in 1..(m + 1)
    BY <1>4
  <2>2. m + 1 \in 1..(m + 1)
    BY <1>1
  <2>. QED BY <1>3, <1>5, <1>7, <2>1, <2>2 DEF NodesTo
<1>9. ASSUME NEW i \in 1..(m + 1) PROVE CompositeParts(Node(ae[i])) \subseteq NodesTo(ae, i - 1)
  <2>1. CASE i \in 1..m
    <3>1. i - 1 \in 0..m
      BY <1>1, <2>1
    <3>. QED BY <1>3, <1>4, <1>6, <2>1, <3>1
  <2>2. CASE i = m + 1
    <3>1. i - 1 = m /\ m \in 0..m
      BY <1>1, <2>2
    <3>. QED BY <1>3, <1>5, <1>6, <2>2, <3>1
  <2>. QED BY <1>7, <2>1, <2>2
<1>. QED BY <1>2, <1>8, <1>9 DEF Lists, ae

-----------------------------------------------------------------------------
(* The list for 2^s points holds the tree of sub-transforms.               *)

InList(s) == NodesTo(Abstract!Elaborate[s], Len(Abstract!Elaborate[s]))
PartSize(s, i) == Abstract!Parts(s)[i].size
PartPos(s, i) == Abstract!Parts(s)[i].pos
OfParts(s) == UNION {ShiftAll(InList(PartSize(s, i)), PartPos(s, i)) : i \in 1..5}

LEMMA OfOnePart ==
    ASSUME NEW s, NEW t
    PROVE  t \in OfParts(s) <=>
             \E i \in 1..5 : t \in ShiftAll(InList(PartSize(s, i)), PartPos(s, i))
  BY Zenon DEF OfParts

\* What a list holds, from what the lists of its parts hold.
ListsParts(s) ==
    /\ Lists(Abstract!Elaborate[s], InList(s))
    /\ s <= 3 => InList(s) = {}
    /\ s > 3 => InList(s) = OfParts(s) \cup {Abstract!Whole(s)}

\* One list, when the lists of all smaller sizes are right.
LEMMA ListStep ==
    ASSUME LeafLog = 3, NEW s \in 0..MaxLog, \A k \in 0..MaxLog : k < s => ListsParts(k)
    PROVE  ListsParts(s)
<1>. DEFINE E == Abstract!Elaborate
<1>1. E[s] = ListOf(E, s) /\ s \in Nat /\ MaxLog \in Nat
  BY TreeEquations, SizesAssumption
<1>. HIDE DEF E
<1>2. CASE s <= 3
  <2>1. E[s] = <<>>
    BY <1>1, <1>2 DEF ListOf
  <2>2. NodesTo(<<>>, Len(<<>>)) = {}
    BY DEF NodesTo
  <2>3. InList(s) = {} /\ Lists(E[s], InList(s)) /\ ~(s > 3)
    BY <1>1, <1>2, <2>1, <2>2, EmptyLists DEF InList, E
  <2>. QED BY <2>3 DEF ListsParts, E
<1>3. CASE s > 3
  <2>. DEFINE part == [i \in 1..5 |-> Abstract!Moved(E[Abstract!Parts(s)[i].size], Abstract!Parts(s)[i].pos)]
              whole == [size |-> s, at |-> 0]
              Held(i) == ShiftAll(InList(PartSize(s, i)), PartPos(s, i))
  <2>1. s \in 4..MaxLog /\ ~(s <= LeafLog)
    BY <1>1, <1>3
  <2>2. E[s] = part[1] \o part[2] \o part[3] \o part[4] \o part[5] \o <<whole>>
    <3>1. E[s] = Abstract!Listed(part, <<whole>>)
      BY <1>1, <2>1, Zenon DEF ListOf
    <3>. HIDE DEF part, whole
    <3>. QED BY <3>1, Zenon DEF Abstract!Listed
  <2>3. ASSUME NEW i \in 1..5
        PROVE  /\ PartSize(s, i) \in 0..MaxLog /\ PartSize(s, i) < s /\ PartPos(s, i) \in Int
               /\ ListsParts(PartSize(s, i))
    <3>1. /\ PartSize(s, i) \in 1..MaxLog /\ PartSize(s, i) <= s - 2
          /\ PartPos(s, i) \in Int
      BY <2>1, PartTyped DEF PartSize, PartPos
    <3>2. PartSize(s, i) \in 0..MaxLog /\ PartSize(s, i) < s
      BY <1>1, <3>1
    <3>. QED BY <3>1, <3>2
  <2>4. ASSUME NEW i \in 1..5 PROVE Lists(part[i], Held(i))
    <3>1. Lists(E[PartSize(s, i)], InList(PartSize(s, i)))
      BY <2>3 DEF ListsParts, E
    <3>2. part[i] = Abstract!Moved(E[PartSize(s, i)], PartPos(s, i))
      BY DEF PartSize, PartPos
    <3>. QED BY <2>3, <3>1, <3>2, MovedLists
  <2>5. whole \in Entry4 /\ Node(whole) = Abstract!Whole(s) /\ Node(whole) \in Node4
    BY <2>1 DEF Entry4, Node4, Node, Abstract!Whole
  <2>. HIDE DEF part, whole, Held
  <2>. DEFINE A == Held(1) \cup Held(2) \cup Held(3) \cup Held(4) \cup Held(5)
  <2>6. Lists(part[1] \o part[2] \o part[3] \o part[4] \o part[5], A)
    <3>1. /\ Lists(part[1], Held(1)) /\ Lists(part[2], Held(2)) /\ Lists(part[3], Held(3))
          /\ Lists(part[4], Held(4)) /\ Lists(part[5], Held(5))
      BY <2>4
    <3>2. Lists(part[1] \o part[2], Held(1) \cup Held(2))
      BY <3>1, ConcatenatedLists
    <3>3. Lists(part[1] \o part[2] \o part[3], Held(1) \cup Held(2) \cup Held(3))
      BY <3>1, <3>2, ConcatenatedLists
    <3>4. Lists(part[1] \o part[2] \o part[3] \o part[4],
                Held(1) \cup Held(2) \cup Held(3) \cup Held(4))
      BY <3>1, <3>3, ConcatenatedLists
    <3>. QED BY <3>1, <3>4, ConcatenatedLists
  <2>7. \A i \in 1..5 : Held(i) \subseteq A
    <3>1. \A i \in 1..5 : i = 1 \/ i = 2 \/ i = 3 \/ i = 4 \/ i = 5
      OBVIOUS
    <3>. QED BY <3>1
  <2>8. CompositeParts(Node(whole)) \subseteq A
    <3>. SUFFICES ASSUME NEW u \in CompositeParts(Node(whole)) PROVE u \in A
      OBVIOUS
    <3>1. Node(whole).size = s /\ Node(whole).pos = 0
      BY <2>5 DEF Abstract!Whole
    <3>2. PICK i \in 1..5 : /\ u = [size |-> PartSize(s, i), pos |-> 0 + PartPos(s, i)]
                            /\ PartSize(s, i) >= 4
      BY <2>5, <3>1, CompositePart DEF PartSize, PartPos
    <3>3. u = Shifted(Abstract!Whole(PartSize(s, i)), PartPos(s, i))
      BY <3>2 DEF Shifted, Abstract!Whole
    <3>4. PartSize(s, i) > 3 /\ ListsParts(PartSize(s, i))
      BY <2>3, <3>2
    <3>5. Abstract!Whole(PartSize(s, i)) \in InList(PartSize(s, i))
      BY <3>4 DEF ListsParts
    <3>6. u \in Held(i)
      BY <3>3, <3>5 DEF Held, ShiftAll
    <3>. QED BY <2>7, <3>6
  <2>. HIDE DEF A
  <2>9. Lists(E[s], A \cup {Abstract!Whole(s)})
    BY <2>2, <2>5, <2>6, <2>8, WholeListed
  <2>10. InList(s) = A \cup {Abstract!Whole(s)}
    BY <2>9 DEF Lists, InList, E
  <2>11. A = OfParts(s)
    <3>1. \A t : t \in OfParts(s) <=> \E i \in 1..5 : t \in Held(i)
      BY OfOnePart DEF Held
    <3>2. \A t \in A : \E i \in 1..5 : t \in Held(i)
      BY DEF A
    <3>. QED BY <2>7, <3>1, <3>2
  <2>12. ~(s <= 3)
    BY <2>1
  <2>. QED BY <2>9, <2>10, <2>11, <2>12 DEF ListsParts, E
<1>. QED BY <1>1, <1>2, <1>3

LEMMA EveryList ==
    ASSUME LeafLog = 3, NEW s \in 0..MaxLog
    PROVE  ListsParts(s)
<1>. DEFINE S == {k \in Nat : k <= MaxLog /\ ~ListsParts(k)}
<1>1. SUFFICES ASSUME S # {} PROVE FALSE
  BY SizesAssumption
<1>. DEFINE m == Least(S)
<1>2. S \in SUBSET Nat
  OBVIOUS
<1>. HIDE DEF S
<1>3. m \in S /\ \A k \in S : m <= k
  BY <1>1, <1>2, LeastIsLeast
<1>. HIDE DEF m
<1>4. m \in 0..MaxLog /\ ~ListsParts(m)
  BY <1>3, SizesAssumption DEF S
<1>5. ASSUME NEW k \in 0..MaxLog, k < m PROVE ListsParts(k)
  <2>1. ~(m <= k) /\ k \in Nat /\ k <= MaxLog
    BY <1>4, <1>5, SizesAssumption
  <2>. QED BY <1>3, <2>1 DEF S
<1>. QED BY <1>4, <1>5, ListStep

\* The sub-transforms of a list, and their composite parts.
LEMMA ListClosed ==
    ASSUME LeafLog = 3, NEW s \in 0..MaxLog, NEW t \in InList(s)
    PROVE  t \in Node4 /\ CompositeParts(t) \subseteq InList(s)
<1>. DEFINE list == Abstract!Elaborate[s]
<1>1. Lists(list, InList(s)) /\ InList(s) = NodesTo(list, Len(list))
  BY EveryList DEF ListsParts, InList
<1>. HIDE DEF list
<1>2. PICK i \in 1..Len(list) : t = Node(list[i])
  BY <1>1 DEF NodesTo
<1>3. list \in Seq(Entry4) /\ CompositeParts(t) \subseteq NodesTo(list, i - 1)
  BY <1>1, <1>2 DEF Lists
<1>4. list[i] \in Entry4
  BY <1>3
<1>5. Len(list) \in Nat /\ \A j \in 1..(i - 1) : j \in 1..Len(list)
  BY <1>3
<1>6. NodesTo(list, i - 1) \subseteq NodesTo(list, Len(list))
  BY <1>5 DEF NodesTo
<1>. QED BY <1>1, <1>2, <1>3, <1>4, <1>6, NodeTyped

HasParent(s) ==
    \A t \in InList(s) : t # Abstract!Whole(s) => \E u \in InList(s) : t \in CompositeParts(u)

\* All but the whole are parts of another.
LEMMA ParentStep ==
    ASSUME LeafLog = 3, NEW s \in 0..MaxLog, \A k \in 0..MaxLog : k < s => HasParent(k)
    PROVE  HasParent(s)
<1>1. SUFFICES ASSUME NEW t \in InList(s), t # Abstract!Whole(s)
               PROVE  \E u \in InList(s) : t \in CompositeParts(u)
  BY DEF HasParent
<1>2. ListsParts(s) /\ s \in Nat /\ MaxLog \in Nat
  BY EveryList, SizesAssumption
<1>3. s > 3 /\ s \in 4..MaxLog
  BY <1>2 DEF ListsParts
<1>4. InList(s) = OfParts(s) \cup {Abstract!Whole(s)}
  BY <1>2, <1>3 DEF ListsParts
<1>5. PICK i \in 1..5 : t \in ShiftAll(InList(PartSize(s, i)), PartPos(s, i))
  BY <1>1, <1>4, OfOnePart
<1>. DEFINE k == PartSize(s, i)
            p == PartPos(s, i)
<1>6. k \in 1..MaxLog /\ k <= s - 2 /\ p \in Int
  BY <1>3, PartTyped DEF PartSize, PartPos
<1>7. k \in 0..MaxLog /\ k < s
  BY <1>2, <1>6
<1>8. PICK v \in InList(k) : t = Shifted(v, p)
  BY <1>5 DEF ShiftAll
<1>9. Abstract!Whole(s) \in InList(s) /\ Abstract!Whole(s) \in Node4
  BY <1>3, <1>4 DEF Abstract!Whole, Node4
<1>10. v \in Node4
  BY <1>7, <1>8, ListClosed
<1>11. CASE v = Abstract!Whole(k)
  <2>1. t = [size |-> k, pos |-> 0 + p] /\ k >= 4
    BY <1>8, <1>10, <1>11 DEF Shifted, Abstract!Whole, Node4
  <2>2. Abstract!Whole(s).size = s /\ Abstract!Whole(s).pos = 0
    BY DEF Abstract!Whole
  <2>3. t \in CompositeParts(Abstract!Whole(s))
    BY <1>9, <2>1, <2>2, CompositePart DEF PartSize, PartPos
  <2>. QED BY <1>9, <2>3
<1>12. CASE v # Abstract!Whole(k)
  <2>1. PICK u \in InList(k) : v \in CompositeParts(u)
    BY <1>7, <1>8, <1>12 DEF HasParent
  <2>2. u \in Node4
    BY <1>7, ListClosed
  <2>3. t \in CompositeParts(Shifted(u, p))
    BY <1>6, <1>8, <2>1, <2>2, ShiftedParts DEF ShiftAll
  <2>4. Shifted(u, p) \in InList(s)
    <3>1. Shifted(u, p) \in ShiftAll(InList(k), p)
      BY <2>1 DEF ShiftAll
    <3>. QED BY <1>4, <3>1, OfOnePart
  <2>. QED BY <2>3, <2>4
<1>. QED BY <1>11, <1>12

LEMMA EveryParent ==
    ASSUME LeafLog = 3, NEW s \in 0..MaxLog
    PROVE  HasParent(s)
<1>. DEFINE S == {k \in Nat : k <= MaxLog /\ ~HasParent(k)}
<1>1. SUFFICES ASSUME S # {} PROVE FALSE
  BY SizesAssumption
<1>. DEFINE m == Least(S)
<1>2. S \in SUBSET Nat
  OBVIOUS
<1>. HIDE DEF S
<1>3. m \in S /\ \A k \in S : m <= k
  BY <1>1, <1>2, LeastIsLeast
<1>. HIDE DEF m
<1>4. m \in 0..MaxLog /\ ~HasParent(m)
  BY <1>3, SizesAssumption DEF S
<1>5. ASSUME NEW k \in 0..MaxLog, k < m PROVE HasParent(k)
  <2>1. ~(m <= k) /\ k \in Nat /\ k <= MaxLog
    BY <1>4, <1>5, SizesAssumption
  <2>. QED BY <1>3, <2>1 DEF S
<1>. QED BY <1>4, <1>5, ParentStep

-----------------------------------------------------------------------------
(* The levels of the tree.                                                 *)

\* Level n of the tree of 2^s points, from the levels f above it.
LevelOf(s, f, n) ==
    Abstract!Composite(
        IF n = 0 THEN {Abstract!Whole(s)} ELSE UNION {Abstract!PartsOf(t) : t \in f[n - 1]})

LEMMA LevelsExist ==
    ASSUME NEW s, NEW n \in Nat
    PROVE  \E f : f = [k \in 0..n |-> LevelOf(s, f, k)]
<1>. DEFINE Good(m) == \E f : f = [k \in 0..m |-> LevelOf(s, f, k)]
            S == {m \in Nat : ~Good(m)}
<1>1. SUFFICES ASSUME S # {} PROVE FALSE
  OBVIOUS
<1>. DEFINE m == Least(S)
<1>2. m \in S /\ \A k \in S : m <= k
  BY <1>1, LeastIsLeast
<1>. HIDE DEF m
<1>3. CASE m = 0
  <2>. DEFINE g == [k \in 0..0 |-> LevelOf(s, <<>>, 0)]
  <2>1. g[0] = LevelOf(s, g, 0)
    BY DEF LevelOf
  <2>2. \A k \in 0..0 : k = 0
    OBVIOUS
  <2>3. g = [k \in 0..0 |-> LevelOf(s, g, k)]
    <3>1. g = [k \in 0..0 |-> g[k]]
      OBVIOUS
    <3>. HIDE DEF g
    <3>. QED BY <2>1, <2>2, <3>1
  <2>. QED BY <1>2, <1>3, <2>3
<1>4. CASE m # 0
  <2>1. m - 1 \in Nat /\ m - 1 \notin S
    BY <1>2, <1>4
  <2>2. PICK f : f = [k \in 0..(m - 1) |-> LevelOf(s, f, k)]
    BY <2>1
  <2>. DEFINE g == [k \in 0..m |-> IF k = m THEN LevelOf(s, f, m) ELSE f[k]]
  <2>3. \A k \in 0..(m - 1) : g[k] = f[k]
    BY <1>2
  <2>4. ASSUME NEW k \in 0..m PROVE g[k] = LevelOf(s, g, k)
    <3>1. g[k] = LevelOf(s, f, k)
      <4>1. CASE k = m
        BY <4>1
      <4>2. CASE k # m
        <5>1. k \in 0..(m - 1)
          BY <1>2, <4>2
        <5>. QED BY <2>2, <2>3, <5>1
      <4>. QED BY <4>1, <4>2
    <3>. HIDE DEF g
    <3>2. LevelOf(s, g, k) = LevelOf(s, f, k)
      <4>1. k # 0 => k - 1 \in 0..(m - 1)
        BY <1>2
      <4>. QED BY <2>3, <4>1 DEF LevelOf
    <3>. QED BY <3>1, <3>2
  <2>5. g = [k \in 0..m |-> LevelOf(s, g, k)]
    <3>1. g = [k \in 0..m |-> g[k]]
      OBVIOUS
    <3>. HIDE DEF g
    <3>. QED BY <2>4, <3>1
  <2>. QED BY <1>2, <2>5
<1>. QED BY <1>3, <1>4

\* What the abstract specification demands, as levels.
LEMMA AllAreLevels ==
    ASSUME NEW s \in Nat
    PROVE  \E f : /\ \A n \in 0..(s \div 2) : f[n] = LevelOf(s, f, n)
                  /\ \A t : t \in Abstract!AllOf(s) <=> \E n \in 0..(s \div 2) : t \in f[n]
<1>. DEFINE f == CHOOSE g : g = [n \in 0..(s \div 2) |-> LevelOf(s, g, n)]
<1>1. Abstract!AllOf(s) = UNION {f[n] : n \in DOMAIN f}
  BY DEF Abstract!AllOf, LevelOf
<1>2. s \div 2 \in Nat
  OBVIOUS
<1>3. f = [n \in 0..(s \div 2) |-> LevelOf(s, f, n)]
  BY <1>2, LevelsExist
<1>. HIDE DEF f
<1>4. DOMAIN f = 0..(s \div 2) /\ \A n \in 0..(s \div 2) : f[n] = LevelOf(s, f, n)
  BY <1>3
<1>5. \A t : t \in Abstract!AllOf(s) <=> \E n \in 0..(s \div 2) : t \in f[n]
  BY <1>1, <1>4, Zenon
<1>. QED BY <1>4, <1>5

\* The members of a level.
LEMMA InLevel ==
    ASSUME LeafLog = 3, NEW s \in 0..MaxLog, NEW f, NEW n \in Nat
    PROVE  \A t : t \in LevelOf(s, f, n) <=>
                  IF n = 0 THEN t = Abstract!Whole(s) /\ s > 3
                  ELSE \E u \in f[n - 1] : t \in CompositeParts(u)
<1>1. CASE n = 0
  BY <1>1 DEF LevelOf, Abstract!Composite, Abstract!Whole
<1>2. CASE n # 0
  <2>1. LevelOf(s, f, n) = {t \in UNION {Abstract!PartsOf(u) : u \in f[n - 1]} : t.size > LeafLog}
    BY <1>2 DEF LevelOf, Abstract!Composite
  <2>2. \A u : CompositeParts(u) = {t \in Abstract!PartsOf(u) : t.size > LeafLog}
    BY DEF CompositeParts, Abstract!Composite
  <2>. QED BY <1>2, <2>1, <2>2, Zenon
<1>. QED BY <1>1, <1>2

\* The list for 2^s points holds exactly the sub-transforms that have to be combined.
LEMMA ListIsAll ==
    ASSUME LeafLog = 3, NEW s \in 0..MaxLog
    PROVE  InList(s) = Abstract!AllOf(s)
<1>1. s \in Nat /\ MaxLog \in Nat
  BY SizesAssumption
<1>. DEFINE D == s \div 2
<1>2. PICK f : /\ \A n \in 0..D : f[n] = LevelOf(s, f, n)
               /\ \A t : t \in Abstract!AllOf(s) <=> \E n \in 0..D : t \in f[n]
  BY <1>1, AllAreLevels
<1>3. D \in Nat /\ 2 * D <= s /\ s <= 2 * D + 1
  BY <1>1
<1>. HIDE DEF D
<1>4. ListsParts(s)
  BY EveryList
<1>5. ASSUME NEW n \in 0..D PROVE f[n] \subseteq InList(s)
  <2>. DEFINE S == {k \in Nat : k <= D /\ ~(f[k] \subseteq InList(s))}
  <2>1. SUFFICES ASSUME S # {} PROVE FALSE
    BY <1>3
  <2>. DEFINE m == Least(S)
  <2>2. S \in SUBSET Nat
    OBVIOUS
  <2>. HIDE DEF S
  <2>3. m \in S /\ \A k \in S : m <= k
    BY <2>1, <2>2, LeastIsLeast
  <2>. HIDE DEF m
  <2>4. m \in 0..D /\ m \in Nat /\ ~(f[m] \subseteq InList(s))
    BY <1>3, <2>3 DEF S
  <2>5. f[m] = LevelOf(s, f, m)
    BY <1>2, <2>4
  <2>6. CASE m = 0
    <3>1. \A t \in f[m] : t = Abstract!Whole(s) /\ s > 3
      BY <2>4, <2>5, <2>6, InLevel
    <3>2. s > 3 => Abstract!Whole(s) \in InList(s)
      BY <1>4 DEF ListsParts
    <3>. QED BY <2>4, <3>1, <3>2
  <2>7. CASE m # 0
    <3>1. \A t \in f[m] : \E u \in f[m - 1] : t \in CompositeParts(u)
      BY <2>4, <2>5, <2>7, InLevel
    <3>2. m - 1 \in Nat /\ m - 1 <= D /\ ~(m <= m - 1)
      BY <1>3, <2>4, <2>7
    <3>3. f[m - 1] \subseteq InList(s)
      BY <2>3, <3>2 DEF S
    <3>. QED BY <2>4, <3>1, <3>3, ListClosed
  <2>. QED BY <2>6, <2>7
<1>6. ASSUME NEW t \in InList(s)
      PROVE  \E n \in 0..D : 2 * n + t.size <= s /\ t \in f[n]
  <2>. DEFINE Found(u) == \E n \in 0..D : 2 * n + u.size <= s /\ u \in f[n]
              S == {k \in Nat : \E u \in InList(s) : u.size = MaxLog - k /\ ~Found(u)}
  <2>1. \A u \in InList(s) : u.size \in 4..MaxLog /\ u \in Node4
    BY ListClosed DEF Node4
  <2>2. SUFFICES ASSUME S # {} PROVE FALSE
    <3>1. MaxLog - t.size \in Nat /\ t.size = MaxLog - (MaxLog - t.size)
      BY <1>1, <2>1
    <3>. HIDE DEF Found
    <3>2. Found(t)
      BY <2>2, <3>1
    <3>. QED BY <3>2 DEF Found
  <2>. DEFINE m == Least(S)
  <2>3. S \in SUBSET Nat
    OBVIOUS
  <2>. HIDE DEF S, Found
  <2>4. m \in S /\ \A k \in S : m <= k
    BY <2>2, <2>3, LeastIsLeast
  <2>. HIDE DEF m
  <2>5. PICK u \in InList(s) : m \in Nat /\ u.size = MaxLog - m /\ ~Found(u)
    BY <2>4 DEF S
  <2>6. CASE u = Abstract!Whole(s)
    <3>1. u.size = s /\ s > 3
      BY <1>1, <2>1, <2>6 DEF Abstract!Whole
    <3>2. u \in f[0] /\ 0 \in 0..D
      BY <1>2, <1>3, <2>6, <3>1, InLevel
    <3>3. 2 * 0 + u.size <= s
      BY <1>1, <3>1
    <3>. QED BY <2>5, <3>2, <3>3 DEF Found
  <2>7. CASE u # Abstract!Whole(s)
    <3>1. PICK v \in InList(s) : u \in CompositeParts(v)
      BY <2>5, <2>7, EveryParent DEF HasParent
    <3>2. v.size \in 4..MaxLog /\ u.size <= v.size - 2
      BY <2>1, <3>1, PartOfNode
    <3>. DEFINE j == MaxLog - v.size
    <3>3. j \in Nat /\ v.size = MaxLog - j /\ ~(m <= j)
      BY <1>1, <2>1, <2>5, <3>2
    <3>. HIDE DEF j
    <3>4. Found(v)
      BY <2>4, <3>3 DEF S
    <3>5. PICK n \in 0..D : 2 * n + v.size <= s /\ v \in f[n]
      BY <3>4 DEF Found
    <3>6. n + 1 \in 0..D /\ n + 1 \in Nat /\ n + 1 # 0 /\ (n + 1) - 1 = n
          /\ 2 * (n + 1) + u.size <= s
      <4>1. u.size \in Int /\ u.size >= 4 /\ v.size \in Int /\ n \in Nat
        BY <2>1, <3>2
      <4>2. 2 * (n + 1) + u.size <= s
        BY <1>1, <3>2, <3>5, <4>1
      <4>3. n + 1 <= D
        BY <1>1, <1>3, <4>1, <4>2
      <4>. QED BY <1>3, <4>1, <4>2, <4>3
    <3>7. f[n + 1] = LevelOf(s, f, n + 1)
      BY <1>2, <3>6
    <3>8. u \in f[n + 1]
      BY <3>1, <3>5, <3>6, <3>7, InLevel
    <3>. QED BY <2>5, <3>6, <3>8 DEF Found
  <2>. QED BY <2>6, <2>7
<1>. QED BY <1>2, <1>5, <1>6

-----------------------------------------------------------------------------
(* No sub-transform is listed twice.                                       *)

Pow == [e \in 0..31 |-> 2^e]

LEMMA PowStep == \A e \in 0..30 : Pow[e] \in Nat /\ Pow[e] >= 1 /\ Pow[e + 1] = 2 * Pow[e]
<1>1. /\ Pow[0] = 1 /\ Pow[1] = 2 /\ Pow[2] = 4 /\ Pow[3] = 8 /\ Pow[4] = 16
      /\ Pow[5] = 32 /\ Pow[6] = 64 /\ Pow[7] = 128 /\ Pow[8] = 256 /\ Pow[9] = 512
      /\ Pow[10] = 1024 /\ Pow[11] = 2048 /\ Pow[12] = 4096 /\ Pow[13] = 8192
      /\ Pow[14] = 16384 /\ Pow[15] = 32768 /\ Pow[16] = 65536 /\ Pow[17] = 131072
      /\ Pow[18] = 262144 /\ Pow[19] = 524288 /\ Pow[20] = 1048576 /\ Pow[21] = 2097152
      /\ Pow[22] = 4194304 /\ Pow[23] = 8388608 /\ Pow[24] = 16777216 /\ Pow[25] = 33554432
      /\ Pow[26] = 67108864 /\ Pow[27] = 134217728 /\ Pow[28] = 268435456
      /\ Pow[29] = 536870912 /\ Pow[30] = 1073741824 /\ Pow[31] = 2147483648
  BY DEF Pow
<1>. TAKE e \in 0..30
<1>2. e \in {0, 1, 2, 3, 4, 5, 6, 7, 8, 9, 10, 11, 12, 13, 14, 15, 16, 17, 18, 19, 20,
             21, 22, 23, 24, 25, 26, 27, 28, 29, 30}
  OBVIOUS
<1>. QED BY <1>1, <1>2

\* The five parts lie side by side and fill the whole.
LEMMA SideBySide ==
    ASSUME NEW s \in 4..31
    PROVE  \E e \in Nat :
             /\ e >= 1
             /\ 2^s = 8 * e
             /\ PartPos(s, 1) = 0 /\ PartPos(s, 2) = 2 * e /\ PartPos(s, 3) = 3 * e
             /\ PartPos(s, 4) = 4 * e /\ PartPos(s, 5) = 6 * e
             /\ \A i \in 1..5 : 2^PartSize(s, i) = IF i \in {2, 3} THEN e ELSE 2 * e
<1>. DEFINE e == Pow[s - 3]
<1>1. s \in Nat /\ s - 3 \in 0..30 /\ s - 2 \in 0..30 /\ s - 1 \in 0..30
  OBVIOUS
<1>2. (s - 3) + 1 = s - 2 /\ (s - 2) + 1 = s - 1 /\ (s - 1) + 1 = s
  BY <1>1
<1>3. e \in Nat /\ e >= 1 /\ Pow[s - 2] = 2 * e /\ Pow[s - 1] = 2 * Pow[s - 2]
      /\ Pow[s] = 2 * Pow[s - 1]
  BY <1>1, <1>2, PowStep
<1>4. \A k \in 0..31 : 2^k = Pow[k]
  BY DEF Pow
<1>5. 2^(s - 3) = e /\ 2^(s - 2) = 2 * e /\ 2^(s - 1) = 4 * e /\ 2^s = 8 * e
  <2>1. s - 3 \in 0..31 /\ s - 2 \in 0..31 /\ s - 1 \in 0..31 /\ s \in 0..31
    BY <1>1
  <2>2. 2^(s - 3) = Pow[s - 3] /\ 2^(s - 2) = Pow[s - 2] /\ 2^(s - 1) = Pow[s - 1]
        /\ 2^s = Pow[s]
    BY <1>4, <2>1
  <2>. HIDE DEF e
  <2>3. Pow[s - 1] = 4 * e /\ Pow[s] = 8 * e
    BY <1>3
  <2>. QED BY <1>3, <2>2, <2>3 DEF e
<1>. HIDE DEF e
<1>6. /\ PartPos(s, 1) = 0
      /\ PartPos(s, 2) = 2^(s - 2)
      /\ PartPos(s, 3) = 2^(s - 2) + 2^(s - 3)
      /\ PartPos(s, 4) = 2^(s - 1)
      /\ PartPos(s, 5) = 3 * 2^(s - 2)
  BY DEF PartPos, Abstract!Parts
<1>7. /\ PartPos(s, 2) = 2 * e /\ PartPos(s, 3) = 3 * e
      /\ PartPos(s, 4) = 4 * e /\ PartPos(s, 5) = 6 * e
  BY <1>3, <1>5, <1>6
<1>8. \A i \in 1..5 : 2^PartSize(s, i) = IF i \in {2, 3} THEN e ELSE 2 * e
  <2>1. \A i \in 1..5 : PartSize(s, i) = IF i \in {2, 3} THEN s - 3 ELSE s - 2
    BY PartSizes DEF PartSize
  <2>. QED BY <1>5, <2>1
<1>. QED BY <1>3, <1>5, <1>6, <1>7, <1>8

\* The entries of a list are of at most 2^s points, lie between lo and hi, and are
\* distinct.
Placed(list, s, lo, hi) ==
    /\ list \in Seq(Entry4)
    /\ \A i \in 1..Len(list) : /\ list[i].size <= s
                               /\ lo <= Node(list[i]).pos
                               /\ Node(list[i]).pos < hi
    /\ \A i, j \in 1..Len(list) : i < j => Node(list[i]) # Node(list[j])

LEMMA MovedPlaced ==
    ASSUME NEW list, NEW s, NEW n \in Int, NEW p \in Int, Placed(list, s, 0, n)
    PROVE  Placed(Abstract!Moved(list, p), s, p, n + p)
<1>. DEFINE m == Len(list)
            moved == Abstract!Moved(list, p)
<1>1. list \in Seq(Entry4) /\ m \in Nat /\ DOMAIN list = 1..m
  BY DEF Placed
<1>2. \A i \in 1..m : list[i] \in Entry4
  BY <1>1
<1>3. moved = [i \in 1..m |-> [size |-> list[i].size, at |-> list[i].at + 2 * p]]
  BY <1>1 DEF Abstract!Moved
<1>4. \A i \in 1..m : [size |-> list[i].size, at |-> list[i].at + 2 * p] \in Entry4
  BY <1>2 DEF Entry4
<1>5. /\ \A i \in 1..m : list[i].size <= s /\ 0 <= Node(list[i]).pos /\ Node(list[i]).pos < n
      /\ \A i, j \in 1..m : i < j => Node(list[i]) # Node(list[j])
  BY DEF Placed
<1>. HIDE DEF m, moved
<1>6. moved \in [1..m -> Entry4]
  BY <1>3, <1>4
<1>7. moved \in Seq(Entry4) /\ Len(moved) = m
  BY <1>1, <1>6
<1>8. ASSUME NEW i \in 1..m
      PROVE  /\ moved[i].size = list[i].size
             /\ Node(moved[i]) = Shifted(Node(list[i]), p)
             /\ Node(list[i]) \in Node4
  <2>1. list[i].at \in Int
    BY <1>2 DEF Entry4
  <2>2. (list[i].at + 2 * p) \div 2 = (list[i].at \div 2) + p
    BY <2>1
  <2>. QED BY <1>2, <1>3, <2>2, NodeTyped DEF Node, Shifted
<1>9. ASSUME NEW i \in 1..m
      PROVE  moved[i].size <= s /\ p <= Node(moved[i]).pos /\ Node(moved[i]).pos < n + p
  <2>. DEFINE t == Node(list[i])
  <2>1. Node(moved[i]) = Shifted(t, p) /\ t \in Node4 /\ moved[i].size = list[i].size
    BY <1>8
  <2>2. list[i].size <= s /\ 0 <= t.pos /\ t.pos < n
    BY <1>5
  <2>. HIDE DEF t
  <2>3. t.pos \in Int /\ Node(moved[i]).pos = t.pos + p
    BY <2>1 DEF Node4, Shifted
  <2>. QED BY <2>1, <2>2, <2>3
<1>10. ASSUME NEW i \in 1..m, NEW j \in 1..m, i < j PROVE Node(moved[i]) # Node(moved[j])
  <2>1. Node(list[i]) # Node(list[j]) /\ Node(list[i]) \in Node4 /\ Node(list[j]) \in Node4
    BY <1>5, <1>8, <1>10
  <2>2. \A t, u \in Node4 : Shifted(t, p) = Shifted(u, p) => t = u
    <3>. SUFFICES ASSUME NEW t \in Node4, NEW u \in Node4, Shifted(t, p) = Shifted(u, p)
                  PROVE  t = u
      OBVIOUS
    <3>1. t.size = u.size /\ t.pos + p = u.pos + p
      BY DEF Shifted
    <3>2. t.pos \in Int /\ u.pos \in Int
      BY DEF Node4
    <3>3. t.pos = u.pos
      BY <3>1, <3>2
    <3>. QED BY <3>1, <3>3 DEF Node4
  <2>. QED BY <1>8, <2>1, <2>2
<1>. QED BY <1>7, <1>9, <1>10 DEF Placed, moved

LEMMA ConcatenatedPlaced ==
    ASSUME NEW a, NEW b, NEW s \in Int, NEW lo \in Int, NEW mid \in Int, NEW hi \in Int,
           lo <= mid, mid <= hi, Placed(a, s, lo, mid), Placed(b, s, mid, hi)
    PROVE  Placed(a \o b, s, lo, hi)
<1>. DEFINE m == Len(a)
            n == Len(b)
            ab == a \o b
<1>1. a \in Seq(Entry4) /\ b \in Seq(Entry4) /\ m \in Nat /\ n \in Nat
  BY DEF Placed
<1>2. /\ ab \in Seq(Entry4) /\ Len(ab) = m + n
      /\ \A i \in 1..(m + n) : ab[i] = IF i <= m THEN a[i] ELSE b[i - m]
  BY <1>1, ConcatProperties
<1>3. \A i \in 1..m : a[i] \in Entry4
  BY <1>1
<1>4. \A i \in 1..n : b[i] \in Entry4
  BY <1>1
<1>5. /\ \A i \in 1..m : a[i].size <= s /\ lo <= Node(a[i]).pos /\ Node(a[i]).pos < mid
      /\ \A i, j \in 1..m : i < j => Node(a[i]) # Node(a[j])
      /\ \A i \in 1..n : b[i].size <= s /\ mid <= Node(b[i]).pos /\ Node(b[i]).pos < hi
      /\ \A i, j \in 1..n : i < j => Node(b[i]) # Node(b[j])
  BY DEF Placed
<1>. HIDE DEF m, n, ab
<1>6. ASSUME NEW i \in 1..(m + n)
      PROVE  \/ i \in 1..m /\ ab[i] = a[i]
             \/ i > m /\ i - m \in 1..n /\ ab[i] = b[i - m]
  BY <1>1, <1>2
<1>7. /\ \A i \in 1..m : Node(a[i]).pos \in Int
      /\ \A i \in 1..n : Node(b[i]).pos \in Int
  BY <1>3, <1>4, NodeTyped DEF Node4
<1>8. ASSUME NEW i \in 1..(m + n)
      PROVE  ab[i].size <= s /\ lo <= Node(ab[i]).pos /\ Node(ab[i]).pos < hi
  <2>1. CASE i \in 1..m /\ ab[i] = a[i]
    BY <1>5, <1>7, <2>1
  <2>2. CASE i - m \in 1..n /\ ab[i] = b[i - m]
    BY <1>5, <1>7, <2>2
  <2>. QED BY <1>6, <2>1, <2>2
<1>9. ASSUME NEW i \in 1..(m + n), NEW j \in 1..(m + n), i < j
      PROVE  Node(ab[i]) # Node(ab[j])
  <2>1. CASE j \in 1..m /\ ab[j] = a[j]
    <3>1. i \in 1..m /\ ab[i] = a[i]
      BY <1>1, <1>2, <1>9, <2>1
    <3>. QED BY <1>5, <1>9, <2>1, <3>1
  <2>2. CASE j > m /\ j - m \in 1..n /\ ab[j] = b[j - m]
    <3>1. CASE i \in 1..m /\ ab[i] = a[i]
      <4>1. Node(ab[i]).pos < mid /\ mid <= Node(ab[j]).pos
        BY <1>5, <2>2, <3>1
      <4>2. Node(ab[i]).pos \in Int /\ Node(ab[j]).pos \in Int
        BY <1>7, <2>2, <3>1
      <4>. QED BY <4>1, <4>2
    <3>2. CASE i > m /\ i - m \in 1..n /\ ab[i] = b[i - m]
      <4>1. i - m < j - m
        BY <1>1, <1>9
      <4>2. Node(b[i - m]) # Node(b[j - m])
        BY <1>5, <2>2, <3>2, <4>1
      <4>. QED BY <2>2, <3>2, <4>2
    <3>. QED BY <1>6, <3>1, <3>2
  <2>. QED BY <1>6, <2>1, <2>2
<1>. QED BY <1>2, <1>8, <1>9 DEF Placed, ab

LEMMA WholePlaced ==
    ASSUME NEW a, NEW s \in Int, NEW r \in Int, r < s, NEW n \in Int, n > 0, Placed(a, r, 0, n),
           NEW e \in Entry4, e.size = s, Node(e).pos = 0
    PROVE  Placed(a \o <<e>>, s, 0, n)
<1>. DEFINE m == Len(a)
            ae == a \o <<e>>
<1>1. a \in Seq(Entry4) /\ m \in Nat /\ <<e>> \in Seq(Entry4) /\ Len(<<e>>) = 1 /\ <<e>>[1] = e
  BY DEF Placed
<1>2. /\ ae \in Seq(Entry4) /\ Len(ae) = m + 1
      /\ \A i \in 1..(m + 1) : ae[i] = IF i <= m THEN a[i] ELSE <<e>>[i - m]
  BY <1>1, ConcatProperties
<1>3. \A i \in 1..m : a[i] \in Entry4
  BY <1>1
<1>4. /\ \A i \in 1..m : a[i].size <= r /\ 0 <= Node(a[i]).pos /\ Node(a[i]).pos < n
      /\ \A i, j \in 1..m : i < j => Node(a[i]) # Node(a[j])
  BY DEF Placed
<1>. HIDE DEF m, ae
<1>5. ae[m + 1] = e
  <2>1. m + 1 \in 1..(m + 1) /\ ~(m + 1 <= m) /\ (m + 1) - m = 1
    BY <1>1
  <2>. QED BY <1>1, <1>2, <2>1
<1>6. ASSUME NEW i \in 1..(m + 1) PROVE (i \in 1..m /\ ae[i] = a[i]) \/ (i = m + 1 /\ ae[i] = e)
  BY <1>1, <1>2, <1>5
<1>7. \A i \in 1..m : a[i].size \in Int /\ a[i].size < s
  <2>1. \A i \in 1..m : a[i].size \in Int
    BY <1>3 DEF Entry4
  <2>. QED BY <1>4, <2>1
<1>8. ASSUME NEW i \in 1..(m + 1)
      PROVE  ae[i].size <= s /\ 0 <= Node(ae[i]).pos /\ Node(ae[i]).pos < n
  <2>1. CASE i \in 1..m /\ ae[i] = a[i]
    BY <1>4, <1>7, <2>1
  <2>2. CASE ae[i] = e
    BY <2>2
  <2>. QED BY <1>6, <2>1, <2>2
<1>9. ASSUME NEW i \in 1..(m + 1), NEW j \in 1..(m + 1), i < j
      PROVE  Node(ae[i]) # Node(ae[j])
  <2>1. i \in 1..m /\ ae[i] = a[i]
    BY <1>1, <1>6, <1>9
  <2>2. CASE j \in 1..m /\ ae[j] = a[j]
    BY <1>4, <1>9, <2>1, <2>2
  <2>3. CASE ae[j] = e
    <3>1. Node(ae[i]).size < s /\ Node(ae[j]).size = s
      BY <1>7, <2>1, <2>3 DEF Node
    <3>. QED BY <3>1
  <2>. QED BY <1>6, <2>2, <2>3
<1>. QED BY <1>2, <1>8, <1>9 DEF Placed, ae

ListedOnce(s) == Placed(Abstract!Elaborate[s], s, 0, 2^s)

LEMMA OnceStep ==
    ASSUME LeafLog = 3, MaxLog <= 31, NEW s \in 0..MaxLog,
           \A k \in 0..MaxLog : k < s => ListedOnce(k)
    PROVE  ListedOnce(s)
<1>. DEFINE E == Abstract!Elaborate
            e0 == [size |-> s, at |-> 0]
            part == [i \in 1..5 |-> Abstract!Moved(E[PartSize(s, i)], PartPos(s, i))]
<1>1. E[s] = ListOf(E, s) /\ s \in Nat /\ MaxLog \in Nat
  BY TreeEquations, SizesAssumption
<1>. HIDE DEF E
<1>2. CASE s <= 3
  <2>1. E[s] = <<>>
    BY <1>1, <1>2 DEF ListOf
  <2>2. Placed(<<>>, s, 0, 2^s)
    BY DEF Placed
  <2>. QED BY <2>1, <2>2 DEF ListedOnce, E
<1>3. CASE s > 3
  <2>1. s \in 4..31 /\ s \in 4..MaxLog /\ ~(s <= LeafLog)
    BY <1>1, <1>3
  <2>2. E[s] = part[1] \o part[2] \o part[3] \o part[4] \o part[5] \o <<e0>>
    <3>1. E[s] = Abstract!Listed(part, <<e0>>)
      BY <1>1, <2>1, Zenon DEF ListOf, PartSize, PartPos
    <3>. HIDE DEF part, e0
    <3>. QED BY <3>1, Zenon DEF Abstract!Listed
  <2>3. PICK e \in Nat :
             /\ e >= 1
             /\ 2^s = 8 * e
             /\ PartPos(s, 1) = 0 /\ PartPos(s, 2) = 2 * e /\ PartPos(s, 3) = 3 * e
             /\ PartPos(s, 4) = 4 * e /\ PartPos(s, 5) = 6 * e
             /\ \A i \in 1..5 : 2^PartSize(s, i) = IF i \in {2, 3} THEN e ELSE 2 * e
    BY <2>1, SideBySide
  <2>4. ASSUME NEW i \in 1..5
        PROVE  Placed(part[i], s - 2, PartPos(s, i),
                      (IF i \in {2, 3} THEN e ELSE 2 * e) + PartPos(s, i))
    <3>. DEFINE k == PartSize(s, i)
                p == PartPos(s, i)
                n == IF i \in {2, 3} THEN e ELSE 2 * e
    <3>1. k \in 1..MaxLog /\ k <= s - 2 /\ p \in Int
      BY <2>1, PartTyped DEF PartSize, PartPos
    <3>2. k \in 0..MaxLog /\ k < s
      BY <1>1, <3>1
    <3>3. 2^k = n /\ n \in Int
      BY <2>3
    <3>4. part[i] = Abstract!Moved(E[k], p)
      OBVIOUS
    <3>. HIDE DEF k, p, n, part
    <3>5. Placed(E[k], k, 0, n)
      BY <3>2, <3>3 DEF ListedOnce, E
    <3>6. Placed(E[k], s - 2, 0, n)
      <4>1. \A x \in Seq(Entry4) : \A j \in 1..Len(x) : x[j].size \in Int
        <5>1. \A x \in Seq(Entry4) : \A j \in 1..Len(x) : x[j] \in Entry4
          OBVIOUS
        <5>. QED BY <5>1 DEF Entry4
      <4>2. \A j \in 1..Len(E[k]) : E[k][j].size \in Int /\ E[k][j].size <= k
        BY <3>5, <4>1 DEF Placed
      <4>3. \A j \in 1..Len(E[k]) : E[k][j].size <= s - 2
        BY <1>1, <3>1, <4>2
      <4>. QED BY <3>5, <4>3 DEF Placed
    <3>7. Placed(part[i], s - 2, p, n + p)
      BY <3>1, <3>3, <3>4, <3>6, MovedPlaced
    <3>. QED BY <3>7 DEF p, n
  <2>5. e0 \in Entry4 /\ e0.size = s /\ Node(e0).pos = 0
    BY <2>1 DEF Entry4, Node
  <2>. HIDE DEF part, e0
  <2>. DEFINE r == s - 2
  <2>6. r \in Int /\ r < s
    BY <1>1
  <2>7. /\ Placed(part[1], r, 0, 2 * e) /\ Placed(part[2], r, 2 * e, 3 * e)
        /\ Placed(part[3], r, 3 * e, 4 * e) /\ Placed(part[4], r, 4 * e, 6 * e)
        /\ Placed(part[5], r, 6 * e, 8 * e)
    <3>1. 2 * e + 0 = 2 * e /\ e + 2 * e = 3 * e /\ e + 3 * e = 4 * e
          /\ 2 * e + 4 * e = 6 * e /\ 2 * e + 6 * e = 8 * e
      OBVIOUS
    <3>2. Placed(part[1], r, 0, 2 * e)
      BY <2>3, <2>4, <3>1
    <3>3. Placed(part[2], r, 2 * e, 3 * e)
      BY <2>3, <2>4, <3>1
    <3>4. Placed(part[3], r, 3 * e, 4 * e)
      BY <2>3, <2>4, <3>1
    <3>5. Placed(part[4], r, 4 * e, 6 * e)
      BY <2>3, <2>4, <3>1
    <3>6. Placed(part[5], r, 6 * e, 8 * e)
      BY <2>3, <2>4, <3>1
    <3>. QED BY <3>2, <3>3, <3>4, <3>5, <3>6
  <2>. HIDE DEF r
  <2>8. Placed(part[1] \o part[2], r, 0, 3 * e)
    BY <2>6, <2>7, ConcatenatedPlaced
  <2>9. Placed(part[1] \o part[2] \o part[3], r, 0, 4 * e)
    BY <2>6, <2>7, <2>8, ConcatenatedPlaced
  <2>10. Placed(part[1] \o part[2] \o part[3] \o part[4], r, 0, 6 * e)
    BY <2>6, <2>7, <2>9, ConcatenatedPlaced
  <2>11. Placed(part[1] \o part[2] \o part[3] \o part[4] \o part[5], r, 0, 8 * e)
    BY <2>6, <2>7, <2>10, ConcatenatedPlaced
  <2>12. 8 * e \in Int /\ 8 * e > 0
    BY <2>3
  <2>13. Placed(E[s], s, 0, 8 * e)
    BY <1>1, <2>2, <2>5, <2>6, <2>11, <2>12, WholePlaced
  <2>. QED BY <2>3, <2>13 DEF ListedOnce, E
<1>. QED BY <1>1, <1>2, <1>3

LEMMA EveryListOnce ==
    ASSUME LeafLog = 3, MaxLog <= 31, NEW s \in 0..MaxLog
    PROVE  ListedOnce(s)
<1>. DEFINE S == {k \in Nat : k <= MaxLog /\ ~ListedOnce(k)}
<1>1. SUFFICES ASSUME S # {} PROVE FALSE
  BY SizesAssumption
<1>. DEFINE m == Least(S)
<1>2. S \in SUBSET Nat
  OBVIOUS
<1>. HIDE DEF S
<1>3. m \in S /\ \A k \in S : m <= k
  BY <1>1, <1>2, LeastIsLeast
<1>. HIDE DEF m
<1>4. m \in 0..MaxLog /\ ~ListedOnce(m)
  BY <1>3, SizesAssumption DEF S
<1>5. ASSUME NEW k \in 0..MaxLog, k < m PROVE ListedOnce(k)
  <2>1. ~(m <= k) /\ k \in Nat /\ k <= MaxLog
    BY <1>4, <1>5, SizesAssumption
  <2>. QED BY <1>3, <2>1 DEF S
<1>. QED BY <1>4, <1>5, OnceStep

-----------------------------------------------------------------------------
(* The generated code does what SubTransforms demands.                     *)

\* What is combined is what the calls that ran say, and a run begins with nothing and
\* ends with the list.
Ran ==
    /\ IInv
    /\ combined = [i \in 1..(pc - 1) |-> Node(Calls(plan)[i])]
    /\ stage = "emit" => pc = 1
    /\ stage = "ready" => pc = 1 \/ pc = Len(code) + 1

\* The list of a plan, as SubTransforms sees it.
LEMMA PlanList ==
    ASSUME LeafLog = 3, MaxLog <= 31, NEW s \in Sizes, Calls(s) = Abstract!Elaborate[s]
    PROVE  /\ s \in 1..MaxLog
           /\ Lists(Calls(s), Abstract!AllOf(s))
           /\ \A i, j \in 1..Len(Calls(s)) : i < j => Node(Calls(s)[i]) # Node(Calls(s)[j])
<1>1. s \in 1..MaxLog /\ s \in 0..MaxLog
  BY SizesAssumption
<1>. QED BY <1>1, EveryList, ListIsAll, EveryListOnce DEF ListsParts, ListedOnce, Placed

\* What is combined, as a set.
LEMMA DoneSoFar ==
    ASSUME Ran
    PROVE  /\ pc \in Nat /\ pc >= 1
           /\ DOMAIN combined = 1..(pc - 1)
           /\ combined \in Seq([size : Int, pos : Int]) /\ Len(combined) = pc - 1
           /\ Abstract!Done = NodesTo(Calls(plan), pc - 1)
<1>1. plan \in Sizes /\ pc \in 1..(Len(Calls(plan)) + 1) /\ Len(Calls(plan)) \in Nat
  <2>1. plan \in Sizes
    BY DEF Ran, IInv
  <2>2. Len(Calls(plan)) \in Nat
    BY <2>1, FirstEntry
  <2>. QED BY <2>1, <2>2 DEF Ran, IInv, Emitted, Loaded
<1>2. pc \in Nat /\ pc >= 1 /\ pc - 1 \in Nat
  BY <1>1
<1>3. combined = [i \in 1..(pc - 1) |-> Node(Calls(plan)[i])]
  BY DEF Ran
<1>4. ASSUME NEW i \in 1..(pc - 1) PROVE Node(Calls(plan)[i]) \in [size : Int, pos : Int]
  <2>1. i \in 1..Len(Calls(plan))
    BY <1>1
  <2>2. Calls(plan)[i].size \in Nat /\ Calls(plan)[i].at \in Nat
    BY <1>1, <2>1, EntryType
  <2>3. Calls(plan)[i].at \div 2 \in Int
    BY <2>2
  <2>. QED BY <2>2, <2>3 DEF Node
<1>5. combined \in [1..(pc - 1) -> [size : Int, pos : Int]]
  BY <1>3, <1>4
<1>6. combined \in Seq([size : Int, pos : Int]) /\ Len(combined) = pc - 1
  <2>. DEFINE n == pc - 1
              T == [size : Int, pos : Int]
  <2>1. n \in Nat /\ combined \in [1..n -> T]
    BY <1>2, <1>5
  <2>. HIDE DEF n, T
  <2>2. combined \in Seq(T) /\ Len(combined) = n
    BY <2>1
  <2>. QED BY <2>2 DEF n, T
<1>7. Abstract!Done = NodesTo(Calls(plan), pc - 1)
  BY <1>3 DEF Abstract!Done, NodesTo
<1>. QED BY <1>2, <1>5, <1>6, <1>7

\* The block that runs combines the sub-transform of its entry, after its parts and not
\* again.
LEMMA RunBlockCombines ==
    ASSUME LeafLog = 3, MaxLog <= 31, \A s \in Sizes : Calls(s) = Abstract!Elaborate[s],
           Ran, RunBlock
    PROVE  Ran' /\ \E t \in Abstract!AllOf(plan) \ Abstract!Done : Abstract!Combine(t)
<1>1. /\ IInv /\ IInv' /\ plan \in Sizes /\ plan' = plan /\ stage' = "run"
      /\ code' = code /\ pc' = pc + 1
  BY RunBlockStep DEF Ran, IInv, RunBlock, generator
<1>2. pc \in 1..Len(Calls(plan)) /\ Len(Calls(plan)) \in Nat
  <2>1. Len(Calls(plan)) \in Nat
    BY <1>1, FirstEntry
  <2>. QED BY <1>1, <2>1 DEF IInv, Emitted, Loaded, RunBlock
<1>. DEFINE list == Calls(plan)
            t == Node(list[pc])
<1>3. /\ list \in Seq(Entry4) /\ CompositeParts(t) \subseteq NodesTo(list, pc - 1)
      /\ NodesTo(list, Len(list)) = Abstract!AllOf(plan)
      /\ \A i, j \in 1..Len(list) : i < j => Node(list[i]) # Node(list[j])
  BY <1>1, <1>2, PlanList DEF Lists
<1>4. list[pc].at \in Nat
  BY <1>1, <1>2, EntryType
<1>5. regs'.data = 4 * list[pc].at /\ regs'.size = list[pc].size
  <2>1. pc' > 1 /\ pc' - 1 = pc
    BY <1>1, <1>2
  <2>. QED BY <1>1, <2>1 DEF IInv, Loaded, RegistersRight
<1>6. regs'.data \div 8 = list[pc].at \div 2
  BY <1>4, <1>5
<1>7. combined' = Append(combined, t)
  BY <1>5, <1>6 DEF RunBlock, Node
<1>8. /\ Abstract!Done = NodesTo(list, pc - 1)
      /\ combined \in Seq([size : Int, pos : Int]) /\ Len(combined) = pc - 1
      /\ DOMAIN combined = 1..(pc - 1)
      /\ combined = [i \in 1..(pc - 1) |-> Node(list[i])]
  BY DoneSoFar DEF Ran
<1>9. t \in Abstract!AllOf(plan)
  BY <1>2, <1>3 DEF NodesTo
<1>10. t \notin Abstract!Done
  <2>1. \A i \in 1..(pc - 1) : i \in 1..Len(list) /\ i < pc
    BY <1>2
  <2>2. \A i \in 1..(pc - 1) : Node(list[i]) # t
    BY <1>2, <1>3, <2>1
  <2>. QED BY <1>8, <2>2 DEF NodesTo
<1>11. Ran'
  <2>. HIDE DEF t
  <2>. DEFINE T == [size : Int, pos : Int]
  <2>1. t \in T
    <3>1. list[pc].at \div 2 \in Int /\ list[pc].size \in Int
      BY <1>1, <1>2, <1>4, EntryType
    <3>. QED BY <3>1 DEF t, Node
  <2>2. (pc - 1) + 1 = pc /\ pc' - 1 = pc /\ combined \in Seq(T)
    BY <1>1, <1>2, <1>8
  <2>. HIDE DEF T
  <2>3. /\ combined' \in Seq(T) /\ Len(combined') = pc
        /\ combined'[pc] = t
        /\ \A i \in 1..(pc - 1) : combined'[i] = combined[i]
    <3>1. /\ Append(combined, t) \in Seq(T)
          /\ Len(Append(combined, t)) = Len(combined) + 1
          /\ \A i \in 1..Len(combined) : Append(combined, t)[i] = combined[i]
          /\ Append(combined, t)[Len(combined) + 1] = t
      BY <2>1, <2>2, AppendProperties
    <3>2. Len(combined) = pc - 1 /\ Len(combined) + 1 = pc
      BY <1>8, <2>2
    <3>. QED BY <1>7, <3>1, <3>2
  <2>4. combined' = [i \in 1..pc |-> Node(list[i])]
    <3>1. combined' = [i \in 1..pc |-> combined'[i]]
      BY <2>3
    <3>2. ASSUME NEW i \in 1..pc PROVE combined'[i] = Node(list[i])
      <4>1. CASE i = pc
        BY <2>3, <4>1 DEF t
      <4>2. CASE i # pc
        <5>1. i \in 1..(pc - 1)
          BY <1>2, <4>2
        <5>2. combined[i] = Node(list[i])
          BY <1>8, <5>1
        <5>. QED BY <2>3, <5>1, <5>2
      <4>. QED BY <4>1, <4>2
    <3>. QED BY <3>1, <3>2, Zenon
  <2>5. combined' = [i \in 1..(pc' - 1) |-> Node(Calls(plan')[i])]
    BY <1>1, <2>2, <2>4
  <2>. QED BY <1>1, <2>5 DEF Ran, Node
<1>12. Abstract!Combine(t)
  <2>1. Abstract!Composite(Abstract!PartsOf(t)) \subseteq Abstract!Done
    BY <1>3, <1>8 DEF CompositeParts
  <2>. HIDE DEF t
  <2>. QED BY <1>1, <1>7, <2>1 DEF Abstract!Combine
<1>. QED BY <1>9, <1>10, <1>11, <1>12

\* Nothing is combined where no block has run.
LEMMA NothingYet ==
    ASSUME NEW list
    PROVE  /\ <<>> = [i \in 1..(1 - 1) |-> Node(list[i])]
           /\ NodesTo(list, 1 - 1) = {}
  BY DEF NodesTo

\* A run, or another plan, begins when nothing is combined or everything is.
LEMMA BeginsAgain ==
    ASSUME LeafLog = 3, MaxLog <= 31, \A s \in Sizes : Calls(s) = Abstract!Elaborate[s], Ran,
           Execute \/ \E s \in Sizes : NextPlan(s)
    PROVE  Ran' /\ Abstract!Again
<1>1. IInv /\ plan \in Sizes /\ stage = "ready"
  BY DEF Ran, IInv, Execute, NextPlan
<1>2. IInv' /\ plan' \in Sizes
  <2>1. IInv'
    BY <1>1, NextPlanStep, QuietStep
  <2>. QED BY <2>1 DEF IInv
<1>3. combined' = <<>> /\ pc' = 1
  BY DEF Execute, NextPlan
<1>4. Ran'
  <2>1. combined' = [i \in 1..(pc' - 1) |-> Node(Calls(plan')[i])]
    BY <1>3, NothingYet
  <2>. QED BY <1>2, <1>3, <2>1 DEF Ran, Node
<1>5. Abstract!Done \in {{}, Abstract!AllOf(plan)}
  <2>1. Abstract!Done = NodesTo(Calls(plan), pc - 1)
    BY DoneSoFar
  <2>2. CASE pc = 1
    BY <2>1, <2>2, NothingYet
  <2>3. CASE pc = Len(code) + 1
    <3>1. Len(code) = Len(Calls(plan)) /\ Len(Calls(plan)) \in Nat
      BY <1>1, FirstEntry DEF IInv, Emitted, Loaded
    <3>2. Abstract!Done = NodesTo(Calls(plan), Len(Calls(plan)))
      BY <2>1, <2>3, <3>1
    <3>3. Lists(Calls(plan), Abstract!AllOf(plan))
      BY <1>1, PlanList
    <3>. QED BY <3>2, <3>3 DEF Lists
  <2>. QED BY <1>1, <2>2, <2>3 DEF Ran
<1>6. plan' \in 1..MaxLog
  BY <1>2, SizesAssumption
<1>. QED BY <1>3, <1>4, <1>5, <1>6 DEF Abstract!Again

\* The generator, and the return, leave the output alone.
LEMMA CombinesNothing ==
    ASSUME Ran, Emit \/ EmitEnd \/ Return \/ UNCHANGED vars
    PROVE  Ran' /\ UNCHANGED <<plan, combined>>
<1>1. /\ plan' = plan /\ combined' = combined /\ pc' = pc
  BY DEF Emit, EmitEnd, Return, vars, generator
<1>2. IInv'
  BY EmitStep, QuietStep DEF Ran
<1>3. /\ stage' = "emit" => pc' = 1
      /\ stage' = "ready" => pc' = 1 \/ pc' = Len(code') + 1
  BY <1>1 DEF Ran, Emit, EmitEnd, Return, vars, generator
<1>. QED BY <1>1, <1>2, <1>3 DEF Ran, Node

\* The code that is generated from the list of ffts_elaborate_tree (codegen.c:87-103,
\* 239-308) combines every sub-transform of the recursion exactly once, none before the
\* composite parts it is made of, and the next execution begins when all are there: for
\* plans of up to 2^31 points, in any order of plans and runs.
THEOREM Implementation ==
    ASSUME LeafLog = 3, MaxLog <= 31, \A s \in Sizes : Calls(s) = Abstract!Elaborate[s]
    PROVE  Spec => ImplementsSubTransforms
<1>1. Init => Ran /\ Abstract!Init
  <2>. SUFFICES ASSUME Init PROVE Ran /\ Abstract!Init
    OBVIOUS
  <2>1. IInv /\ plan \in 1..MaxLog /\ combined = <<>> /\ pc = 1 /\ stage = "emit"
    BY InitIInv, SizesAssumption DEF Init
  <2>2. combined = [i \in 1..(pc - 1) |-> Node(Calls(plan)[i])]
    BY <2>1, NothingYet
  <2>. QED BY <2>1, <2>2 DEF Ran, Abstract!Init
<1>2. Ran /\ [Next]_vars => Ran' /\ [Abstract!Next]_<<plan, combined>>
  <2>. SUFFICES ASSUME Ran, [Next]_vars
                PROVE  Ran' /\ [Abstract!Next]_<<plan, combined>>
    OBVIOUS
  <2>1. CASE RunBlock
    BY <2>1, RunBlockCombines DEF Abstract!Next
  <2>2. CASE Execute \/ \E s \in Sizes : NextPlan(s)
    BY <2>2, BeginsAgain DEF Abstract!Next
  <2>3. CASE Emit \/ EmitEnd \/ Return \/ UNCHANGED vars
    BY <2>3, CombinesNothing
  <2>. QED BY <2>1, <2>2, <2>3 DEF Next
<1>. QED BY <1>1, <1>2, PTL DEF Spec, ImplementsSubTransforms, Abstract!Spec, Abstract!vars

\* Writing the bytes and executing them takes no other steps than these: what is proved
\* of the calls holds in every behaviour of the machine code (codegen.c:167-308), where
\* the processor runs a block at each call that it meets.
THEOREM MachineRefines == MachineSpec => Spec
<1>1. MachineInit => Init
  BY DEF MachineInit
<1>2. [MachineNext]_<<vars, machine>> => [Next]_vars
  <2>. SUFFICES ASSUME [MachineNext]_<<vars, machine>> PROVE Next \/ UNCHANGED vars
    OBVIOUS
  <2>1. CASE GenerateSize4 \/ GenerateSize8 \/ GeneratePrologue \/ GenerateLeaves
    BY <2>1 DEF GenerateSize4, GenerateSize8, GeneratePrologue, GenerateLeaves
  <2>2. CASE GenerateCall \/ GenerateEpilogue
    BY <2>2 DEF GenerateCall, GenerateEpilogue, Next
  <2>3. CASE ExecuteText \/ CallStep \/ ReturnToCaller
    BY <2>3 DEF ExecuteText, CallStep, ReturnToCaller, Next
  <2>4. CASE MachineStep
    BY <2>4 DEF MachineStep
  <2>5. CASE \E s \in Sizes : InitNextPlan(s)
    BY <2>5 DEF InitNextPlan, Next
  <2>6. CASE UNCHANGED <<vars, machine>>
    BY <2>6
  <2>. QED BY <2>1, <2>2, <2>3, <2>4, <2>5, <2>6 DEF MachineNext
<1>. QED BY <1>1, <1>2, PTL DEF MachineSpec, Spec
================================================================================
