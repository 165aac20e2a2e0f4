------------------------------ MODULE MachineCode ------------------------------
(***************************************************************************)
(* The machine code that ffts_generate_func_code writes on x86-64, byte by *)
(* byte, and its execution by a processor.                                 *)
(*                                                                         *)
(* Codegen says which calls the generated function makes, and with which   *)
(* operands.  Here the same steps write their bytes: first the routines    *)
(* x_4 and x_8, then the prologue, the leaves, the calls and the epilogue. *)
(* When the function is executed the processor fetches those bytes, and    *)
(* where it meets a call of the function Codegen takes the step that runs  *)
(* a block.                                                                *)
(*                                                                         *)
(* Real numbers are elements of the field of 40961 elements, which has the *)
(* roots of unity that sines and cosines are made of.                      *)
(***************************************************************************)
EXTENDS Codegen, Patterns, SseItems

CONSTANTS
    Abis,       \* calling conventions: a subset of {"win64", "sysv"}
    Signs,      \* a subset of {-1, 1}
    Executed    \* logarithms of the sizes that are also executed

ASSUME AbisAssumption == Abis \subseteq {"win64", "sysv"}
ASSUME SignsAssumption == Signs \subseteq {-1, 1}
ASSUME ExecutedAssumption == Executed \subseteq Sizes /\ Executed \subseteq 5..12

VARIABLES
    abi,        \* calling convention of the build
    sign,       \* of the plan
    gen,        \* the part that the generator writes next
    text,       \* the bytes of the function, from p->transform_base on
    labels,     \* where x_4, x_8 and the function itself begin
    cpu         \* the processor

emission == <<gen, text, labels>>
machine == <<abi, sign, emission, cpu>>

Field == 40961
CPU == INSTANCE Processor WITH P <- Field
Win == INSTANCE CodeWin64
SysV == INSTANCE CodeSysV

-----------------------------------------------------------------------------
(* The parts of the function in front of the calls.                        *)

Offsets(n) == << 0, 4 * n, 2 * n, 6 * n, n, 5 * n, 7 * n, 3 * n >>
OffsetsO_even(n) == Offsets(n)
OffsetsO(n) == << 0, 4 * n, 2 * n, 6 * n, 7 * n, 3 * n, n, 5 * n >>
OffsetsOE(n) == << 7 * n, 3 * n, n, 5 * n, 0, 4 * n, 6 * n, 2 * n >>

\* The pass over the leaves: each part with the count of the loop and the length that
\* the first instructions of the loop are stretched to.
LeafPart(leaf, count, offsets, extend) ==
    << [leaf |-> leaf, count |-> count, offsets |-> offsets, extend |-> extend] >>

LeafParts(s) ==
    LET n == 2^s
        first == 4 * I0(s)
        some == 4 * I1(s)
        Optional(part) == IF I1(s) = 0 THEN <<>> ELSE part
    IN LeafPart("init", first, <<>>, 0)
       \o (IF s % 2 = 1
           THEN LeafPart("ee", 0, Offsets(n), IF I1(s) > 0 THEN 6 ELSE 0)
                \o Optional(LeafPart("oo", first + some, OffsetsO(n), 7))
                \o LeafPart("oe", 0, OffsetsO(n), 0)
           ELSE LeafPart("ee", 0, Offsets(n), IF n >= 256 THEN 2 ELSE 8)
                \o LeafPart("eo", 0, Offsets(n), 0)
                \o Optional(LeafPart("oo", first + some + 4, OffsetsO(n),
                                     IF n >= 256 THEN 4 ELSE 7)))
       \o Optional(LeafPart("again", first + 2 * some + 4, OffsetsOE(n), 0))
       \o LeafPart("transform", 0, <<>>, 0)

\* The loop of the leaves at the end has its count loaded by ffts_generate_func_code.
AgainText(at, part) ==
    IF abi = "win64"
    THEN LET mov == x86_mov_reg_imm(RBX, part.count)
         IN mov \o Win!generate_leaf_ee(at + Len(mov), part.offsets, part.extend)
    ELSE LET mov == x86_mov_reg_imm(RCX, part.count)
             init == mov \o align_mem16(at + Len(mov), 9)
         IN init \o SysV!generate_leaf_ee(at + Len(init), part.offsets, part.extend)

LeafText(at, part) ==
    LET win == abi = "win64"
    IN CASE part.leaf = "init" ->
              IF win THEN Win!generate_leaf_init(at, part.count)
              ELSE SysV!generate_leaf_init(at, part.count)
         [] part.leaf = "ee" ->
              IF win THEN Win!generate_leaf_ee(at, part.offsets, part.extend)
              ELSE SysV!generate_leaf_ee(at, part.offsets, part.extend)
         [] part.leaf = "oo" ->
              IF win THEN Win!generate_leaf_oo(at, part.count, part.offsets, part.extend)
              ELSE SysV!generate_leaf_oo(at, part.count, part.offsets, part.extend)
         [] part.leaf = "eo" ->
              IF win THEN Win!generate_leaf_eo(part.offsets) ELSE SysV!generate_leaf_eo(part.offsets)
         [] part.leaf = "oe" ->
              IF win THEN Win!generate_leaf_oe(part.offsets) ELSE SysV!generate_leaf_oe(part.offsets)
         [] part.leaf = "again" -> AgainText(at, part)
         [] part.leaf = "transform" ->
              IF win THEN Win!generate_transform_init ELSE SysV!generate_transform_init

\* A routine begins at a multiple of 16, and the loop of x_8 is aligned again.
Size4Text == IF abi = "win64" THEN Win!generate_size4_base_case ELSE SysV!generate_size4_base_case
Size8Text(at) ==
    LET pad == align_mem16(at, IF abi = "win64" THEN 6 ELSE 5)
    IN pad \o (IF abi = "win64" THEN Win!generate_size8_base_case(at + Len(pad))
               ELSE SysV!generate_size8_base_case(at + Len(pad)))
PrologueText == IF abi = "win64" THEN Win!generate_prologue ELSE SysV!generate_prologue
EpilogueText == IF abi = "win64" THEN Win!generate_epilogue ELSE SysV!generate_epilogue

-----------------------------------------------------------------------------
(* The calls.                                                              *)

DataReg == IF abi = "win64" THEN R8 ELSE RDX
SizeReg == IF abi = "win64" THEN RBX ELSE RCX
LutReg == IF abi = "win64" THEN R9 ELSE R8

\* The routines of the System V build count the size in quarters.
SizeOperand(size) == IF abi = "win64" THEN 2^size ELSE 2^size \div 4

AddText(reg, n) == IF n = 0 THEN <<>> ELSE x64_alu_reg_imm_size(ADD, reg, n, 8)

\* Larger sizes never follow smaller ones.
ShiftText_right(factor) == IF factor >= 0 THEN <<>> ELSE x86_shift_reg_imm(SHR, SizeReg, -factor)

ShiftText(factor) ==
    IF factor = 0 THEN <<>>
    ELSE IF factor > 0 THEN x86_shift_reg_imm(SHL, SizeReg, factor)
    ELSE x86_shift_reg_imm(SHR, SizeReg, -factor)

\* What is emitted for an entry of the list (Block).
BlockText(at, b) ==
    LET front == (IF b.mov = 0 THEN <<>> ELSE x86_mov_reg_imm(SizeReg, SizeOperand(b.mov)))
                 \o AddText(DataReg, b.addr)
                 \o ShiftText(b.shift)
                 \o AddText(LutReg, b.lut)
    IN front \o x64_call_code(at + Len(front), labels[b.base])

-----------------------------------------------------------------------------
(* Memory, from where the function gets its operands.  Positions are       *)
(* counted in cells of four bytes and are multiples of four; between the   *)
(* areas there is no memory.                                               *)

Points(s) == 2^s
OffsetsAt == 80
WsAt(s) == OffsetsAt + Points(s) \div 4 + 8
WsCells(s) == 16 * (3 * 2^(s - 3) - 5)
ConstantsAt(s) == WsAt(s) + WsCells(s) + 8
InAt(s) == ConstantsAt(s) + 28
OutAt(s) == InAt(s) + 2 * Points(s) + 8
StackAt(s) == OutAt(s) + 2 * Points(s) + 8
StackCells == 64
MemoryEnd(s) == StackAt(s) + StackCells + 8
PlanAt == 16
PlanCells == ConstantsField \div 4 + 2

\* Cosines and sines of parts of the circle: w is a primitive root of unity of order
\* 2^s, i its power that is the imaginary unit, half the inverse of 2.
Power[b \in 0..(Field - 1), e \in Nat] ==
    IF e = 0 THEN 1
    ELSE LET root == Power[b, e \div 2]
             square == (root * root) % Field
         IN IF e % 2 = 0 THEN square ELSE (square * b) % Field
Half == (Field + 1) \div 2
Root(s) == Power[3, (Field - 1) \div 2^s]
ImaginaryUnit == Root(2)
Circle(s, e) == Power[Root(s), e % 2^s]
Cos(s, e) == (((Circle(s, e) + Circle(s, -e)) % Field) * Half) % Field
Sin(s, e) ==
    LET twice == (((Circle(s, -e) - Circle(s, e)) % Field) * ImaginaryUnit) % Field
    IN (twice * Half) % Field

\* ffts_generate_luts: two factors make a vector of their real parts, each twice, and
\* one of their imaginary parts with the signs that MULI_SIGN changes.
FactorLane(s, e0, e1, lane) ==
    LET e == IF lane % 4 \in {0, 1} THEN e0 ELSE e1
        negated == (lane % 2 = 0) = (sign < 0)
    IN IF lane < 4 THEN Cos(s, e) ELSE IF negated THEN (-Sin(s, e)) % Field ELSE Sin(s, e)

\* The level that cell c of p->ws belongs to: levels begin at WsIs(i) complex numbers.
WsLevel(c) == CHOOSE i \in 0..20 : 2 * WsIs(i) <= c /\ (c < 2 * WsIs(i + 1))

Ws(s, c) ==
    LET i == WsLevel(c)
        stride == 2^(s - 4 - i)
        eighth == 2^(i + 1)
        d == c - 2 * WsIs(i)
        j == 2 * (d \div 24)
        Exponent(x, table) == CASE table = 0 -> 2 * x * stride
                                [] table = 1 -> x * stride
                                [] table = 2 -> (x + eighth) * stride
    IN IF i = 0 THEN FactorLane(s, 2 * (d \div 8) * stride, (2 * (d \div 8) + 1) * stride, d % 8)
       ELSE FactorLane(s, Exponent(j, (d % 24) \div 8), Exponent(j + 1, (d % 24) \div 8), d % 8)

\* sse_constants and sse_constants_inv.
Minus0 == CPU!NegZero
Root2 == Cos(3, 1)
Constants ==
    LET m == (-Root2) % Field
    IN IF sign < 0
       THEN << 0, Minus0, 0, Minus0, Root2, Root2, Root2, Root2, m, Root2, m, Root2,
               1, 1, Root2, Root2, 0, 0, m, Root2 >>
       ELSE << Minus0, 0, Minus0, 0, Root2, Root2, Root2, Root2, Root2, m, Root2, m,
               1, 1, Root2, Root2, 0, 0, Root2, m >>

\* The input: numbers without a pattern.
Input(c) == Power[5, 7 * c * c + 11 * c + 1]

\* Eight bytes with a positive number in them.
Quad(v, half) == IF half = 0 THEN v ELSE 0

Memory(s) ==
    [c \in 0..(MemoryEnd(s) - 1) |->
        CASE c - PlanAt \in 0..(PlanCells - 1) ->
               LET d == c - PlanAt
               IN CASE d \div 2 = OffsetsField \div 8 -> Quad(4 * OffsetsAt, d % 2)
                    [] d \div 2 = \h20 \div 8 -> Quad(4 * WsAt(s), d % 2)
                    [] d \div 2 = ConstantsField \div 8 -> Quad(4 * ConstantsAt(s), d % 2)
                    [] OTHER -> CPU!Unset
          [] c - OffsetsAt \in 0..(Points(s) \div 4 - 1) ->
               Quad(2 * Offset(s, (c - OffsetsAt) \div 2), (c - OffsetsAt) % 2)
          [] c - WsAt(s) \in 0..(WsCells(s) - 1) ->
               IF c - WsAt(s) < 2 * WsIs(s - 3) THEN Ws(s, c - WsAt(s)) ELSE CPU!Unset
          [] c - ConstantsAt(s) \in 0..19 -> Constants[c - ConstantsAt(s) + 1]
          [] c - InAt(s) \in 0..(2 * Points(s) - 1) -> Input(c - InAt(s))
          [] c - OutAt(s) \in 0..(2 * Points(s) - 1) -> CPU!Unset
          [] c - StackAt(s) \in 0..(StackCells - 1) -> CPU!Unset
          [] OTHER -> CPU!Unmapped]

-----------------------------------------------------------------------------
(* The processor when the function is called: six words of the caller lie  *)
(* above the return address.                                               *)

ReturnTo == 2^20
EntryRsp(s) == 4 * (StackAt(s) + StackCells) - 56

Argument == IF abi = "win64" THEN [plan |-> RCX, in |-> RDX, out |-> R8]
            ELSE [plan |-> RDI, in |-> RSI, out |-> RDX]

\* What the caller may have in a register that is not an argument.
CallerGpr(r) == 1000 + r
CallerXmm(x) == [k \in 1..4 |-> 100 * x + k]

EntryGpr(s) ==
    [r \in 0..15 |->
        CASE r = Argument.plan -> 4 * PlanAt
          [] r = Argument.in -> 4 * InAt(s)
          [] r = Argument.out -> 4 * OutAt(s)
          [] r = RSP -> EntryRsp(s)
          [] OTHER -> CallerGpr(r)]

Entry_cpu(s) ==
    [ rip |-> labels["start"],
      gpr |-> EntryGpr(s),
      xmm |-> [x \in 0..15 |-> CallerXmm(x)],
      zf |-> FALSE,
      mem |-> [Memory(s) EXCEPT ![EntryRsp(s) \div 4] = ReturnTo, ![EntryRsp(s) \div 4 + 1] = 0],
      rw |-> OutAt(s),
      target |-> 0,
      fault |-> FALSE ]

Off == [rip |-> 0, fault |-> FALSE, target |-> 0]

-----------------------------------------------------------------------------
MachineInit ==
    /\ Init
    /\ abi \in Abis
    /\ sign \in Signs
    /\ gen = "x_4"
    /\ text = <<>>
    /\ labels = [l \in {"x_4", "x_8", "start"} |-> 0]
    /\ cpu = Off

\* What is written begins at a multiple of 16.
Aligned == text \o align_mem16(Len(text), 0)

GenerateSize4 ==
    /\ gen = "x_4"
    /\ labels' = [labels EXCEPT !["x_4"] = Len(Aligned)]
    /\ text' = Aligned \o Size4Text
    /\ gen' = "x_8"
    /\ UNCHANGED <<vars, abi, sign, cpu>>

GenerateSize8 ==
    /\ gen = "x_8"
    /\ labels' = [labels EXCEPT !["x_8"] = Len(Aligned)]
    /\ text' = Aligned \o Size8Text(Len(Aligned))
    /\ gen' = "prologue"
    /\ UNCHANGED <<vars, abi, sign, cpu>>

GeneratePrologue ==
    /\ gen = "prologue"
    /\ labels' = [labels EXCEPT !["start"] = Len(Aligned)]
    /\ text' = Aligned \o PrologueText
    /\ gen' = "leaves"
    /\ UNCHANGED <<vars, abi, sign, cpu>>

\* generate_leaf_init to generate_transform_init.
GenerateLeaves ==
    /\ gen = "leaves"
    /\ LET parts == LeafParts(plan)
           written[k \in 0..Len(parts)] ==
               IF k = 0 THEN text
               ELSE written[k - 1] \o LeafText(Len(written[k - 1]), parts[k])
       IN text' = written[Len(parts)]
    /\ gen' = "calls"
    /\ UNCHANGED <<vars, abi, sign, labels, cpu>>

GenerateCall ==
    /\ gen = "calls"
    /\ Emit
    /\ text' = text \o BlockText(Len(text), Block)
    /\ UNCHANGED <<abi, sign, gen, labels, cpu>>

GenerateEpilogue ==
    /\ gen = "calls"
    /\ EmitEnd
    /\ text' = text \o EpilogueText
    /\ gen' = "done"
    /\ UNCHANGED <<abi, sign, labels, cpu>>

\* ffts_execute.
ExecuteText ==
    /\ plan \in Executed
    /\ Execute
    /\ cpu' = Entry_cpu(plan)
    /\ UNCHANGED <<abi, sign, emission>>

\* An instruction of the function that calls x_4 or x_8.
CallStep ==
    /\ cpu.rip # ReturnTo
    /\ CPU!Byte(text, cpu.rip) = \hE8
    /\ RunBlock
    /\ cpu' = CPU!Step(text, cpu)
    /\ UNCHANGED <<abi, sign, emission>>

\* Any other instruction.
MachineStep ==
    /\ stage = "run"
    /\ ~cpu.fault
    /\ cpu.rip # ReturnTo
    /\ CPU!Byte(text, cpu.rip) # \hE8
    /\ cpu' = CPU!Step(text, cpu)
    /\ UNCHANGED <<vars, abi, sign, emission>>

ReturnToCaller ==
    /\ cpu.rip = ReturnTo
    /\ Return
    /\ UNCHANGED machine

\* The next plan.
InitNextPlan(s) ==
    /\ NextPlan(s)
    /\ sign' \in Signs
    /\ gen' = "x_4"
    /\ text' = <<>>
    /\ labels' = [l \in {"x_4", "x_8", "start"} |-> 0]
    /\ cpu' = Off
    /\ UNCHANGED abi

MachineNext ==
    \/ GenerateSize4 \/ GenerateSize8 \/ GeneratePrologue \/ GenerateLeaves
    \/ GenerateCall \/ GenerateEpilogue
    \/ ExecuteText \/ CallStep \/ MachineStep \/ ReturnToCaller
    \/ \E s \in Sizes : InitNextPlan(s)

MachineSpec == MachineInit /\ [][MachineNext]_<<vars, machine>>

-----------------------------------------------------------------------------
(* Properties.                                                             *)

\* Two bytes for each point.
TransformSize_perPoint(s) == 2 * 2^s

\* transform_size of ffts_init_1d.
TransformSize(s) ==
    IF s < 11 THEN 16384 ELSE 16384 + ((2 * 2^s) \div 8) * s

\* The generated function does not outgrow the memory that ffts_init_1d mapped for
\* it (ffts.c:488-493): no bound is tested while it is written.
TextFits == Len(text) <= TransformSize(plan)

\* Every instruction that is reached can be executed: it is one, its operands are in
\* memory of the plan, the buffers or the stack, what it writes is not constant, and
\* vectors lie at multiples of 16 bytes, which movaps demands.
NeverFaults == ~cpu.fault

\* Where a routine is entered the registers of the processor hold what Codegen says:
\* the bytes mean what was meant by them (codegen.c:239-308), the immediate operands
\* of one byte and of four, the short shift, and the displacement of the call.
OperandsRight ==
    stage = "run" /\ cpu.rip \in {labels["x_4"], labels["x_8"]} =>
        /\ cpu.rip = labels[code[pc - 1].base]
        /\ cpu.gpr[DataReg] = 4 * OutAt(plan) + regs.data
        /\ cpu.gpr[SizeReg] = SizeOperand(regs.size)
        /\ cpu.gpr[LutReg] = 4 * WsAt(plan) + regs.lut

\* Loops and routines begin at multiples of 16, as the assertions in codegen_sse.h
\* demand of the loops (lines 486, 618, 1156, 1256, 1399, 1574): what is in front of a
\* loop changes its length with the size of the transform.
TargetsAligned == cpu.target % 16 = 0

Returned == stage = "ready" /\ cpu.rip = ReturnTo

\* What the function leaves in the output is the discrete Fourier transform of the
\* input, of the sign that the plan was made for.
RightTransform ==
    Returned =>
        LET n == 2^plan
            out[k \in 0..(2 * n - 1)] == cpu.mem[OutAt(plan) + k]
            Sum[k \in 0..(n - 1), j \in 0..n] ==
                IF j = 0 THEN << 0, 0 >>
                ELSE LET x == Input(2 * (j - 1))
                         y == Input(2 * (j - 1) + 1)
                         c == Cos(plan, (j - 1) * k)
                         d == (sign * Sin(plan, (j - 1) * k)) % Field
                         before == Sum[k, j - 1]
                     IN << (before[1] + ((x * c) % Field) - ((y * d) % Field)) % Field,
                           (before[2] + ((x * d) % Field) + ((y * c) % Field)) % Field >>
        IN \A k \in 0..(n - 1) : << out[2 * k], out[2 * k + 1] >> = Sum[k, n]

\* The general registers that the calling convention lets a caller keep its own values in.
NonvolatileGpr == IF abi = "win64" THEN {RBX, RBP, RSI, RDI, R12, R13, R14, R15}
                  ELSE {RBX, RBP, R12, R13, R14, R15}
NonvolatileXmm == IF abi = "win64" THEN 6..15 ELSE {}

\* The caller finds its general registers and the stack pointer as they were, although
\* prologue and epilogue save some of them where the stack has not been claimed and
\* calls push their return addresses (codegen_sse.h:158-239).
GeneralRegistersKept ==
    Returned =>
        /\ \A r \in NonvolatileGpr : cpu.gpr[r] = EntryGpr(plan)[r]
        /\ cpu.gpr[RSP] = EntryRsp(plan) + 8

\* The function saves and restores all registers that it has to, the vector registers
\* included ("save nonvolatile registers", codegen_sse.h:204, "restore nonvolatile
\* registers", line 158).
NonvolatileKept ==
    GeneralRegistersKept /\ (Returned => \A x \in NonvolatileXmm : cpu.xmm[x] = CallerXmm(x))
==============================================================================
