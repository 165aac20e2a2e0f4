------------------------------- MODULE Processor -------------------------------
(***************************************************************************)
(* As much of an x86-64 processor as generated code uses: instructions are *)
(* fetched from a text, byte by byte, decoded and executed.  It knows      *)
(* nothing of how the text was made.                                       *)
(*                                                                         *)
(* A state of the processor is a record:                                   *)
(*   rip     index of the next byte of the text, counted from 0            *)
(*   gpr     general registers, integers                                   *)
(*   xmm     vector registers, four lanes each                             *)
(*   zf      the zero flag                                                 *)
(*   mem     memory, in cells of four bytes                                *)
(*   rw      the first cell that may be written                            *)
(*   target  where the last jump or call went                              *)
(*   fault   it has met something that it cannot execute                   *)
(*                                                                         *)
(* An arithmetical lane is an element of the field of P elements, in place *)
(* of a real number.  NegZero is the bit pattern of -0.0, and means the    *)
(* change of a sign to xorps.                                              *)
(***************************************************************************)
EXTENDS Integers, Sequences

CONSTANT P      \* a prime

NegZero == P
Unset == P + 1      \* what nobody has stored
Unmapped == -1      \* what stands where there is no memory

\* The operators of arithmetic.
Plus(a, b) == IF a >= P \/ b >= P THEN Unset ELSE (a + b) % P
Minus(a, b) == IF a >= P \/ b >= P THEN Unset ELSE (a - b) % P
Times(a, b) == IF a >= P \/ b >= P THEN Unset ELSE (a * b) % P
Xor(a, mask) == IF mask = 0 THEN a
                ELSE IF mask = NegZero /\ a < P THEN (-a) % P ELSE Unset

-----------------------------------------------------------------------------
(* Decoding.                                                               *)

Byte(text, i) == IF i \in 0..(Len(text) - 1) THEN text[i + 1] ELSE 0

Signed8(b) == IF b > 127 THEN b - 256 ELSE b
Signed32(text, i) ==
    Byte(text, i) + \h100 * Byte(text, i + 1) + \h10000 * Byte(text, i + 2)
        + \h1000000 * Signed8(Byte(text, i + 3))

Bit(n, k) == (n \div 2^k) % 2

\* Opcodes with an immediate of one byte and of four bytes behind the operands.
Imm8Of(two) == IF two THEN {\hC6} ELSE {\h83, \hC1}
Imm32Of(two) == IF two THEN {} ELSE {\h81}
\* Opcodes without operands behind them, and the immediate they carry.
PlainImm(two, op) ==
    IF two THEN (IF op = \h85 THEN 4 ELSE -1)
    ELSE IF op \in {\h05, \h2D, \h3D, \hE8} \cup (\hB8..\hBF) THEN 4
    ELSE IF op = \h75 THEN 1
    ELSE IF op \in (\h50..\h5F) \cup {\h90, \hC3} THEN 0
    ELSE -1

\* The instruction at position i.  Its operands are the register reg and either the
\* register rm or memory at base + index * scale + disp, where a base or an index of -1
\* is none.
Decode(text, i) ==
    LET prefixed == Byte(text, i) = \h66
        a == IF prefixed THEN i + 1 ELSE i
        rex == IF Byte(text, a) \in \h40..\h4F THEN Byte(text, a) % 16 ELSE 0
        b == IF Byte(text, a) \in \h40..\h4F THEN a + 1 ELSE a
        two == Byte(text, b) = \h0F
        c == IF two THEN b + 1 ELSE b
        op == Byte(text, c)
        wide == Bit(rex, 3) = 1
        plain == PlainImm(two, op)
    IN IF plain >= 0
       THEN [ op |-> op, two |-> two, wide |-> wide, next |-> c + 1 + plain,
              reg |-> (op % 8) + 8 * Bit(rex, 0), memory |-> FALSE, rm |-> 0,
              base |-> -1, index |-> -1, scale |-> 1, disp |-> 0,
              imm |-> CASE plain = 4 -> Signed32(text, c + 1)
                        [] plain = 1 -> Signed8(Byte(text, c + 1))
                        [] OTHER -> 0 ]
       ELSE
       LET modrm == Byte(text, c + 1)
           mod == modrm \div 64
           rm == modrm % 8
           hasSib == mod # 3 /\ rm = 4
           sib == Byte(text, c + 2)
           d == IF hasSib THEN c + 3 ELSE c + 2
           low == IF hasSib THEN sib % 8 ELSE rm
           noBase == mod = 0 /\ low = 5
           dispBytes == CASE mod = 1 -> 1 [] mod = 2 \/ noBase -> 4 [] OTHER -> 0
           e == d + dispBytes
           index == ((sib \div 8) % 8) + 8 * Bit(rex, 1)
       IN [ op |-> op, two |-> two, wide |-> wide,
            next |-> e + (IF op \in Imm8Of(two) THEN 1
                          ELSE IF op \in Imm32Of(two) THEN 4 ELSE 0),
            reg |-> ((modrm \div 8) % 8) + 8 * Bit(rex, 2),
            memory |-> mod # 3,
            rm |-> rm + 8 * Bit(rex, 0),
            base |-> IF noBase THEN -1 ELSE low + 8 * Bit(rex, 0),
            index |-> IF hasSib /\ index # 4 THEN index ELSE -1,
            scale |-> IF hasSib THEN 2^(sib \div 64) ELSE 1,
            disp |-> CASE dispBytes = 1 -> Signed8(Byte(text, d))
                       [] dispBytes = 4 -> Signed32(text, d)
                       [] OTHER -> 0,
            imm |-> IF op \in Imm8Of(two) THEN Signed8(Byte(text, e))
                    ELSE IF op \in Imm32Of(two) THEN Signed32(text, e) ELSE 0 ]

-----------------------------------------------------------------------------
(* Executing.  A processor that has faulted goes no further.               *)

Fault(cpu) == [cpu EXCEPT !.fault = TRUE]

Address(cpu, ins) ==
    (IF ins.base = -1 THEN 0 ELSE cpu.gpr[ins.base])
    + (IF ins.index = -1 THEN 0 ELSE cpu.gpr[ins.index] * ins.scale) + ins.disp

\* Accesses of n cells at an address that has the alignment they need.
Readable(cpu, at, n, align) ==
    /\ at % align = 0
    /\ \A c \in (at \div 4)..(at \div 4 + n - 1) : c \in DOMAIN cpu.mem /\ cpu.mem[c] # Unmapped
CanWrite(cpu, at, n, align) == Readable(cpu, at, n, align) /\ at \div 4 >= cpu.rw

\* Integers of eight bytes: all that are stored here are positive and less than 2^31.
ReadQuad(cpu, at) == cpu.mem[at \div 4]
WriteQuad(cpu, at, v) == [cpu.mem EXCEPT ![at \div 4] = v, ![at \div 4 + 1] = 0]

SetGpr(cpu, ins, r, v) ==
    [cpu EXCEPT !.gpr[r] = v, !.rip = ins.next]

Arithmetic(cpu, ins, op, r, b) ==
    LET a == cpu.gpr[r]
        v == CASE op = 0 -> a + b [] op \in {5, 7} -> a - b [] op = 6 /\ a = b -> 0
    IN [cpu EXCEPT !.gpr[r] = IF op = 7 THEN a ELSE v, !.zf = (v = 0), !.rip = ins.next]

Push(cpu, v) ==
    LET at == cpu.gpr[4] - 8
    IN IF CanWrite(cpu, at, 2, 8)
       THEN [cpu EXCEPT !.gpr[4] = at, !.mem = WriteQuad(cpu, at, v)] ELSE Fault(cpu)

\* What is on top of the stack goes to a register, or to rip (register -1).
Pop(cpu, ins, r) ==
    LET at == cpu.gpr[4]
    IN IF ~Readable(cpu, at, 2, 8) THEN Fault(cpu)
       ELSE IF r = -1 THEN [cpu EXCEPT !.gpr[4] = at + 8, !.rip = ReadQuad(cpu, at)]
       ELSE [cpu EXCEPT !.gpr = [@ EXCEPT ![4] = at + 8, ![r] = ReadQuad(cpu, at)],
                        !.rip = ins.next]

Jump(cpu, to) == [cpu EXCEPT !.rip = to, !.target = to]

\* Instructions without operands behind them.
ExecPlain(cpu, ins) ==
    LET op == ins.op
    IN CASE ins.two -> IF cpu.zf THEN [cpu EXCEPT !.rip = ins.next] ELSE Jump(cpu, ins.next + ins.imm)
         [] op = \h75 -> IF cpu.zf THEN [cpu EXCEPT !.rip = ins.next] ELSE Jump(cpu, ins.next + ins.imm)
         [] op = \hE8 -> Jump(Push(cpu, ins.next), ins.next + ins.imm)
         [] op = \hC3 -> Pop(cpu, ins, -1)
         [] op = \h90 -> [cpu EXCEPT !.rip = ins.next]
         [] op \in \h50..\h57 -> [Push(cpu, cpu.gpr[ins.reg]) EXCEPT !.rip = ins.next]
         [] op \in \h58..\h5F -> Pop(cpu, ins, ins.reg)
         [] op \in \hB8..\hBF -> SetGpr(cpu, ins, ins.reg, ins.imm)
         [] OTHER -> Arithmetic(cpu, ins, op \div 8, 0, ins.imm)

\* Instructions on general registers.
ExecInteger(cpu, ins) ==
    LET op == ins.op
        at == Address(cpu, ins)
    IN CASE ~ins.memory /\ op \in {\h03, \h2B, \h33, \h3B} ->
              Arithmetic(cpu, ins, op \div 8, ins.reg, cpu.gpr[ins.rm])
         [] ~ins.memory /\ op \in {\h81, \h83} ->
              Arithmetic(cpu, ins, ins.reg % 8, ins.rm, ins.imm)
         [] ~ins.memory /\ op \in {\hC1, \hD1} ->
              LET count == IF op = \hD1 THEN 1 ELSE ins.imm
              IN SetGpr(cpu, ins, ins.rm,
                        CASE ins.reg % 8 = 4 -> cpu.gpr[ins.rm] * 2^count
                          [] ins.reg % 8 = 5 -> cpu.gpr[ins.rm] \div 2^count)
         [] ~ins.memory /\ op = \h8B -> SetGpr(cpu, ins, ins.reg, cpu.gpr[ins.rm])
         [] ins.memory /\ op = \h8B /\ ins.wide /\ Readable(cpu, at, 2, 8) ->
              SetGpr(cpu, ins, ins.reg, ReadQuad(cpu, at))
         [] ins.memory /\ op = \h89 /\ ins.wide /\ CanWrite(cpu, at, 2, 8) ->
              [cpu EXCEPT !.mem = WriteQuad(cpu, at, cpu.gpr[ins.reg]), !.rip = ins.next]
         [] ins.memory /\ op = \h63 /\ ins.wide /\ Readable(cpu, at, 1, 4) ->
              SetGpr(cpu, ins, ins.reg, cpu.mem[at \div 4])
         [] ins.memory /\ op = \h8D /\ ins.wide -> SetGpr(cpu, ins, ins.reg, at)
         [] OTHER -> Fault(cpu)

Lanes(Op(_, _), u, v) == [k \in 1..4 |-> Op(u[k], v[k])]

\* Instructions on vector registers.  movaps needs addresses that are multiples of 16.
ExecVector(cpu, ins) ==
    LET op == ins.op
        at == Address(cpu, ins)
        Set(v) == [cpu EXCEPT !.xmm[ins.reg] = v, !.rip = ins.next]
        u == cpu.xmm[ins.reg]
        v == cpu.xmm[ins.rm]
    IN CASE op = \h1F -> [cpu EXCEPT !.rip = ins.next]
         [] op = \h28 /\ ins.memory /\ Readable(cpu, at, 4, 16) ->
              Set([k \in 1..4 |-> cpu.mem[at \div 4 + k - 1]])
         [] op = \h29 /\ ins.memory /\ CanWrite(cpu, at, 4, 16) ->
              [cpu EXCEPT !.mem = [@ EXCEPT ![at \div 4] = u[1], ![at \div 4 + 1] = u[2],
                                            ![at \div 4 + 2] = u[3], ![at \div 4 + 3] = u[4]],
                          !.rip = ins.next]
         [] op = \h28 /\ ~ins.memory -> Set(v)
         [] op = \h58 /\ ~ins.memory -> Set(Lanes(Plus, u, v))
         [] op = \h5C /\ ~ins.memory -> Set(Lanes(Minus, u, v))
         [] op = \h59 /\ ~ins.memory -> Set(Lanes(Times, u, v))
         [] op = \h57 /\ ~ins.memory -> Set(Lanes(Xor, u, v))
         [] op = \h16 /\ ~ins.memory -> Set(<< u[1], u[2], v[1], v[2] >>)
         [] op = \hC6 /\ ~ins.memory ->
              LET Pick(k) == ((ins.imm \div 4^k) % 4) + 1
              IN Set(<< u[Pick(0)], u[Pick(1)], v[Pick(2)], v[Pick(3)] >>)
         [] OTHER -> Fault(cpu)

Exec(cpu, ins) ==
    IF PlainImm(ins.two, ins.op) >= 0 THEN ExecPlain(cpu, ins)
    ELSE IF ins.two THEN ExecVector(cpu, ins)
    ELSE ExecInteger(cpu, ins)

\* One instruction.  Outside of the text there is none.
Step(text, cpu) ==
    IF cpu.rip \notin 0..(Len(text) - 1) THEN Fault(cpu) ELSE Exec(cpu, Decode(text, cpu.rip))
==============================================================================
