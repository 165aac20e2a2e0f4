-------------------------------- MODULE Encoders --------------------------------
(***************************************************************************)
(* The instruction macros of x86-codegen.h and x64-codegen.h, asked for    *)
(* one instruction at a time and read back the way a processor reads.      *)
(* A step stands for one family of macros, with the kinds of operands it   *)
(* has macros for; the text it leaves is what IntelFormat disassembles.    *)
(* A branch can afterwards be patched, and the code of a prolog and an     *)
(* epilog can be run.                                                      *)
(***************************************************************************)
EXTENDS X64Macros, IntelFormat

CONSTANTS
    Registers,  \* the registers that operands are built from
    Fields,     \* the registers of the register field
    Addresses, Displacements, Shifts, Immediates,
    Distances,  \* the displacements and the targets of branches
    Masks       \* the register masks of prologs

ASSUME RegistersAssumption == Registers \subseteq 0..15 /\ Fields \subseteq 0..15

VARIABLES
    mode,       \* 32 or 64: which header, and how the processor reads
    text,       \* the bytes that were emitted
    asked,      \* the instructions that were asked for
    misread,    \* whether the macro is known not to emit them
    machine     \* the registers and the stack of a run of the text

vars == <<mode, text, asked, misread, machine>>

Off == [ at |-> 0 ]

-----------------------------------------------------------------------------
(* Operands and what they stand for.                                       *)

Available(set) == {r \in set : r < 8 \/ mode = 64}
Sizes == IF mode = 64 THEN {4, 8} ELSE {4}
AllSizes == {1, 2} \cup Sizes
Word == mode \div 8
Bases == Available(Registers) \cup (IF mode = 64 THEN {RIP} ELSE {})

Operands(kinds) ==
    UNION { CASE k = "reg" -> {Reg(r) : r \in Available(Registers)}
              [] k = "regp" -> {Regp(r) : r \in Available(Registers)}
              [] k = "mem" -> {Mem(a) : a \in Addresses}
              [] k = "membase" -> {Membase(b, d) : b \in Bases, d \in Displacements}
              [] k = "memindex" ->
                   {Memindex(b, d, i, s) : b \in Available(Registers) \cup {NOBASEREG},
                      d \in Displacements, i \in Available(Registers) \ {RSP}, s \in Shifts}
              : k \in kinds }
Plain == {"reg", "mem", "membase"}

Meaning(o) ==
    CASE o[1] = "reg" -> o
      [] o[1] = "regp" -> <<"at", o[2], None, 1, 0>>
      [] o[1] = "mem" -> <<"at", None, None, 1, o[2]>>
      [] o[1] = "membase" -> <<"at", o[2], None, 1, o[3]>>
      [] o[1] = "memindex" -> <<"at", o[2], o[4], 2^o[5], o[3]>>
Vector(o) == IF o[1] = "reg" THEN <<"xmm", o[2]>> ELSE Meaning(o)
Imm(value) == <<"imm", value>>
Instr(op, size, args) == [ op |-> op, size |-> size, args |-> args ]

\* Names of the conditions, by the order of X86_CC.
Condition(cond, is_signed) ==
    <<"cc", IF is_signed /\ cond \in LT..GE THEN <<"l", "le", "g", "ge">>[cond - 1]
            ELSE <<"e", "ne", "b", "be", "a", "ae", "s", "ns", "p", "np", "o", "no">>[cond + 1]>>

-----------------------------------------------------------------------------
(* The operands that do not come back.                                     *)

\* ESP and EBP, and the registers with their low bits, are no base without a displacement.
OddBase(o) == o[1] = "regp" /\ o[2] % 8 \in {RSP, RBP}
\* In 64-bit mode the form of an absolute address counts from the instruction pointer,
Absolute(o) == mode = 64 /\ o[1] = "mem"
\* the low bits of "no base" are those of RDI,
NoBase(o) == mode = 64 /\ o[1] = "memindex" /\ o[2] = NOBASEREG
\* and those of RIP those of R8.
LostRip(o) == o[1] = "membase" /\ o[2] = RIP
Odd(o) == OddBase(o) \/ Absolute(o) \/ NoBase(o)
High(o) ==
    CASE o[1] = "mem" -> FALSE
      [] o[1] = "memindex" -> o[2] > 7 \/ o[4] > 7
      [] OTHER -> o[2] > 7
\* Two registers that are given to REX in the wrong order.
Crossed(o, reg) == o[1] = "reg" /\ ((o[2] > 7) # (reg > 7))

\* In 64-bit mode x64, in 32-bit mode x86.
Emit(x86, x64, meant, known) ==
    /\ text' = IF mode = 32 THEN x86 ELSE x64
    /\ asked' = << meant >>
    /\ misread' = known
    /\ UNCHANGED <<mode, machine>>

Init ==
    /\ mode \in {32, 64}
    /\ text = <<>>
    /\ asked = <<>>
    /\ misread = FALSE
    /\ machine = Off

-----------------------------------------------------------------------------
(* Instructions without operands.                                          *)

BareMeaning(name, size) ==
    CASE name = "breakpoint" -> Instr("int3", 0, <<>>)
      [] name \in {"stosb", "movsb"} -> Instr(IF name = "stosb" THEN "stos" ELSE "movs", 1, <<>>)
      [] name \in {"stosl", "movsl"} -> Instr(IF name = "stosl" THEN "stos" ELSE "movs", size, <<>>)
      [] name = "cdq" -> Instr("cdq", size, <<>>)
      [] name \in {"pushfd", "popfd"} -> Instr(IF name = "pushfd" THEN "pushf" ELSE "popf", Word, <<>>)
      [] name = "frem" -> Instr("fprem", 0, <<>>)
      [] OTHER -> Instr(name, 0, <<>>)

BareInstruction ==
    /\ text = <<>>
    /\ \E name \in DOMAIN Bare, size \in Sizes :
           Emit(Bare[name], x64_bare(name, size), BareMeaning(name, size),
                mode = 64 /\ name \in {"pushad", "popad"})

FloatInstruction ==
    /\ text = <<>>
    /\ \E name \in DOMAIN FpBare \cup DOMAIN FpFunctions :
           LET code == (FpBare @@ FpFunctions)[name]
           IN Emit(code, code, BareMeaning(name, 0), FALSE)

-----------------------------------------------------------------------------
(* Arithmetic.                                                             *)

Exchange ==
    /\ text = <<>>
    /\ \E name \in {"cmpxchg", "xchg", "xadd"}, o \in Operands(Plain), reg \in Available(Fields),
          size \in {1} \cup Sizes :
           /\ size = 1 => name # "cmpxchg" /\ (mode = 64 \/ (reg < 4 /\ (o[1] = "reg" => o[2] < 4)))
           /\ Emit(CASE name = "cmpxchg" -> x86_cmpxchg(o, reg)
                     [] name = "xchg" -> x86_xchg(o, reg, size)
                     [] name = "xadd" -> x86_xadd(o, reg, size),
                   CASE name = "cmpxchg" -> x64_cmpxchg(o, reg, size)
                     [] name = "xchg" -> x64_xchg(o, reg, size)
                     [] name = "xadd" -> x64_xadd(o, reg, size),
                   Instr(name, size, << Meaning(o), Reg(reg) >>),
                   Odd(o) \/ LostRip(o) \/ Crossed(o, reg))

Unary ==
    /\ text = <<>>
    /\ \E name \in {"inc", "dec", "not", "neg", "mul", "imul", "div", "idiv"}, o \in Operands(Plain),
          size \in Sizes :
           Emit(CASE name = "inc" -> x86_inc(o) [] name = "dec" -> x86_dec(o)
                  [] name = "not" -> x86_not(o) [] name = "neg" -> x86_neg(o)
                  [] name \in {"mul", "imul"} -> x86_mul(o, name = "imul")
                  [] name \in {"div", "idiv"} -> x86_div(o, name = "idiv"),
                CASE name = "inc" -> x64_inc(o, size) [] name = "dec" -> x64_dec(o, size)
                  [] name = "not" -> x64_not(o, size) [] name = "neg" -> x64_neg(o, size)
                  [] name \in {"mul", "imul"} -> x64_mul(o, name = "imul", size)
                  [] name \in {"div", "idiv"} -> x64_div(o, name = "idiv", size),
                Instr(name, size, << Meaning(o) >>),
                Odd(o) \/ LostRip(o))

Alu(opc) == AluNames[opc + 1]

AluImmediate ==
    /\ text = <<>>
    /\ \E opc \in 0..7, o \in Operands(Plain), imm \in Immediates, size \in {1} \cup Sizes :
           /\ size = 1 => o[1] = "membase" /\ is_imm8(imm)
           /\ Emit(IF size = 1 THEN x86_alu_membase8_imm(opc, o, imm) ELSE x86_alu_imm(opc, o, imm),
                   IF size = 1 THEN x64_alu_membase8_imm(opc, o, imm, size)
                   ELSE x64_alu_imm(opc, o, imm, size),
                   Instr(Alu(opc), size, << Meaning(o), Imm(imm) >>),
                   Odd(o) \/ LostRip(o))

AluTo ==
    /\ text = <<>>
    /\ \E opc \in 0..7, o \in Operands({"mem", "membase"}), reg \in Available(Fields), size \in Sizes :
           Emit(x86_alu_to(opc, o, reg), x64_alu_to(opc, o, reg, size),
                Instr(Alu(opc), size, << Meaning(o), Reg(reg) >>), Odd(o) \/ LostRip(o))

AluFrom ==
    /\ text = <<>>
    /\ \E opc \in 0..7, o \in Operands(Plain), reg \in Available(Fields), size \in Sizes :
           Emit(x86_alu_from(opc, reg, o), x64_alu_from(opc, reg, o, size),
                Instr(Alu(opc), size, << Reg(reg), Meaning(o) >>), Odd(o))

\* AH to BH are the registers 0 to 3 with a flag, and no register of a REX instruction.
AluBytes ==
    /\ text = <<>>
    /\ \E opc \in {ADD, CMP}, dreg, reg \in Available(Registers), dh, h \in BOOLEAN, size \in Sizes :
           LET part(r, high) == IF high THEN <<"high", r>> ELSE Reg(r)
               hasRex == size = 8 \/ dreg > 7 \/ reg > 7
           IN /\ (dh => dreg < 4) /\ (h => reg < 4)
              /\ mode = 32 => (dreg < 4 /\ reg < 4)
              /\ Emit(x86_alu_reg8_reg8(opc, dreg, reg, dh, h), x64_alu_reg8_reg8(opc, dreg, reg, dh, h, size),
                      Instr(Alu(opc), 1, << part(dreg, dh), part(reg, h) >>),
                      IF hasRex THEN dh \/ h ELSE {dreg, reg} \cap (4..7) # {})

ClearRegister ==
    /\ text = <<>>
    /\ \E reg \in Available(Registers), size \in Sizes :
           Emit(x86_clear_reg(reg), x64_clear_reg(reg, size),
                Instr("xor", size, << Reg(reg), Reg(reg) >>), reg > 7)

\* R8 has the low bits of the accumulator, which has a shorter form.
TestImmediate ==
    /\ text = <<>>
    /\ \E o \in Operands(Plain), imm \in Immediates, size \in Sizes :
           Emit(x86_test_imm(o, imm), x64_test_imm(o, imm, size),
                Instr("test", size, << Meaning(o), Imm(imm) >>),
                Odd(o) \/ LostRip(o) \/ o = Reg(R8))

TestByte ==
    /\ text = <<>>
    /\ \E o \in Operands({"mem"}), imm \in {i \in Immediates : is_imm8(i)} :
           /\ mode = 32
           /\ Emit(x86_test_mem_imm8(o[2], imm), <<>>, Instr("test", 1, << Meaning(o), Imm(imm) >>), FALSE)

Test ==
    /\ text = <<>>
    /\ \E o \in Operands(Plain), reg \in Available(Fields), size \in Sizes :
           Emit(x86_test(o, reg), x64_test(o, reg, size),
                Instr("test", size, << Meaning(o), Reg(reg) >>),
                Odd(o) \/ LostRip(o) \/ Crossed(o, reg))

\* x64_shift_mem, x64_shift_mem_imm and x64_shift_membase_imm do not compile.
Shift ==
    /\ text = <<>>
    /\ \E opc \in 0..7 \ {6}, o \in Operands(Plain), count \in {1, 31}, by_cl \in BOOLEAN, size \in Sizes :
           /\ mode = 64 => o[1] = "reg" \/ (o[1] = "membase" /\ by_cl)
           /\ Emit(IF by_cl THEN x86_shift(opc, o) ELSE x86_shift_imm(opc, o, count),
                   IF by_cl THEN x64_shift(opc, o, size) ELSE x64_shift_imm(opc, o, count, size),
                   Instr(ShiftNames[opc + 1], size,
                         << Meaning(o), IF by_cl THEN Reg(RCX) ELSE Imm(count) >>),
                   Odd(o) \/ LostRip(o))

DoubleShift ==
    /\ text = <<>>
    /\ \E left, by_cl \in BOOLEAN, dreg \in Available(Registers), reg \in Available(Fields), size \in Sizes :
           Emit(CASE left /\ by_cl -> x86_shld_reg(dreg, reg)
                  [] left /\ ~by_cl -> x86_shld_reg_imm(dreg, reg, 7)
                  [] ~left /\ by_cl -> x86_shrd_reg(dreg, reg)
                  [] OTHER -> x86_shrd_reg_imm(dreg, reg, 7),
                CASE left /\ by_cl -> x64_shld_reg(dreg, reg, size)
                  [] left /\ ~by_cl -> x64_shld_reg_imm(dreg, reg, 7, size)
                  [] ~left /\ by_cl -> x64_shrd_reg(dreg, reg, size)
                  [] OTHER -> x64_shrd_reg_imm(dreg, reg, 7, size),
                Instr(IF left THEN "shld" ELSE "shrd", size,
                      << Reg(dreg), Reg(reg), IF by_cl THEN Reg(RCX) ELSE Imm(7) >>),
                Crossed(Reg(dreg), reg))

Multiply ==
    /\ text = <<>>
    /\ \E o \in Operands(Plain), reg \in Available(Fields), size \in Sizes :
           \/ Emit(x86_imul(reg, o), x64_imul(reg, o, size),
                   Instr("imul", size, << Reg(reg), Meaning(o) >>), Odd(o) \/ LostRip(o))
           \/ \E imm \in Immediates :
                 Emit(x86_imul_imm(reg, o, imm), x64_imul_imm(reg, o, imm, size),
                      Instr("imul", size, << Reg(reg), Meaning(o), Imm(imm) >>), Odd(o) \/ LostRip(o))

-----------------------------------------------------------------------------
(* Moves.                                                                  *)

\* In 32-bit mode bytes are in the registers 0 to 3, X86_IS_BYTE_REG.
ByteRegister(reg, size) == size = 1 /\ mode = 32 => reg < 4

\* A REX byte in front of the operand prefix is not seen: the macros that leave
\* the prefix to x86-codegen.h put it there.
Hidden(o, reg, size) == size = 2 /\ (High(o) \/ reg > 7)

\* In 64-bit mode x64_mov_mem_reg writes an absolute address with an index byte that has
\* no base, x64_mov_mem_reg_size does not.
MoveTo ==
    /\ text = <<>>
    /\ \E o \in Operands({"mem", "regp", "membase", "memindex"}), reg \in Available(Fields),
          size \in AllSizes, sized \in BOOLEAN :
           /\ ByteRegister(reg, size)
           /\ sized => mode = 64 /\ o[1] \in {"mem", "memindex"}
           /\ o[1] = "memindex" /\ mode = 64 => sized
           /\ Emit(x86_mov_to(o, reg, size),
                   IF sized THEN x64_mov_to_size(o, reg, size) ELSE x64_mov_to(o, reg, size),
                   Instr("mov", size, << Meaning(o), Reg(reg) >>),
                   \/ OddBase(o) \/ NoBase(o) \/ LostRip(o)
                   \/ sized /\ (o[1] = "mem" \/ Hidden(o, reg, size)))

\* x64_mov_reg_reg and x64_mov_reg_reg_size both move between registers.
MoveFrom ==
    /\ text = <<>>
    /\ \E o \in Operands({"reg", "mem", "membase", "memindex"}), reg \in Available(Fields),
          size \in AllSizes, sized \in BOOLEAN :
           /\ ByteRegister(reg, size) /\ (o[1] = "reg" => ByteRegister(o[2], size))
           /\ sized => mode = 64 /\ o[1] \in {"reg", "memindex"}
           /\ o[1] = "memindex" /\ mode = 64 => sized
           /\ Emit(x86_mov_from(reg, o, size),
                   IF sized THEN x64_mov_from_size(reg, o, size) ELSE x64_mov_from(reg, o, size),
                   Instr("mov", size, << Reg(reg), Meaning(o) >>),
                   NoBase(o) \/ (sized /\ Hidden(o, reg, size)))

MoveImmediate ==
    /\ text = <<>>
    /\ \E o \in Operands({"mem", "membase", "memindex"}), imm \in Immediates, size \in AllSizes :
           /\ size < 4 => is_imm8(imm)
           /\ Emit(x86_mov_imm(o, imm, size), x64_mov_imm(o, imm, size),
                   Instr("mov", size, << Meaning(o), Imm(imm) >>),
                   Odd(o) \/ LostRip(o) \/ (o[1] # "membase" /\ Hidden(o, 0, size) /\ mode = 64))

\* The width of x64_mov_reg_imm is four bytes for a number that four bytes hold with
\* their sign, and the processor fills up without it.
LoadImmediate ==
    /\ text = <<>>
    /\ \E reg \in Available(Registers), imm \in Immediates, sized \in BOOLEAN, size \in Sizes :
           Emit(x86_mov_reg_imm(reg, imm),
                IF sized THEN x64_mov_reg_imm_size(reg, imm, size) ELSE x64_mov_reg_imm(reg, imm),
                Instr("mov_imm", 0, << Reg(reg), Imm(imm) >>),
                mode = 64 /\ imm < 0 /\ (~sized \/ size = 4))

MoveExtended ==
    /\ text = <<>> /\ mode = 64
    /\ \E o \in Operands({"reg", "mem", "membase", "memindex"}), reg \in Available(Fields) :
         \/ Emit(<<>>, x64_movsxd(reg, o), Instr("movsxd", 8, << Reg(reg), Meaning(o) >>),
                 Odd(o) \/ LostRip(o) \/ (o[1] = "memindex" /\ o[4] > 7))
         \/ \E size \in AllSizes :
              /\ o[1] = "membase"
              /\ Emit(<<>>, x64_movzx_reg_membase(reg, o, size),
                      Instr(CASE size = 1 -> "movzxb" [] size = 2 -> "movzxw" [] OTHER -> "mov",
                            IF size < 4 THEN 4 ELSE size, << Reg(reg), Meaning(o) >>),
                      LostRip(o))

LoadAddress ==
    /\ text = <<>>
    /\ \E o \in Operands({"mem", "membase", "memindex"}), reg \in Available(Fields) :
           Emit(x86_lea(reg, o), x64_lea(reg, o), Instr("lea", Word, << Reg(reg), Meaning(o) >>), Odd(o))

\* Without a REX byte, the byte registers 4 to 7 are AH to BH.
Widen ==
    /\ text = <<>>
    /\ \E o \in Operands({"reg", "mem", "membase", "memindex"}), reg \in Available(Fields),
          signed, half \in BOOLEAN, size \in Sizes :
           /\ ~half /\ o[1] = "reg" => ByteRegister(o[2], 1)
           /\ Emit(x86_widen(reg, o, signed, half), x64_widen(reg, o, signed, half, size),
                   Instr((IF signed THEN "movsx" ELSE "movzx") \o (IF half THEN "w" ELSE "b"),
                         size, << Reg(reg), Meaning(o) >>),
                   \/ Odd(o) \/ LostRip(o)
                   \/ ~half /\ o[1] = "reg" /\ o[2] \in 4..7 /\ size = 4 /\ reg < 8)

-----------------------------------------------------------------------------
(* The floating point unit.                                                *)

FpNames == <<"fadd", "fmul", "fcom", "fcomp", "fsub", "fsubr", "fdiv", "fdivr">>
FpIntNames == <<"fiadd", "fimul", "ficom", "ficomp", "fisub", "fisubr", "fidiv", "fidivr">>

FloatArithmetic ==
    /\ text = <<>>
    /\ \E opc \in 0..7 :
           \/ \E o \in Operands({"mem", "membase"}), is_double \in BOOLEAN :
                 Emit(x86_fp_op_memory(opc, o, is_double), x64_fp_op_memory(opc, o, is_double),
                      Instr(FpNames[opc + 1] \o (IF is_double THEN "l" ELSE "s"), 0, << Meaning(o) >>),
                      Odd(o) \/ LostRip(o))
           \/ \E o \in Operands({"membase"}), is_int \in BOOLEAN :
                 Emit(x86_fp_int_op_membase(opc, o, is_int), x64_fp_int_op_membase(opc, o, is_int),
                      Instr(FpIntNames[opc + 1] \o (IF is_int THEN "l" ELSE "s"), 0, << Meaning(o) >>),
                      LostRip(o))
           \/ \E index \in {0, 3, 7} :
                 Emit(x86_fp_op(opc, index), x86_fp_op(opc, index),
                      Instr(FpNames[opc + 1], 0, << <<"st", index>> >>), FALSE)
           \/ \E index \in {0, 3, 7}, pop_stack \in BOOLEAN :
                 /\ opc \notin {2, 3}
                 /\ Emit(x86_fp_op_reg(opc, index, pop_stack), x86_fp_op_reg(opc, index, pop_stack),
                         Instr(FpNames[opc + 1] \o (IF pop_stack THEN "p" ELSE "_to"), 0, << <<"st", index>> >>),
                         FALSE)

FpMeaning(name) ==
    CASE name = "fld_reg" -> "fld" [] name = "fst80" -> "fstp80"
      [] name = "fist_popl" -> "fistpl" [] name = "fist_popll" -> "fistpll" [] OTHER -> name

FloatStack ==
    /\ text = <<>>
    /\ \E name \in DOMAIN FpIndexed, index \in {0, 3, 7} :
           Emit(x86_fp_indexed(name, index), x86_fp_indexed(name, index),
                Instr(FpMeaning(name), 0, << <<"st", index>> >>), FALSE)

FloatMove ==
    /\ text = <<>>
    /\ \E name \in DOMAIN FpMemory, o \in Operands({"mem", "membase"}), size \in Sizes :
           /\ name \in {"fistl", "fists"} => o[1] = "membase"
           /\ Emit(x86_fp_memory(name, o), x64_fp_memory(name, o, size),
                   Instr(FpMeaning(name), 0, << Meaning(o) >>),
                   Odd(o) \/ (LostRip(o) /\ name \notin {"flds", "fldl"}))

\* A wait and a store of the status word.
FloatStatus ==
    /\ text = <<>>
    /\ \E size \in Sizes :
           /\ text' = IF mode = 32 THEN x86_fstsw ELSE x64_fstsw(size)
           /\ asked' = << Instr("wait", 0, <<>>), Instr("fnstsw", 0, <<>>) >>
           /\ UNCHANGED <<mode, misread, machine>>

-----------------------------------------------------------------------------
(* The stack, jumps and calls.  Positions count from the first byte.       *)

To(position) == <<"to", position>>

Push ==
    /\ text = <<>>
    /\ \/ \E o \in Operands({"reg", "regp", "mem", "membase", "memindex"}) :
            Emit(x86_push(o), x64_push(o, 8), Instr("push", Word, << Meaning(o) >>), Odd(o) \/ LostRip(o))
       \/ \E imm \in Immediates :
            Emit(x86_push_imm(imm), x86_push_imm(imm), Instr("push", Word, << Imm(imm) >>), FALSE)

\* x86_pop_mem and x86_pop_membase emit an exchange.
Pop ==
    /\ text = <<>>
    /\ \E o \in Operands(Plain) :
           Emit(x86_pop(o), x64_pop(o, 8), Instr("pop", Word, << Meaning(o) >>), o[1] # "reg")

\* Displacements of these count from the end of the instruction.
Loop ==
    /\ text = <<>>
    /\ \E name \in DOMAIN Loops, imm \in {d \in Distances : is_imm8(d)}, size \in Sizes :
           Emit(x86_loop(name, imm), x64_loop(name, imm, size),
                Instr(name, 0, << To((IF size = 8 THEN 3 ELSE 2) + imm) >>), FALSE)

Jump ==
    /\ text = <<>>
    /\ \/ \E imm \in Distances, size \in Sizes :
            LET rexBytes == IF size = 8 THEN 1 ELSE 0
            IN \/ Emit(x86_jump32(imm), x64_jump32(imm, size), Instr("jmp", 0, << To(rexBytes + 5 + imm) >>), FALSE)
               \/ /\ is_imm8(imm)
                  /\ Emit(x86_jump8(imm), x64_jump8(imm, size), Instr("jmp", 0, << To(rexBytes + 2 + imm) >>), FALSE)
       \/ \E target \in Distances :
            Emit(x86_jump_code(0, target), x64_jump_code(0, target), Instr("jmp", 0, << To(target) >>), FALSE)
       \/ \E o \in Operands(Plain), size \in Sizes :
            Emit(x86_jump(o), x64_jump(o, size), Instr("jmp", 0, << Meaning(o) >>), Odd(o))

\* The displacement of x64_branch_disp is not corrected for the REX byte in front.
Branch ==
    /\ text = <<>>
    /\ \E cond \in EQ..NO, is_signed \in BOOLEAN, target \in Distances, size \in Sizes :
           LET asked_for(position) == Instr("j", 0, << Condition(cond, is_signed), To(position) >>)
               rexBytes == IF size = 8 THEN 1 ELSE 0
           IN \/ Emit(x86_branch(0, cond, target, is_signed), x64_branch(0, cond, target, is_signed, size),
                      asked_for(target), FALSE)
              \/ Emit(x86_branch_disp(cond, target, is_signed), x64_branch_disp(cond, target, is_signed, size),
                      asked_for(target), size = 8)
              \/ Emit(x86_branch32(cond, target, is_signed),
                      emit_rex(size, 0, 0, 0) \o x86_branch32(cond, target, is_signed),
                      asked_for(rexBytes + 6 + target), FALSE)
              \/ /\ is_imm8(target)
                 /\ Emit(x86_branch8(cond, target, is_signed),
                         emit_rex(size, 0, 0, 0) \o x86_branch8(cond, target, is_signed),
                         asked_for(rexBytes + 2 + target), FALSE)

SetByte ==
    /\ text = <<>>
    /\ \E cond \in EQ..NO, is_signed \in BOOLEAN, o \in Operands(Plain) :
           /\ o[1] = "reg" => ByteRegister(o[2], 1)
           /\ Emit(x86_set(cond, o, is_signed), x64_set(cond, o, is_signed),
                   Instr("set", 1, << Condition(cond, is_signed), Meaning(o) >>), Odd(o) \/ LostRip(o))

\* With a base register, the high bit of the other register is lost.
ConditionalMove ==
    /\ text = <<>>
    /\ \E cond \in EQ..NO, is_signed \in BOOLEAN, o \in Operands(Plain), reg \in Available(Fields), size \in Sizes :
           Emit(x86_cmov(cond, is_signed, reg, o), x64_cmov(cond, is_signed, reg, o, size),
                Instr("cmov", size, << Condition(cond, is_signed), Reg(reg), Meaning(o) >>),
                Odd(o) \/ LostRip(o) \/ (o[1] = "membase" /\ reg > 7))

Call ==
    /\ text = <<>>
    /\ \/ \E disp \in Distances :
            Emit(x86_call_imm(disp), x86_call_imm(disp), Instr("call", 0, << To(5 + disp) >>), FALSE)
       \/ \E target \in Distances :
            Emit(x86_call_code(0, target), x64_call_code(0, target), Instr("call", 0, << To(target) >>), FALSE)
       \/ \E o \in Operands(Plain), size \in Sizes :
            Emit(x86_call(o), x64_call(o, size), Instr("call", 0, << Meaning(o) >>), Odd(o))

\* x64_enter does not compile.
Return ==
    /\ text = <<>>
    /\ \E imm \in {i \in Immediates : i >= 0}, size \in Sizes :
           \/ Emit(x86_ret_imm(imm), x64_ret_imm(imm, size),
                   Instr("ret", 0, IF imm = 0 THEN <<>> ELSE << Imm(imm % \h10000) >>), FALSE)
           \/ /\ mode = 32
              /\ Emit(x86_enter(imm), <<>>, Instr("enter", 0, << Imm(imm % \h10000), Imm(0) >>), FALSE)

\* x86_patch of a branch or call that was emitted without a prefix.  The macro asserts
\* that the displacement fits the instruction that is there.
Patch ==
    /\ Len(asked) = 1 /\ asked[1].op \in {"j", "jmp", "call"} \cup DOMAIN Loops
    /\ machine = Off /\ ~misread /\ text[1] \notin (\h40..\h4F) \cup {\hFF}
    /\ \E target \in Distances :
         /\ x86_patch(text, target) # <<>>
         /\ text' = x86_patch(text, target)
         /\ asked' = << [ asked[1] EXCEPT !.args[Len(asked[1].args)] = To(target) ] >>
    /\ UNCHANGED <<mode, misread, machine>>

-----------------------------------------------------------------------------
(* SSE.                                                                    *)

Xmm(n) == <<"xmm", n>>

\* Opcodes of the integer instructions stand next to one another: two of these are
\* those of a neighbour, and two instructions do not exist.
WrongOpcode == {"psubusw", "psraq", "rsqrtpd", "rcppd"}

\* The macros between registers that are given a size.
SseSized == {"addps", "mulps", "subps", "movhlps", "movlhps", "movaps"}

SseRegisters ==
    /\ text = <<>>
    /\ \E dreg \in Available(Fields), reg \in Available(Registers) :
           \/ /\ mode = 64
              /\ \E name \in DOMAIN SseRegReg, size \in {0, 8} :
                   /\ size = 8 => name \in SseSized
                   /\ Emit(<<>>, sse_reg_reg(SseRegReg[name], dreg, reg, size),
                           Instr(name, 0, << Xmm(dreg), Xmm(reg) >>), name \in WrongOpcode)
           \/ /\ mode = 32
              /\ \/ \E name \in DOMAIN X86_SSE_Float, p \in DOMAIN SsePrefix :
                      /\ CASE name \in {"rsqrt", "rcp"} -> p \in {"ps", "ss"}
                           [] name \in {"and", "andn", "or", "xor", "unpckl", "unpckh"} -> p \in {"ps", "pd"}
                           [] name \in {"addsub", "hadd", "hsub"} -> p \in {"pd", "sd"}
                           [] OTHER -> TRUE
                      /\ Emit(x86_sse_alu(SsePrefix[p], X86_SSE_Float[name], dreg, Reg(reg)), <<>>,
                              Instr(name \o (IF name \in {"addsub", "hadd", "hsub"} /\ p = "sd" THEN "ps" ELSE p),
                                    0, << Xmm(dreg), Xmm(reg) >>), FALSE)
                 \/ \E name \in DOMAIN X86_SSE_Integer :
                      Emit(x86_sse_alu(SsePrefix.pd, X86_SSE_Integer[name], dreg, Reg(reg)), <<>>,
                           Instr(name, 0, << Xmm(dreg), Xmm(reg) >>), FALSE)
                 \/ \E name \in DOMAIN X86_SSE_Shift :
                      Emit(x86_sse_alu(SsePrefix.pd, X86_SSE_Shift[name], dreg, Reg(reg)), <<>>,
                           Instr(name, 0, << Xmm(dreg), Xmm(reg) >>), FALSE)
                 \/ \E name \in DOMAIN X86_SSE_41 :
                      Emit(x86_sse_alu_sse41_reg_reg(X86_SSE_41[name], dreg, reg), <<>>,
                           Instr(name, 0, << Xmm(dreg), Xmm(reg) >>), FALSE)
                 \/ \E name \in DOMAIN X86_SSE_Convert :
                      Emit(x86_sse_move(X86_SSE_Convert[name], dreg, Reg(reg)), <<>>,
                           Instr(name, 0, << Xmm(dreg), Xmm(reg) >>), FALSE)
                 \/ Emit(x86_sse_move(X86_SSE_Loads.movaps, dreg, Reg(reg)), <<>>,
                         Instr("movaps", 0, << Xmm(dreg), Xmm(reg) >>), FALSE)

SseMemory ==
    /\ text = <<>>
    /\ \E reg \in Available(Fields) :
           \/ \E name \in DOMAIN SseLoads, o \in Operands({"membase", "memindex"}), size \in {0, 8} :
                 /\ mode = 64
                 /\ o[1] = "memindex" => name = "movaps"
                 /\ size = 8 => name \in {"movups", "movaps"} /\ o[1] = "membase"
                 /\ Emit(<<>>, sse_load(SseLoads[name], reg, o, size),
                         Instr(name, IF name = "movd" THEN 4 ELSE 0, << Xmm(reg), Meaning(o) >>), NoBase(o))
           \/ \E name \in DOMAIN SseStores, o \in Operands({"membase", "memindex"}), size \in {0, 8} :
                 /\ mode = 64
                 /\ o[1] = "memindex" => name \in {"movaps", "movntps"}
                 /\ size = 8 => name \in {"movups", "movaps"} /\ o[1] = "membase"
                 /\ Emit(<<>>, sse_store(SseStores[name], o, reg, size),
                         Instr(name, 0, << Meaning(o), Xmm(reg) >>), NoBase(o))
           \/ \E name \in {"movsd", "movss"}, o \in Operands({"regp", "membase"}) :
                 /\ mode = 64
                 /\ \/ Emit(<<>>, x64_movs(SseLoads[name], reg, o),
                            Instr(name, 0, << Xmm(reg), Meaning(o) >>), Odd(o) \/ LostRip(o))
                    \/ Emit(<<>>, x64_movs(SseStores[name], reg, o),
                            Instr(name, 0, << Meaning(o), Xmm(reg) >>), Odd(o) \/ LostRip(o))
           \/ \E name \in DOMAIN X86_SSE_Loads, o \in Operands({"membase"}) :
                 /\ mode = 32
                 /\ Emit(x86_sse_move(X86_SSE_Loads[name], reg, o), <<>>,
                         Instr(name, IF name = "movd" THEN 4 ELSE 0, << Xmm(reg), Meaning(o) >>), FALSE)
           \/ \E name \in DOMAIN X86_SSE_Stores, o \in Operands({"membase"}) :
                 /\ mode = 32
                 /\ Emit(x86_sse_move(X86_SSE_Stores[name], reg, o), <<>>,
                         Instr(name, 0, << Meaning(o), Xmm(reg) >>), FALSE)
           \/ \E hint \in 0..3, o \in Operands({"membase"}) :
                 Emit(x86_sse_alu(<<>>, \h18, hint, o), sse_load(<<0, \h18>>, hint, o, 0),
                      Instr("prefetch", 0, << Imm(hint), Meaning(o) >>), FALSE)

SseImmediate ==
    /\ text = <<>>
    /\ \E dreg \in Available(Fields), reg \in Available(Registers), imm \in {1, 100} :
           \/ /\ mode = 64
              /\ \/ \E name \in DOMAIN SseImm :
                      Emit(<<>>, sse_reg_reg_imm(SseImm[name], dreg, reg, imm),
                           Instr(name, 0, << IF name = "pextrw" THEN Reg(dreg) ELSE Xmm(dreg),
                                             IF name = "pinsrw" THEN Reg(reg) ELSE Xmm(reg), Imm(imm) >>),
                           FALSE)
                 \/ \E name \in DOMAIN SseShiftImm :
                      Emit(<<>>, x64_sse_shift_reg_imm(name, reg, imm),
                           Instr(name, 0, << Xmm(reg), Imm(imm) >>), name \in WrongOpcode)
           \/ /\ mode = 32
              /\ \/ \E high_words \in BOOLEAN :
                      Emit(x86_pshufw_reg_reg(dreg, reg, imm, high_words), <<>>,
                           Instr(IF high_words THEN "pshufhw" ELSE "pshuflw", 0, << Xmm(dreg), Xmm(reg), Imm(imm) >>),
                           FALSE)
                 \/ \E p \in {"ps", "pd"} :
                      Emit(x86_sse_alu_imm(SsePrefix[p], \hC6, dreg, Reg(reg), imm), <<>>,
                           Instr("shuf" \o p, 0, << Xmm(dreg), Xmm(reg), Imm(imm) >>), FALSE)
                 \/ \E name \in DOMAIN X86_SSE_ShiftImm :
                      LET code == X86_SSE_ShiftImm[name]
                      IN Emit(x86_sse_shift_reg_imm(code[1], code[2], reg, imm), <<>>,
                              Instr(name, 0, << Xmm(reg), Imm(imm) >>), FALSE)

\* Between the general and the vector registers.
SseToGeneral ==
    /\ text = <<>>
    /\ \E dreg \in Available(Fields), reg \in Available(Registers) :
           \/ /\ mode = 64
              /\ \E name \in DOMAIN SseGeneral, size \in Sizes :
                   /\ name = "pmovmskb" => size = 4
                   /\ name = "cvtsd2si" => size = 8
                   /\ Emit(<<>>, sse_reg_reg(SseGeneral[name], dreg, reg, size),
                           CASE name \in {"cvtsd2si", "cvttsd2si"} -> Instr(name, size, << Reg(dreg), Xmm(reg) >>)
                             [] name = "pmovmskb" -> Instr(name, 0, << Reg(dreg), Xmm(reg) >>)
                             [] name \in {"cvtsi2sd", "cvtsi2ss"} -> Instr(name, size, << Xmm(dreg), Reg(reg) >>)
                             [] name = "movd_to_xmm" -> Instr("movd", size, << Xmm(dreg), Reg(reg) >>)
                             [] name = "movd_from_xmm" -> Instr("movd", size, << Reg(reg), Xmm(dreg) >>),
                           FALSE)
           \/ /\ mode = 32
              /\ \/ Emit(x86_cvttsd2si(dreg, reg), <<>>, Instr("cvttsd2si", 4, << Reg(dreg), Xmm(reg) >>), FALSE)
                 \/ Emit(x86_movd_reg_xreg(reg, dreg), <<>>, Instr("movd", 4, << Reg(reg), Xmm(dreg) >>), FALSE)
                 \/ Emit(x86_sse_move(X86_SSE_Loads.movd, dreg, Reg(reg)), <<>>,
                         Instr("movd", 4, << Xmm(dreg), Reg(reg) >>), FALSE)

-----------------------------------------------------------------------------
(* Code around a function, and code that fills space.                      *)

Padding ==
    /\ text = <<>>
    /\ \E size \in 1..(IF mode = 64 THEN 8 ELSE 7) :
           /\ text' = IF mode = 64 THEN x64_padding(size) ELSE x86_padding(size)
           /\ asked' = << Instr("padding", size, <<>>) >>
           /\ UNCHANGED <<mode, misread, machine>>

\* A prolog and an epilog.  The machine is about to run them: each of its registers has
\* a value of its own, and a return address is on its stack.
Stack == 1000
ReturnAddress == -100
AtStart == [r \in 0..7 |-> IF r = RSP THEN Stack ELSE -1 - r]

Function ==
    /\ text = <<>>
    /\ \E mask \in Masks, frame_size \in {0, 16} :
           LET prolog == IF mode = 64 THEN x64_prolog(frame_size, mask, 8) ELSE x86_prolog(frame_size, mask)
               epilog == IF mode = 64 THEN x64_epilog(mask, 8) ELSE x86_epilog(mask)
           IN /\ text' = prolog \o epilog
              /\ machine' = [ at |-> 1, reg |-> AtStart, memory |-> (Stack :> ReturnAddress),
                              body |-> Len(prolog) + 1, mask |-> mask ]
              /\ UNCHANGED <<mode, asked, misread>>

Pushed(m, value) ==
    [ m EXCEPT !.reg[RSP] = @ - Word, !.memory = (m.reg[RSP] - Word :> value) @@ @ ]
Popped(m) == [ m EXCEPT !.reg[RSP] = @ + Word ]
Top(m) == IF m.reg[RSP] \in DOMAIN m.memory THEN m.memory[m.reg[RSP]] ELSE 0

Executed(m, ins) ==
    CASE ins.op = "enter" ->
           LET p == Pushed(m, m.reg[RBP])
           IN [ p EXCEPT !.reg[RBP] = p.reg[RSP], !.reg[RSP] = @ - ins.args[1][2], !.at = ins.next ]
      [] ins.op = "push" -> [ Pushed(m, m.reg[ins.args[1][2]]) EXCEPT !.at = ins.next ]
      [] ins.op = "pop" -> [ Popped(m) EXCEPT !.reg[ins.args[1][2]] = Top(m), !.at = ins.next ]
      [] ins.op = "leave" ->
           LET p == [ m EXCEPT !.reg[RSP] = m.reg[RBP] ]
           IN [ Popped(p) EXCEPT !.reg[RBP] = Top(p), !.at = ins.next ]
      [] ins.op = "ret" -> [ Popped(m) EXCEPT !.at = Top(m) ]

\* Between them the function uses the registers of the mask, and leaves ESP where it was.
Body ==
    /\ machine # Off /\ machine.at = machine.body
    /\ machine' = [ machine EXCEPT !.body = 0,
                      !.reg = [r \in 0..7 |-> IF r \in machine.mask \ {RSP} THEN 0 ELSE @[r]] ]
    /\ UNCHANGED <<mode, text, asked, misread>>

Run ==
    /\ machine # Off /\ machine.at \in DOMAIN text /\ machine.at # machine.body
    /\ machine' = Executed(machine, Instruction(text, machine.at, mode))
    /\ UNCHANGED <<mode, text, asked, misread>>

-----------------------------------------------------------------------------

Next ==
    \/ BareInstruction \/ FloatInstruction \/ Exchange \/ Unary \/ AluImmediate \/ AluTo \/ AluFrom
    \/ AluBytes \/ ClearRegister \/ TestImmediate \/ TestByte \/ Test \/ Shift \/ DoubleShift
    \/ Multiply \/ MoveTo \/ MoveFrom \/ MoveImmediate \/ LoadImmediate \/ MoveExtended
    \/ LoadAddress \/ Widen \/ FloatArithmetic \/ FloatStack \/ FloatMove \/ FloatStatus
    \/ Push \/ Pop \/ Loop \/ Jump \/ Branch \/ SetByte \/ ConditionalMove \/ Call \/ Return
    \/ Patch \/ SseRegisters \/ SseMemory \/ SseImmediate \/ SseToGeneral
    \/ Padding \/ Function \/ Body \/ Run

Spec == Init /\ [][Next]_vars

-----------------------------------------------------------------------------
(* Properties.                                                             *)

IsPadding == asked # <<>> /\ asked[1].op = "padding"

\* A processor reads from the bytes of a macro the instruction that the macro's name and
\* operands stand for, no more and no less - but for the macros and operands that this
\* module lists, and for each of those it reads something else.
ReadsBack ==
    text # <<>> /\ machine = Off /\ ~IsPadding => (Disassemble(text, mode) = asked <=> ~misread)

Idle(ins) ==
    \/ ins.op = "nop"
    \/ /\ ins.size = Word
       /\ \/ ins.op = "mov" /\ ins.args[1] = ins.args[2]
          \/ ins.op = "lea" /\ ins.args[2] = Meaning(Membase(ins.args[1][2], 0))

\* x86_padding and x64_padding fill as many bytes as they are asked for, and the instructions
\* they fill them with change no register, not even its upper half, no flag and no memory.
PaddingIsIdle ==
    IsPadding =>
        /\ Len(text) = asked[1].size
        /\ \A i \in DOMAIN Disassemble(text, mode) : Idle(Disassemble(text, mode)[i])

\* A function that begins with x86_prolog and ends with x86_epilog of the same mask returns
\* to its caller, and with the registers and the stack as they were, whatever it did to the
\* registers of the mask.
FrameUndone ==
    machine # Off /\ machine.at \notin DOMAIN text
        => /\ machine.at = ReturnAddress
           /\ machine.body = 0
           /\ machine.reg = [ AtStart EXCEPT ![RSP] = Stack + Word ]
==============================================================================
