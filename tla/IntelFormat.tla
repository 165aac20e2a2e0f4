------------------------------ MODULE IntelFormat ------------------------------
(***************************************************************************)
(* The instruction format of the x86 processors, read the way the          *)
(* processor reads it: prefixes, the opcode in one of three maps, the      *)
(* operand bytes, the immediate.  It covers the instructions that the      *)
(* instruction macros have names for, in 32-bit and in 64-bit mode.        *)
(*                                                                         *)
(* An instruction is a record: op, its name; size, the bytes of its        *)
(* operands where it comes in several sizes and 0 elsewhere; args, its     *)
(* operands; next, the position behind it.  Operands are <<"reg", n>>,     *)
(* <<"high", n>> (AH to BH), <<"xmm", n>>, <<"st", n>>, <<"imm", value>>,  *)
(* <<"uimm", value>> (to be taken without its sign), <<"cc", condition>>,  *)
(* <<"to", position>> and <<"at", base, index, scale, displacement>>,      *)
(* where None is no base or no index.                                      *)
(***************************************************************************)
EXTENDS Integers, Sequences, FiniteSetsExt

None == -1
InstructionPointer == 16
Undefined == "undefined"

-----------------------------------------------------------------------------
(* Names, in the order of the opcodes or of the field that selects them.   *)

AluNames == << "add", "or", "adc", "sbb", "and", "sub", "xor", "cmp" >>
ShiftNames == << "rol", "ror", "rcl", "rcr", "shl", "shr", Undefined, "sar" >>
Conditions == << "o", "no", "b", "ae", "e", "ne", "be", "a", "s", "ns", "p", "np", "l", "ge", "le", "g" >>
UnaryNames == << "test", Undefined, "not", "neg", "mul", "imul", "div", "idiv" >>
Group5 == << "inc", "dec", "call", Undefined, "jmp", Undefined, "push", Undefined >>

FpMemoryNames ==
    << << "fadds", "fmuls", "fcoms", "fcomps", "fsubs", "fsubrs", "fdivs", "fdivrs" >>,
       << "flds", Undefined, "fsts", "fstps", "fldenv", "fldcw", "fnstenv", "fnstcw" >>,
       << "fiaddl", "fimull", "ficoml", "ficompl", "fisubl", "fisubrl", "fidivl", "fidivrl" >>,
       << "fildl", "fisttpl", "fistl", "fistpl", Undefined, "fld80", Undefined, "fstp80" >>,
       << "faddl", "fmull", "fcoml", "fcompl", "fsubl", "fsubrl", "fdivl", "fdivrl" >>,
       << "fldl", "fisttpll", "fstl", "fstpl", "frstor", Undefined, "fnsave", "fnstsw" >>,
       << "fiadds", "fimuls", "ficoms", "ficomps", "fisubs", "fisubrs", "fidivs", "fidivrs" >>,
       << "filds", "fisttps", "fists", "fistps", "fbld", "fildll", "fbstp", "fistpll" >> >>
FpRegisterNames ==
    << << "fadd", "fmul", "fcom", "fcomp", "fsub", "fsubr", "fdiv", "fdivr" >>,
       << "fld", "fxch", Undefined, Undefined, Undefined, Undefined, Undefined, Undefined >>,
       << "fcmovb", "fcmove", "fcmovbe", "fcmovu", Undefined, Undefined, Undefined, Undefined >>,
       << "fcmovnb", "fcmovne", "fcmovnbe", "fcmovnu", Undefined, "fucomi", "fcomi", Undefined >>,
       << "fadd_to", "fmul_to", "fcom_to", "fcomp_to", "fsubr_to", "fsub_to", "fdivr_to", "fdiv_to" >>,
       << "ffree", Undefined, "fst", "fstp", "fucom", "fucomp", Undefined, Undefined >>,
       << "faddp", "fmulp", "fcomp5", Undefined, "fsubrp", "fsubp", "fdivrp", "fdivp" >>,
       << Undefined, Undefined, Undefined, Undefined, Undefined, "fucomip", "fcomip", Undefined >> >>
\* D9 E0 to D9 FF.
FpFunctionNames ==
    << "fchs", "fabs", Undefined, Undefined, "ftst", "fxam", Undefined, Undefined,
       "fld1", "fldl2t", "fldl2e", "fldpi", "fldlg2", "fldln2", "fldz", Undefined,
       "f2xm1", "fyl2x", "fptan", "fpatan", "fxtract", "fprem1", "fdecstp", "fincstp",
       "fprem", "fyl2xp1", "fsqrt", "fsincos", "frndint", "fscale", "fsin", "fcos" >>

\* SSE: the arithmetic of 0F 51 to 0F 5F and the instructions of the integers.
SseArithmetic ==
    << "sqrt", "rsqrt", "rcp", "and", "andn", "or", "xor", "add", "mul", Undefined, Undefined,
       "sub", "min", "div", "max" >>
SseSuffix(prefix) == CASE prefix = \h66 -> "pd" [] prefix = \hF2 -> "sd" [] prefix = \hF3 -> "ss" [] OTHER -> "ps"
SseIntegers60 ==
    << "punpcklbw", "punpcklwd", "punpckldq", "packsswb", "pcmpgtb", "pcmpgtw", "pcmpgtd", "packuswb",
       "punpckhbw", "punpckhwd", "punpckhdq", "packssdw", "punpcklqdq", "punpckhqdq" >>
SseIntegersD0 ==
    << "addsubpd", "psrlw", "psrld", "psrlq", "paddq", "pmullw", "movq", "pmovmskb",
       "psubusb", "psubusw", "pminub", "pand", "paddusb", "paddusw", "pmaxub", "pandn",
       "pavgb", "psraw", "psrad", "pavgw", "pmulhuw", "pmulhw", "cvttpd2dq", "movntdq",
       "psubsb", "psubsw", "pminsw", "por", "paddsb", "paddsw", "pmaxsw", "pxor",
       Undefined, "psllw", "pslld", "psllq", "pmuludq", "pmaddwd", "psadbw", "maskmovdqu",
       "psubb", "psubw", "psubd", "psubq", "paddb", "paddw", "paddd", Undefined >>
Sse38Names ==
    << "pmuldq", "pcmpeqq", "movntdqa", "packusdw", Undefined, Undefined, Undefined, Undefined,
       "pmovzxbw", "pmovzxbd", "pmovzxbq", "pmovzxwd", "pmovzxwq", "pmovzxdq", Undefined, "pcmpgtq",
       "pminsb", "pminsd", "pminuw", "pminud", "pmaxsb", "pmaxsd", "pmaxuw", "pmaxud", "pmulld" >>

-----------------------------------------------------------------------------
(* The opcode maps.  A row is the name; the width of the operands: "b",    *)
(* one byte, "v", the size of the operation, "s", that of the stack, "d",  *)
(* four bytes or eight, "n", none that matters; and the operands: E or W,  *)
(* the general or vector operand of the operand byte, and G or V its       *)
(* register field; Z, the register of the opcode; A, the accumulator; I    *)
(* and J, immediates and displacements; each with a b where it has one     *)
(* byte.                                                                   *)

Row(name, width, args) == [ name |-> name, width |-> width, args |-> args ]
NoRow == Row(Undefined, "n", <<>>)

\* What the byte behind the opcode selects is given by field and mod.
FpRow(esc, field, mod, low) ==
    LET special == esc * 1000 + field * 8 + low
    IN IF mod # 3 THEN Row(FpMemoryNames[esc + 1][field + 1], "n", <<"E">>)
       ELSE CASE esc = 1 /\ field >= 4 -> Row(FpFunctionNames[(field - 4) * 8 + low + 1], "n", <<"none">>)
              [] special = 6025 -> Row("fcompp", "n", <<"none">>)
              [] special = 2041 -> Row("fucompp", "n", <<"none">>)
              [] special = 7032 -> Row("fnstsw", "n", <<"none">>)
              [] OTHER -> Row(FpRegisterNames[esc + 1][field + 1], "n", <<"ST">>)

OneByte(op, mode, field, mod, low) ==
    CASE op < \h40 /\ op % 8 < 6 ->
           LET forms == << <<"Eb", "Gb">>, <<"E", "G">>, <<"Gb", "Eb">>, <<"G", "E">>,
                           <<"Ab", "Ib">>, <<"A", "Iz">> >>
           IN Row(AluNames[(op \div 8) + 1], IF op % 2 = 0 THEN "b" ELSE "v", forms[(op % 8) + 1])
      [] op \in \h40..\h4F /\ mode = 32 -> Row(IF op < \h48 THEN "inc" ELSE "dec", "v", <<"Z">>)
      [] op \in \h50..\h57 -> Row("push", "s", <<"Z">>)
      [] op \in \h58..\h5F -> Row("pop", "s", <<"Z">>)
      [] op = \h60 /\ mode = 32 -> Row("pushad", "n", <<>>)
      [] op = \h61 /\ mode = 32 -> Row("popad", "n", <<>>)
      [] op = \h63 /\ mode = 64 -> Row("movsxd", "v", <<"G", "E">>)
      [] op = \h68 -> Row("push", "s", <<"Iz">>)
      [] op = \h69 -> Row("imul", "v", <<"G", "E", "Iz">>)
      [] op = \h6A -> Row("push", "s", <<"Ib">>)
      [] op = \h6B -> Row("imul", "v", <<"G", "E", "Ib">>)
      [] op \in \h70..\h7F -> Row("j", "n", <<"cc", "Jb">>)
      [] op = \h80 -> Row(AluNames[field + 1], "b", <<"Eb", "Ib">>)
      [] op = \h81 -> Row(AluNames[field + 1], "v", <<"E", "Iz">>)
      [] op = \h83 -> Row(AluNames[field + 1], "v", <<"E", "Ib">>)
      [] op = \h84 -> Row("test", "b", <<"Eb", "Gb">>)
      [] op = \h85 -> Row("test", "v", <<"E", "G">>)
      [] op = \h86 -> Row("xchg", "b", <<"Eb", "Gb">>)
      [] op = \h87 -> Row("xchg", "v", <<"E", "G">>)
      [] op = \h88 -> Row("mov", "b", <<"Eb", "Gb">>)
      [] op = \h89 -> Row("mov", "v", <<"E", "G">>)
      [] op = \h8A -> Row("mov", "b", <<"Gb", "Eb">>)
      [] op = \h8B -> Row("mov", "v", <<"G", "E">>)
      [] op = \h8D /\ mod # 3 -> Row("lea", "v", <<"G", "E">>)
      [] op = \h8F /\ field = 0 -> Row("pop", "s", <<"E">>)
      [] op = \h90 -> Row("nop", "n", <<>>)
      [] op = \h99 -> Row("cdq", "v", <<>>)
      [] op = \h9B -> Row("wait", "n", <<>>)
      [] op = \h9C -> Row("pushf", "s", <<>>)
      [] op = \h9D -> Row("popf", "s", <<>>)
      [] op = \h9E -> Row("sahf", "n", <<>>)
      [] op = \hA4 -> Row("movs", "b", <<>>)
      [] op = \hA5 -> Row("movs", "v", <<>>)
      [] op = \hA9 -> Row("test", "v", <<"A", "Iz">>)
      [] op = \hAA -> Row("stos", "b", <<>>)
      [] op = \hAB -> Row("stos", "v", <<>>)
      [] op \in \hB8..\hBF -> Row("mov_imm", "n", <<"Z", "Iv">>)
      [] op \in {\hC1, \hD1, \hD3} ->
           Row(ShiftNames[field + 1], "v",
               << "E", CASE op = \hC1 -> "Ib" [] op = \hD1 -> "one" [] OTHER -> "count" >>)
      [] op = \hC2 -> Row("ret", "n", <<"Iw">>)
      [] op = \hC3 -> Row("ret", "n", <<>>)
      [] op = \hC6 /\ field = 0 -> Row("mov", "b", <<"Eb", "Ib">>)
      [] op = \hC7 /\ field = 0 -> Row("mov", "v", <<"E", "Iz">>)
      [] op = \hC8 -> Row("enter", "n", <<"Iw", "level">>)
      [] op = \hC9 -> Row("leave", "n", <<>>)
      [] op = \hCC -> Row("int3", "n", <<>>)
      [] op \in \hD8..\hDF -> FpRow(op - \hD8, field, mod, low)
      [] op = \hE0 -> Row("loopne", "n", <<"Jb">>)
      [] op = \hE1 -> Row("loope", "n", <<"Jb">>)
      [] op = \hE2 -> Row("loop", "n", <<"Jb">>)
      [] op = \hE8 -> Row("call", "n", <<"Jz">>)
      [] op = \hE9 -> Row("jmp", "n", <<"Jz">>)
      [] op = \hEB -> Row("jmp", "n", <<"Jb">>)
      [] op = \hF6 -> Row(UnaryNames[field + 1], "b", IF field = 0 THEN <<"Eb", "Ib">> ELSE <<"Eb">>)
      [] op = \hF7 -> Row(UnaryNames[field + 1], "v", IF field = 0 THEN <<"E", "Iz">> ELSE <<"E">>)
      [] op = \hFC -> Row("cld", "n", <<>>)
      [] op = \hFF ->
           Row(Group5[field + 1], CASE field \in {0, 1} -> "v" [] field = 6 -> "s" [] OTHER -> "n", <<"E">>)
      [] OTHER -> NoRow

SseMoveRow(op, prefix, mod) ==
    LET form == IF op = \h11 THEN <<"W", "V">> ELSE <<"V", "W">>
    IN CASE op \in {\h10, \h11} ->
              Row(CASE prefix = 0 -> "movups" [] prefix = \h66 -> "movupd"
                    [] prefix = \hF2 -> "movsd" [] OTHER -> "movss", "n", form)
         [] op = \h12 -> Row(CASE prefix = 0 -> IF mod = 3 THEN "movhlps" ELSE "movlps"
                               [] prefix = \h66 -> "movlpd" [] prefix = \hF2 -> "movddup"
                               [] OTHER -> "movsldup", "n", form)
         [] op = \h16 -> Row(CASE prefix = 0 -> IF mod = 3 THEN "movlhps" ELSE "movhps"
                               [] prefix = \h66 -> "movhpd" [] prefix = \hF3 -> "movshdup"
                               [] OTHER -> Undefined, "n", form)

\* Names that the mandatory prefix selects: of none, 66, F2 and F3.
Select(prefix, names) ==
    names[CASE prefix = 0 -> 1 [] prefix = \h66 -> 2 [] prefix = \hF2 -> 3 [] OTHER -> 4]

TwoBytes(op, prefix, field, mod) ==
    CASE op \in {\h10, \h11, \h12, \h16} -> SseMoveRow(op, prefix, mod)
      [] op \in {\h14, \h15} ->
           Row(Select(prefix, IF op = \h14 THEN <<"unpcklps", "unpcklpd", Undefined, Undefined>>
                              ELSE <<"unpckhps", "unpckhpd", Undefined, Undefined>>), "n", <<"V", "W">>)
      [] op = \h18 -> Row("prefetch", "n", <<"field", "E">>)
      [] op = \h28 -> Row(Select(prefix, <<"movaps", "movapd", Undefined, Undefined>>), "n", <<"V", "W">>)
      [] op = \h29 -> Row(Select(prefix, <<"movaps", "movapd", Undefined, Undefined>>), "n", <<"W", "V">>)
      [] op = \h2A -> Row(Select(prefix, <<Undefined, Undefined, "cvtsi2sd", "cvtsi2ss">>), "v", <<"V", "E">>)
      [] op = \h2B -> Row(Select(prefix, <<"movntps", "movntpd", Undefined, Undefined>>), "n", <<"W", "V">>)
      [] op = \h2C -> Row(Select(prefix, <<Undefined, Undefined, "cvttsd2si", "cvttss2si">>), "v", <<"G", "W">>)
      [] op = \h2D -> Row(Select(prefix, <<Undefined, Undefined, "cvtsd2si", "cvtss2si">>), "v", <<"G", "W">>)
      [] op = \h2E -> Row(Select(prefix, <<"ucomiss", "ucomisd", Undefined, Undefined>>), "n", <<"V", "W">>)
      [] op = \h2F -> Row(Select(prefix, <<"comiss", "comisd", Undefined, Undefined>>), "n", <<"V", "W">>)
      [] op = \h31 -> Row("rdtsc", "n", <<>>)
      [] op \in \h40..\h4F -> Row("cmov", "v", <<"cc", "G", "E">>)
      [] op \in \h51..\h5F \ {\h5A, \h5B} ->
           LET name == SseArithmetic[op - \h50]
               exists == CASE op \in {\h52, \h53} -> prefix \in {0, \hF3}
                           [] op \in \h54..\h57 -> prefix \in {0, \h66}
                           [] OTHER -> TRUE
           IN Row(IF exists THEN name \o SseSuffix(prefix) ELSE Undefined, "n", <<"V", "W">>)
      [] op = \h5A -> Row(Select(prefix, <<"cvtps2pd", "cvtpd2ps", "cvtsd2ss", "cvtss2sd">>), "n", <<"V", "W">>)
      [] op = \h5B -> Row(Select(prefix, <<"cvtdq2ps", "cvtps2dq", Undefined, "cvttps2dq">>), "n", <<"V", "W">>)
      [] op \in \h60..\h6D /\ prefix = \h66 -> Row(SseIntegers60[op - \h5F], "n", <<"V", "W">>)
      [] op = \h6E /\ prefix = \h66 -> Row("movd", "d", <<"V", "E">>)
      [] op = \h7E /\ prefix = \h66 -> Row("movd", "d", <<"E", "V">>)
      [] op = \h6F -> Row(Select(prefix, <<Undefined, "movdqa", Undefined, "movdqu">>), "n", <<"V", "W">>)
      [] op = \h7F -> Row(Select(prefix, <<Undefined, "movdqa", Undefined, "movdqu">>), "n", <<"W", "V">>)
      [] op = \h70 -> Row(Select(prefix, <<Undefined, "pshufd", "pshuflw", "pshufhw">>), "n", <<"V", "W", "Ib">>)
      [] op \in \h71..\h73 /\ prefix = \h66 ->
           LET width == << "w", "d", "q" >>[op - \h70]
           IN Row(CASE field = 2 -> "psrl" \o width [] field = 6 -> "psll" \o width
                    [] field = 4 /\ op # \h73 -> "psra" \o width [] OTHER -> Undefined, "n", <<"W", "Ib">>)
      [] op \in \h74..\h76 /\ prefix = \h66 ->
           Row(<<"pcmpeqb", "pcmpeqw", "pcmpeqd">>[op - \h73], "n", <<"V", "W">>)
      [] op = \h7C -> Row(Select(prefix, <<Undefined, "haddpd", "haddps", Undefined>>), "n", <<"V", "W">>)
      [] op = \h7D -> Row(Select(prefix, <<Undefined, "hsubpd", "hsubps", Undefined>>), "n", <<"V", "W">>)
      [] op \in \h80..\h8F -> Row("j", "n", <<"cc", "Jz">>)
      [] op \in \h90..\h9F -> Row("set", "b", <<"cc", "Eb">>)
      [] op = \hA4 -> Row("shld", "v", <<"E", "G", "Ib">>)
      [] op = \hA5 -> Row("shld", "v", <<"E", "G", "count">>)
      [] op = \hAC -> Row("shrd", "v", <<"E", "G", "Ib">>)
      [] op = \hAD -> Row("shrd", "v", <<"E", "G", "count">>)
      [] op = \hAF -> Row("imul", "v", <<"G", "E">>)
      [] op = \hB1 -> Row("cmpxchg", "v", <<"E", "G">>)
      [] op = \hB6 -> Row("movzxb", "v", <<"G", "Eb">>)
      [] op = \hB7 -> Row("movzxw", "v", <<"G", "E">>)
      [] op = \hBE -> Row("movsxb", "v", <<"G", "Eb">>)
      [] op = \hBF -> Row("movsxw", "v", <<"G", "E">>)
      [] op = \hC0 -> Row("xadd", "b", <<"Eb", "Gb">>)
      [] op = \hC1 -> Row("xadd", "v", <<"E", "G">>)
      [] op = \hC2 -> Row("cmp" \o SseSuffix(prefix), "n", <<"V", "W", "Ib">>)
      [] op = \hC4 /\ prefix = \h66 -> Row("pinsrw", "n", <<"V", "E", "Ib">>)
      [] op = \hC5 /\ prefix = \h66 -> Row("pextrw", "n", <<"G", "W", "Ib">>)
      [] op = \hC6 -> Row(Select(prefix, <<"shufps", "shufpd", Undefined, Undefined>>), "n", <<"V", "W", "Ib">>)
      [] op = \hD0 -> Row(Select(prefix, <<Undefined, "addsubpd", "addsubps", Undefined>>), "n", <<"V", "W">>)
      [] op = \hD7 /\ prefix = \h66 -> Row("pmovmskb", "n", <<"G", "W">>)
      [] op = \hE6 -> Row(Select(prefix, <<Undefined, "cvttpd2dq", "cvtpd2dq", "cvtdq2pd">>), "n", <<"V", "W">>)
      [] op \in \hD1..\hFF /\ prefix = \h66 -> Row(SseIntegersD0[op - \hCF], "n", <<"V", "W">>)
      [] OTHER -> NoRow

ThreeBytes(op, prefix) ==
    IF op \in \h28..\h40 /\ prefix = \h66 THEN Row(Sse38Names[op - \h27], "n", <<"V", "W">>) ELSE NoRow

-----------------------------------------------------------------------------
(* Reading.                                                                *)

ByteAt(text, i) == IF i \in DOMAIN text THEN text[i] ELSE 0
SignedByte(b) == IF b > 127 THEN b - 256 ELSE b
SignedLong(text, i) ==
    ByteAt(text, i) + \h100 * ByteAt(text, i + 1) + \h10000 * ByteAt(text, i + 2)
        + \h1000000 * SignedByte(ByteAt(text, i + 3))

BitOf(n, k) == (n \div 2^k) % 2

IsRex(b, mode) == mode = 64 /\ b \in \h40..\h4F
IsPrefixByte(b, mode) == b \in {\h66, \hF0, \hF2, \hF3} \/ IsRex(b, mode)

\* The bytes of immediates and displacements.
BytesOf(arg, size) ==
    CASE arg \in {"Ib", "Jb", "level"} -> 1
      [] arg = "Iw" -> 2
      [] arg = "Iz" -> IF size = 2 THEN 2 ELSE 4
      [] arg = "Iv" -> IF size = 8 THEN 8 ELSE 4
      [] arg = "Jz" -> 4
      [] OTHER -> 0

HasOperandByte(args) ==
    \E i \in DOMAIN args : args[i] \in {"E", "Eb", "G", "Gb", "V", "W", "ST", "field", "none"}

\* Memory: what the operand byte, at position m, says of an address.
AddressAt(text, m, rexX, rexB, mode) ==
    LET mod == ByteAt(text, m) \div 64
        rm == ByteAt(text, m) % 8
        hasSib == rm = 4
        sib == ByteAt(text, m + 1)
        d == IF hasSib THEN m + 2 ELSE m + 1
        low == IF hasSib THEN (sib % 8) ELSE rm
        noBase == mod = 0 /\ low = 5
        dispBytes == CASE mod = 1 -> 1 [] mod = 2 \/ noBase -> 4 [] OTHER -> 0
        index == ((sib \div 8) % 8) + 8 * rexX
        indexed == hasSib /\ index # 4
    IN [ at |-> << "at",
                   IF ~noBase THEN low + 8 * rexB
                   ELSE IF mode = 64 /\ ~hasSib THEN InstructionPointer ELSE None,
                   IF indexed THEN index ELSE None,
                   IF indexed THEN 2^(sib \div 64) ELSE 1,
                   CASE dispBytes = 1 -> SignedByte(ByteAt(text, d))
                     [] dispBytes = 4 -> SignedLong(text, d)
                     [] OTHER -> 0 >>,
         next |-> d + dispBytes ]

\* Prefixes, the opcode at position o, and the byte behind it.
Header(text, i, o, mode) ==
    LET prefixes == {ByteAt(text, j) : j \in i..(o - 1)}
    IN [ rex |-> IF o > i /\ IsRex(ByteAt(text, o - 1), mode) THEN ByteAt(text, o - 1) % 16 ELSE 0,
         hasRex |-> o > i /\ IsRex(ByteAt(text, o - 1), mode),
         mandatory |-> IF \hF2 \in prefixes THEN \hF2 ELSE IF \hF3 \in prefixes THEN \hF3
                       ELSE IF \h66 \in prefixes THEN \h66 ELSE 0,
         word |-> \h66 \in prefixes,
         at |-> o,
         map |-> IF ByteAt(text, o) # \h0F THEN 1 ELSE IF ByteAt(text, o + 1) # \h38 THEN 2 ELSE 3 ]

\* The opcode of a header and the operand byte, taken apart.
Opened(text, h) ==
    LET m == h.at + h.map
    IN [ op |-> ByteAt(text, m - 1), m |-> m,
         mod |-> ByteAt(text, m) \div 64, field |-> (ByteAt(text, m) \div 8) % 8, low |-> ByteAt(text, m) % 8,
         operation |-> IF BitOf(h.rex, 3) = 1 THEN 8 ELSE IF h.word THEN 2 ELSE 4 ]

RowOf(h, b, mode) ==
    CASE h.map = 1 -> OneByte(b.op, mode, b.field, b.mod, b.low)
      [] h.map = 2 -> TwoBytes(b.op, h.mandatory, b.field, b.mod)
      [] OTHER -> ThreeBytes(b.op, h.mandatory)

ByteRegisterOf(r, hasRex) == IF r \in 4..7 /\ ~hasRex THEN <<"high", r - 4>> ELSE <<"reg", r>>

\* The operand of kind a.  Its immediate is at position p, and the next instruction at end.
Operand(text, mode, h, b, memory, a, p, end) ==
    LET reg == b.field + 8 * BitOf(h.rex, 2)
        rm == b.low + 8 * BitOf(h.rex, 0)
    IN CASE a \in {"E", "Eb", "W"} /\ b.mod # 3 -> memory
         [] a = "E" -> <<"reg", rm>>
         [] a = "Eb" -> ByteRegisterOf(rm, h.hasRex)
         [] a = "W" -> <<"xmm", rm>>
         [] a = "G" -> <<"reg", reg>>
         [] a = "Gb" -> ByteRegisterOf(reg, h.hasRex)
         [] a = "V" -> <<"xmm", reg>>
         [] a = "Z" -> <<"reg", (b.op % 8) + 8 * BitOf(h.rex, 0)>>
         [] a \in {"A", "Ab"} -> <<"reg", 0>>
         [] a = "ST" -> <<"st", b.low>>
         [] a = "field" -> <<"imm", b.field>>
         [] a = "cc" -> <<"cc", Conditions[(b.op % 16) + 1]>>
         [] a = "one" -> <<"imm", 1>>
         [] a = "count" -> <<"reg", 1>>
         [] a \in {"Ib", "level"} -> <<"imm", SignedByte(ByteAt(text, p))>>
         [] a = "Iw" \/ (a = "Iz" /\ b.operation = 2) ->
              <<"imm", ByteAt(text, p) + \h100 * SignedByte(ByteAt(text, p + 1))>>
         [] a = "Iv" /\ mode = 64 /\ b.operation # 8 /\ SignedLong(text, p) < 0 ->
              <<"uimm", SignedLong(text, p)>>
         [] a \in {"Iz", "Iv"} -> <<"imm", SignedLong(text, p)>>
         [] a = "Jb" -> <<"to", end - 1 + SignedByte(ByteAt(text, p))>>
         [] a = "Jz" -> <<"to", end - 1 + SignedLong(text, p)>>

\* The parts of an instruction whose immediates begin at position p.
Parts(text, mode, h, b, row, memory, p) ==
    LET before(k) == MapThenSumSet(LAMBDA j : BytesOf(row.args[j], b.operation), 1..(k - 1))
        args == SelectSeq(row.args, LAMBDA a : a # "none")
    IN [ op |-> row.name,
         size |-> CASE row.width = "v" -> b.operation [] row.width = "s" -> mode \div 8
                    [] row.width = "d" -> IF b.operation = 8 THEN 8 ELSE 4
                    [] row.width = "b" -> 1 [] OTHER -> 0,
         args |-> [k \in DOMAIN args |->
                     Operand(text, mode, h, b, memory, args[k], p + before(k), p + before(Len(row.args) + 1))],
         next |-> p + before(Len(row.args) + 1) ]

Completed(text, mode, h, b, row) ==
    LET memory == AddressAt(text, b.m, BitOf(h.rex, 1), BitOf(h.rex, 0), mode)
    IN Parts(text, mode, h, b, row, memory.at,
             IF ~HasOperandByte(row.args) THEN b.m ELSE IF b.mod = 3 THEN b.m + 1 ELSE memory.next)
WithRow(text, mode, h, b) == Completed(text, mode, h, b, RowOf(h, b, mode))
WithHeader(text, mode, h) == WithRow(text, mode, h, Opened(text, h))

\* The instruction at position i of a text.
Instruction(text, i, mode) ==
    LET opcode == CHOOSE k \in i..(i + 4) :
                      /\ ~IsPrefixByte(ByteAt(text, k), mode)
                      /\ \A j \in i..(k - 1) : IsPrefixByte(ByteAt(text, j), mode)
    IN WithHeader(text, mode, Header(text, i, opcode, mode))

\* The instructions of a whole text, one behind the other, without their positions.
\* One that the text does not have all bytes of is undefined.
Cut == [ op |-> Undefined, size |-> 0, args |-> <<>> ]
Read(ins) == [ op |-> ins.op, size |-> ins.size, args |-> ins.args ]
Disassemble(text, mode) ==
    LET from[i \in 1..(Len(text) + 2)] ==
            CASE i = Len(text) + 1 -> <<>>
              [] i = Len(text) + 2 -> << Cut >>
              [] OTHER -> LET ins == Instruction(text, i, mode)
                          IN << Read(ins) >> \o from[Min({ins.next, Len(text) + 2})]
    IN from[1]
==============================================================================
