------------------------------- MODULE X86Macros -------------------------------
(***************************************************************************)
(* The instruction macros of x86-codegen.h.  The macros for one            *)
(* instruction differ in their operand, and their names end in the kinds   *)
(* of their operands: here one operator stands for them and is given the   *)
(* operand.  The branches for Native Client are not built.                 *)
(***************************************************************************)
EXTENDS X64, SequencesExt

\* Operands, by the part of a macro's name that stands for them.
Reg(n) == <<"reg", n>>
Regp(n) == <<"regp", n>>
Mem(address) == <<"mem", address>>
Membase(base, disp) == <<"membase", base, disp>>
Memindex(base, disp, index, shift) == <<"memindex", base, disp, index, shift>>

NOBASEREG == -1

imm_emit16(imm) == << imm % \h100, (imm \div \h100) % \h100 >>

\* An immediate of as many bytes as an operation of this size takes.
imm_emit(imm, size) ==
    CASE size = 1 -> imm_emit8(imm) [] size = 2 -> imm_emit16(imm) [] OTHER -> imm_emit32(imm)

regp_emit(r, regno) == address_byte(0, r, regno)
mem_emit(r, disp) == address_byte(0, r, 5) \o imm_emit32(disp)
no_base_emit(r, disp, indexreg, shift) ==
    address_byte(0, r, 4) \o address_byte(shift, indexreg, 5) \o imm_emit32(disp)

\* A bit of four makes AH, CH, DH and BH of the registers 0 to 3.
reg8_emit(r, regno, is_rh, is_rnoh) ==
    address_byte(3, IF is_rh THEN (r % 4) + 4 ELSE r, IF is_rnoh THEN (regno % 4) + 4 ELSE regno)

\* The register field r and the operand o.
operand_emit(r, o) ==
    CASE o[1] = "reg" -> reg_emit(r, o[2])
      [] o[1] = "regp" -> regp_emit(r, o[2])
      [] o[1] = "mem" -> mem_emit(r, o[2])
      [] o[1] = "membase" -> x86_membase_emit(r, o[2], o[3])
      [] o[1] = "memindex" /\ o[2] = NOBASEREG -> no_base_emit(r, o[3], o[4], o[5])
      [] o[1] = "memindex" -> x86_memindex_emit(r, o[2], o[3], o[4], o[5])

-----------------------------------------------------------------------------
(* Macros without operands.                                                *)

Bare ==
    [ breakpoint |-> <<\hCC>>, cld |-> <<\hFC>>, stosb |-> <<\hAA>>, stosl |-> <<\hAB>>,
      movsb |-> <<\hA4>>, movsl |-> <<\hA5>>, rdtsc |-> <<\h0F, \h31>>, nop |-> <<\h90>>,
      cdq |-> <<\h99>>, wait |-> <<\h9B>>, pushad |-> <<\h60>>, pushfd |-> <<\h9C>>,
      popad |-> <<\h61>>, popfd |-> <<\h9D>>, ret |-> <<\hC3>>, leave |-> <<\hC9>>,
      sahf |-> <<\h9E>> ]

-----------------------------------------------------------------------------
(* Exchanges.                                                              *)

Wide(size) == IF size = 1 THEN 0 ELSE 1

x86_cmpxchg(o, reg) == << \h0F, \hB1 >> \o operand_emit(reg, o)
x86_xchg(o, reg, size) == << \h86 + Wide(size) >> \o operand_emit(reg, o)
x86_xadd(o, reg, size) == << \h0F, \hC0 + Wide(size) >> \o operand_emit(reg, o)

-----------------------------------------------------------------------------
(* Arithmetic.                                                             *)

x86_inc(o) == IF o[1] = "reg" THEN << \h40 + o[2] >> ELSE << \hFF >> \o operand_emit(0, o)
x86_dec(o) == IF o[1] = "reg" THEN << \h48 + o[2] >> ELSE << \hFF >> \o operand_emit(1, o)
x86_not(o) == << \hF7 >> \o operand_emit(2, o)
x86_neg(o) == << \hF7 >> \o operand_emit(3, o)

x86_alu_imm(opc, o, imm) ==
    IF o = Reg(RAX) THEN << opc * 8 + 5 >> \o imm_emit32(imm)
    ELSE IF is_imm8(imm) THEN << \h83 >> \o operand_emit(opc, o) \o imm_emit8(imm)
    ELSE << \h81 >> \o operand_emit(opc, o) \o imm_emit32(imm)
x86_alu_membase8_imm(opc, o, imm) == << \h80 >> \o operand_emit(opc, o) \o imm_emit8(imm)
x86_alu_to(opc, o, reg) == << opc * 8 + 1 >> \o operand_emit(reg, o)
x86_alu_from(opc, reg, o) == << opc * 8 + 3 >> \o operand_emit(reg, o)
x86_alu_reg8_reg8(opc, dreg, reg, is_dreg_h, is_reg_h) ==
    << opc * 8 + 2 >> \o reg8_emit(dreg, reg, is_dreg_h, is_reg_h)

x86_test_imm(o, imm) ==
    (IF o = Reg(RAX) THEN << \hA9 >> ELSE << \hF7 >> \o operand_emit(0, o)) \o imm_emit32(imm)
x86_test_mem_imm8(mem, imm) == << \hF6 >> \o mem_emit(0, mem) \o imm_emit8(imm)
x86_test(o, reg) == << \h85 >> \o operand_emit(reg, o)

x86_shift_imm(opc, o, imm) ==
    IF imm = 1 THEN << \hD1 >> \o operand_emit(opc, o)
    ELSE << \hC1 >> \o operand_emit(opc, o) \o imm_emit8(imm)
x86_shift(opc, o) == << \hD3 >> \o operand_emit(opc, o)
x86_shrd_reg(dreg, reg) == << \h0F, \hAD >> \o reg_emit(reg, dreg)
x86_shrd_reg_imm(dreg, reg, shamt) == << \h0F, \hAC >> \o reg_emit(reg, dreg) \o imm_emit8(shamt)
x86_shld_reg(dreg, reg) == << \h0F, \hA5 >> \o reg_emit(reg, dreg)
x86_shld_reg_imm(dreg, reg, shamt) == << \h0F, \hA4 >> \o reg_emit(reg, dreg) \o imm_emit8(shamt)

x86_mul(o, is_signed) == << \hF7 >> \o operand_emit(IF is_signed THEN 5 ELSE 4, o)
x86_imul(reg, o) == << \h0F, \hAF >> \o operand_emit(reg, o)
x86_imul_imm(reg, o, imm) ==
    IF is_imm8(imm) THEN << \h6B >> \o operand_emit(reg, o) \o imm_emit8(imm)
    ELSE << \h69 >> \o operand_emit(reg, o) \o imm_emit32(imm)
x86_div(o, is_signed) == << \hF7 >> \o operand_emit(IF is_signed THEN 7 ELSE 6, o)

-----------------------------------------------------------------------------
(* Moves.                                                                  *)

OperandPrefix(size) == IF size = 2 THEN << \h66 >> ELSE <<>>

x86_mov_to(o, reg, size) ==
    OperandPrefix(size) \o << \h88 + Wide(size) >> \o operand_emit(reg, o)
x86_mov_from(reg, o, size) ==
    OperandPrefix(size) \o << \h8A + Wide(size) >> \o operand_emit(reg, o)
x86_mov_imm(o, imm, size) ==
    OperandPrefix(size) \o << \hC6 + Wide(size) >> \o operand_emit(0, o) \o imm_emit(imm, size)
x86_lea(reg, o) == << \h8D >> \o operand_emit(reg, o)
x86_widen(dreg, o, is_signed, is_half) ==
    << \h0F, \hB6 + (IF is_signed THEN 8 ELSE 0) + (IF is_half THEN 1 ELSE 0) >>
    \o operand_emit(dreg, o)

-----------------------------------------------------------------------------
(* The floating point unit.                                                *)

x86_fp_op_memory(opc, o, is_double) ==
    << IF is_double THEN \hDC ELSE \hD8 >> \o operand_emit(opc, o)
x86_fp_op(opc, index) == << \hD8, \hC0 + opc * 8 + (index % 8) >>

\* The subtractions and the divisions change places.
x86_fp_op_reg(opc, index, pop_stack) ==
    LET map == <<0, 1, 2, 3, 5, 4, 7, 6, 8>>
    IN << IF pop_stack THEN \hDE ELSE \hDC, \hC0 + map[opc + 1] * 8 + (index % 8) >>
x86_fp_int_op_membase(opc, o, is_int) ==
    << IF is_int THEN \hDA ELSE \hDE >> \o operand_emit(opc, o)

FpBare ==
    [ fcompp |-> <<\hDE, \hD9>>, fucompp |-> <<\hDA, \hE9>>, fnstsw |-> <<\hDF, \hE0>>,
      fchs |-> <<\hD9, \hE0>>, frem |-> <<\hD9, \hF8>>, fldz |-> <<\hD9, \hEE>>,
      fld1 |-> <<\hD9, \hE8>>, fldpi |-> <<\hD9, \hEB>> ]
FpFunctions ==
    [ fsin |-> <<\hD9, \hFE>>, fcos |-> <<\hD9, \hFF>>, fabs |-> <<\hD9, \hE1>>,
      ftst |-> <<\hD9, \hE4>>, fxam |-> <<\hD9, \hE5>>, fpatan |-> <<\hD9, \hF3>>,
      fprem |-> <<\hD9, \hF8>>, fprem1 |-> <<\hD9, \hF5>>, frndint |-> <<\hD9, \hFC>>,
      fsqrt |-> <<\hD9, \hFA>>, fptan |-> <<\hD9, \hF2>> ]
FpIndexed ==
    [ fstp |-> <<\hDD, \hD8>>, fxch |-> <<\hD9, \hC8>>, fcomi |-> <<\hDB, \hF0>>,
      fcomip |-> <<\hDF, \hF0>>, fucomi |-> <<\hDB, \hE8>>, fucomip |-> <<\hDF, \hE8>>,
      fld_reg |-> <<\hD9, \hC0>> ]
x86_fp_indexed(name, index) == << FpIndexed[name][1], FpIndexed[name][2] + index >>

\* Loads and stores, with the opcode and the register field of each.
FpControl == [ fnstcw |-> <<\hD9, 7>>, fldcw |-> <<\hD9, 5>> ]
FpLoads ==
    [ flds |-> <<\hD9, 0>>, fldl |-> <<\hDD, 0>>, fld80 |-> <<\hDB, 5>>,
      fildl |-> <<\hDB, 0>>, fildll |-> <<\hDF, 5>> ]
FpStores ==
    [ fsts |-> <<\hD9, 2>>, fstl |-> <<\hDD, 2>>, fstps |-> <<\hD9, 3>>, fstpl |-> <<\hDD, 3>>,
      fst80 |-> <<\hDB, 7>>, fist_popl |-> <<\hDB, 3>>, fist_popll |-> <<\hDF, 7>>,
      fistl |-> <<\hDB, 2>>, fists |-> <<\hDF, 2>> ]
FpMemory == FpControl @@ FpLoads @@ FpStores
x86_fp_memory(name, o) == << FpMemory[name][1] >> \o operand_emit(FpMemory[name][2], o)
x86_fstsw == << \h9B, \hDF, \hE0 >>

-----------------------------------------------------------------------------
(* The stack.                                                              *)

x86_push(o) ==
    IF o[1] = "reg" THEN << \h50 + o[2] >> ELSE << \hFF >> \o operand_emit(6, o)
x86_push_imm(imm) ==
    IF is_imm8(imm) THEN << \h6A >> \o imm_emit8(imm) ELSE << \h68 >> \o imm_emit32(imm)
x86_pop(o) ==
    IF o[1] = "reg" THEN << \h58 + o[2] >> ELSE << \h87 >> \o operand_emit(0, o)

-----------------------------------------------------------------------------
(* Jumps, calls and conditions.                                            *)

Loops == [ loop |-> \hE2, loope |-> \hE1, loopne |-> \hE0 ]
x86_loop(name, imm) == << Loops[name] >> \o imm_emit8(imm)

x86_jump32(imm) == << \hE9 >> \o imm_emit32(imm)
x86_jump8(imm) == << \hEB >> \o imm_emit8(imm)
x86_jump(o) == << \hFF >> \o operand_emit(4, o)
x86_jump_disp(disp) ==
    IF is_imm8(disp - 2) THEN x86_jump8(disp - 2) ELSE x86_jump32(disp - 5)
x86_jump_code(at, target) == x86_jump_disp(target - at)

\* X86_CC: the conditions in their order, and the opcode of the short branch of each.
EQ == 0
NE == 1
LT == 2
LE == 3
GT == 4
GE == 5
LZ == 6
GEZ == 7
PE == 8
PO == 9
OV == 10
NO == 11
cc_unsigned_map == << \h74, \h75, \h72, \h76, \h77, \h73, \h78, \h79, \h7A, \h7B, \h70, \h71 >>
cc_signed_map == << \h74, \h75, \h7C, \h7E, \h7F, \h7D, \h78, \h79, \h7A, \h7B, \h70, \h71 >>
cc_map(cond, is_signed) == IF is_signed THEN cc_signed_map[cond + 1] ELSE cc_unsigned_map[cond + 1]

x86_branch8(cond, imm, is_signed) == << cc_map(cond, is_signed) >> \o imm_emit8(imm)
x86_branch32(cond, imm, is_signed) == << \h0F, cc_map(cond, is_signed) + \h10 >> \o imm_emit32(imm)
x86_branch_disp_short(cond, disp, is_signed) ==
    IF is_imm8(disp - 2) THEN x86_branch8(cond, disp - 2, is_signed)
    ELSE x86_branch32(cond, disp - 5, is_signed)
x86_branch_disp(cond, disp, is_signed) ==
    IF is_imm8(disp - 2) THEN x86_branch8(cond, disp - 2, is_signed)
    ELSE x86_branch32(cond, disp - 6, is_signed)
x86_branch(at, cond, target, is_signed) == x86_branch_disp(cond, target - at, is_signed)

x86_set(cond, o, is_signed) == << \h0F, cc_map(cond, is_signed) + \h20 >> \o operand_emit(0, o)
x86_cmov(cond, is_signed, reg, o) ==
    << \h0F, cc_map(cond, is_signed) - \h30 >> \o operand_emit(reg, o)

x86_call_imm(disp) == << \hE8 >> \o imm_emit32(disp)
x86_call(o) == << \hFF >> \o operand_emit(2, o)
x86_call_code(at, target) == x86_call_imm(target - at - 5)
x86_ret_imm(imm) == IF imm = 0 THEN Bare.ret ELSE << \hC2 >> \o imm_emit16(imm)
x86_enter(framesize) == << \hC8 >> \o imm_emit16(framesize) \o << 0 >>

\* x86_patch: the instruction that begins the text gets the displacement that takes it
\* from position 0 to the target.  What an assertion refuses is <<>>.
x86_patch(text, target) ==
    LET op == text[1]
        long == op \in {\hE8, \hE9, \h0F}
        pos == IF op = \h0F THEN 2 ELSE 1
        disp == target - pos
    IN CASE op = \h0F /\ text[2] \notin \h70..\h8F -> <<>>
         [] long -> SubSeq(text, 1, pos) \o imm_emit32(disp - 4)
         [] op \in (\hE0..\hE2) \cup {\hEB} \cup (\h70..\h7F) ->
              IF is_imm8(disp - 1) THEN SubSeq(text, 1, pos) \o imm_emit8(disp - 1) ELSE <<>>
         [] OTHER -> <<>>

-----------------------------------------------------------------------------
(* Sequences of instructions.                                              *)

x86_padding_ecx(size) ==
    CASE size = 1 -> <<\h90>>
      [] size = 2 -> <<\h8B, \hC1>>
      [] OTHER -> <<\h8D, \h49, 0>> \o [i \in 1..(size - 3) |-> \h90]
x86_padding(size) ==
    CASE size = 1 -> <<\h90>>
      [] size = 2 -> <<\h8B, \hC0>>
      [] size = 3 -> <<\h8D, \h6D, 0>>
      [] size = 4 -> <<\h8D, \h64, \h24, 0>>
      [] size = 5 -> <<\h8D, \h64, \h24, 0, \h90>>
      [] size = 6 -> <<\h8D, \hAD, 0, 0, 0, 0>>
      [] size = 7 -> <<\h8D, \hA4, \h24, 0, 0, 0, 0>>

\* The registers of a mask are pushed in their order and popped in the other.
Ascending(mask) == SetToSortSeq(mask, <)
x86_prolog(frame_size, mask) ==
    x86_enter(frame_size) \o FlattenSeq([i \in DOMAIN Ascending(mask) |-> x86_push(Reg(Ascending(mask)[i]))])
x86_epilog_ascending(mask) ==
    FlattenSeq([i \in DOMAIN Ascending(mask) |-> x86_pop(Reg(Ascending(mask)[i]))])
    \o Bare.leave \o Bare.ret
x86_epilog(mask) ==
    FlattenSeq([i \in DOMAIN Ascending(mask) |-> x86_pop(Reg(Reverse(Ascending(mask))[i]))])
    \o Bare.leave \o Bare.ret

-----------------------------------------------------------------------------
(* SSE.                                                                    *)

X86_SSE_Float ==
    [ sqrt |-> \h51, add |-> \h58, div |-> \h5E, mul |-> \h59, sub |-> \h5C, min |-> \h5D,
      max |-> \h5F, rsqrt |-> \h52, rcp |-> \h53, and |-> \h54, andn |-> \h55, or |-> \h56,
      xor |-> \h57, unpckl |-> \h14, unpckh |-> \h15, addsub |-> \hD0, hadd |-> \h7C, hsub |-> \h7D ]
X86_SSE_Integer ==
    [ pand |-> \hDB, por |-> \hEB, pxor |-> \hEF, paddb |-> \hFC, paddw |-> \hFD, paddd |-> \hFE,
      paddq |-> \hD4, psubb |-> \hF8, psubw |-> \hF9, psubd |-> \hFA, psubq |-> \hFB,
      pmaxsw |-> \hEE, pmaxub |-> \hDE, pminsw |-> \hEA, pminub |-> \hDA, pavgb |-> \hE0,
      pavgw |-> \hE3, pcmpeqb |-> \h74, pcmpeqw |-> \h75, pcmpeqd |-> \h76, pcmpgtb |-> \h64,
      pcmpgtw |-> \h65, pcmpgtd |-> \h66, psadbw |-> \hF6, punpcklbw |-> \h60, punpcklwd |-> \h61,
      punpckldq |-> \h62, punpcklqdq |-> \h6C, punpckhbw |-> \h68, punpckhwd |-> \h69,
      punpckhdq |-> \h6A, punpckhqdq |-> \h6D, packsswb |-> \h63, packssdw |-> \h6B,
      packuswb |-> \h67, paddusb |-> \hDC, paddusw |-> \hDD, psubusb |-> \hD8, psubusw |-> \hD9,
      paddsb |-> \hEC, paddsw |-> \hED, psubsb |-> \hE8, psubsw |-> \hE9, pmullw |-> \hD5,
      pmulhuw |-> \hE4, pmulhw |-> \hE5, pmuludq |-> \hF4 ]
X86_SSE_41 ==
    [ pmaxsb |-> \h3C, pmaxsd |-> \h3D, pmaxuw |-> \h3E, pmaxud |-> \h3F, pminsb |-> \h38,
      pminsd |-> \h39, pminuw |-> \h3A, pminud |-> \h3B, pcmpeqq |-> \h29, pcmpgtq |-> \h37,
      packusdw |-> \h2B, pmulld |-> \h40 ]
X86_SSE_Shift ==
    [ psrlw |-> \hD1, psraw |-> \hE1, psllw |-> \hF1, psrld |-> \hD2, psrad |-> \hE2,
      pslld |-> \hF2, psrlq |-> \hD3, psllq |-> \hF3 ]
X86_SSE_Convert ==
    [ cvtdq2pd |-> <<"ss", \hE6>>, cvtdq2ps |-> <<"ps", \h5B>>, cvtpd2dq |-> <<"sd", \hE6>>,
      cvtpd2ps |-> <<"pd", \h5A>>, cvtps2dq |-> <<"pd", \h5B>>, cvtps2pd |-> <<"ps", \h5A>>,
      cvttpd2dq |-> <<"pd", \hE6>>, cvttps2dq |-> <<"ss", \h5B>>, movshdup |-> <<"ss", \h16>>,
      movsldup |-> <<"ss", \h12>>, movddup |-> <<"sd", \h12>> ]
SSE_SHR == 2
SSE_SAR == 4
SSE_SHL == 6
X86_SSE_ShiftImm ==
    [ psrlw |-> <<\h71, SSE_SHR>>, psraw |-> <<\h71, SSE_SAR>>, psllw |-> <<\h71, SSE_SHL>>,
      psrld |-> <<\h72, SSE_SHR>>, psrad |-> <<\h72, SSE_SAR>>, pslld |-> <<\h72, SSE_SHL>>,
      psrlq |-> <<\h73, SSE_SHR>>, psllq |-> <<\h73, SSE_SHL>> ]

\* The prefix is a byte that stands before the two bytes of the opcode, or nothing.
x86_sse_alu(prefix, opc, reg, o) == prefix \o << \h0F, opc >> \o operand_emit(reg, o)
SsePrefix == [ ps |-> <<>>, pd |-> <<\h66>>, sd |-> <<\hF2>>, ss |-> <<\hF3>> ]
x86_sse_alu_imm(prefix, opc, reg, o, imm) == x86_sse_alu(prefix, opc, reg, o) \o << imm >>
x86_sse_alu_sse41_reg_reg(opc, dreg, reg) == << \h66, \h0F, \h38, opc >> \o reg_emit(dreg, reg)
x86_sse_shift_reg_imm(opc, mode, dreg, imm) ==
    x86_sse_alu(SsePrefix.pd, opc, mode, Reg(dreg)) \o imm_emit8(imm)
x86_pshufw_reg_reg(dreg, sreg, mask, high_words) ==
    << IF high_words THEN \hF3 ELSE \hF2, \h0F, \h70 >> \o reg_emit(dreg, sreg) \o << mask >>

\* x86_movsd_reg_membase to x86_movd_xreg_membase: prefix, opcode.
X86_SSE_Loads ==
    [ movsd |-> <<"sd", \h10>>, movups |-> <<"ps", \h10>>, movaps |-> <<"ps", \h28>>, movd |-> <<"pd", \h6E>> ]
X86_SSE_Stores == [ movups |-> <<"ps", \h11>>, movaps |-> <<"ps", \h29>> ]
x86_sse_move(code, reg, o) == x86_sse_alu(SsePrefix[code[1]], code[2], reg, o)
x86_cvttsd2si(dreg, reg) == x86_sse_alu(SsePrefix.sd, \h2C, dreg, Reg(reg))
x86_movd_reg_xreg(dreg, sreg) == x86_sse_alu(SsePrefix.pd, \h7E, sreg, Reg(dreg))
==============================================================================
