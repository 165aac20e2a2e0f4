------------------------------- MODULE X64Macros -------------------------------
(***************************************************************************)
(* The instruction macros of x64-codegen.h.  Most of them put a REX byte   *)
(* in front of what a macro of x86-codegen.h emits for the low three bits  *)
(* of every register; some, written out in full, know the instruction      *)
(* pointer as a base.  The macros that do not compile are left out:        *)
(* x64_shift_mem, x64_shift_mem_imm and x64_shift_membase_imm name a       *)
(* register that they are not given, and x64_enter a size.                 *)
(***************************************************************************)
EXTENDS X86Macros

\* The operand that a macro of x86-codegen.h is given.
Low(o) ==
    CASE o[1] \in {"reg", "regp"} -> << o[1], o[2] % 8 >>
      [] o[1] = "mem" -> o
      [] o[1] = "membase" -> Membase(o[2] % 8, o[3])
      [] o[1] = "memindex" -> Memindex(o[2] % 8, o[3], o[4] % 8, o[5])

\* x64_membase_emit: the instruction pointer takes the place of an absolute address.
LowOrRip(o) == IF o[1] = "membase" /\ o[2] = RIP THEN Mem(o[3]) ELSE Low(o)

BaseOf(o) == IF o[1] = "mem" THEN 0 ELSE o[2]
IndexOf(o) == IF o[1] = "memindex" THEN o[4] ELSE 0

\* The REX byte for a register field and an operand.
rex(size, reg, o) == emit_rex(size, reg, IndexOf(o), BaseOf(o))

\* Macros with a register and an absolute address give the register to the operand.
rex_mem(size, reg, o) == IF o[1] = "mem" THEN emit_rex(size, 0, 0, reg) ELSE rex(size, reg, o)

\* And some give two registers in the order in which they are named, while
\* x86-codegen.h has the second in the register field.
rex_named(size, reg, o) ==
    IF o[1] = "reg" THEN emit_rex(size, o[2], 0, reg) ELSE rex_mem(size, reg, o)

\* Eight bytes are four to x86-codegen.h.
Four(size) == IF size = 8 THEN 4 ELSE size

-----------------------------------------------------------------------------

x64_bare(name, size) ==
    (IF name \in {"breakpoint", "nop", "ret", "leave", "cld"} THEN <<>> ELSE emit_rex(size, 0, 0, 0))
    \o Bare[name]

x64_cmpxchg(o, reg, size) == rex_named(size, reg, o) \o x86_cmpxchg(Low(o), reg)
x64_xchg(o, reg, size) == rex_named(size, reg, o) \o x86_xchg(Low(o), reg, Four(size))
x64_xadd(o, reg, size) == rex_named(size, reg, o) \o x86_xadd(Low(o), reg, size)

\* The opcodes of x86_inc_reg and x86_dec_reg are the REX bytes.
x64_inc(o, size) == rex(size, 0, o) \o << \hFF >> \o operand_emit(0, Low(o))
x64_dec(o, size) == rex(size, 0, o) \o << \hFF >> \o operand_emit(1, Low(o))
x64_not(o, size) == rex(size, 0, o) \o x86_not(Low(o))
x64_neg(o, size) == rex(size, 0, o) \o x86_neg(Low(o))

x64_alu_imm(opc, o, imm, size) ==
    IF o[1] = "reg" THEN x64_alu_reg_imm_size(opc, o[2], imm, size)
    ELSE rex(size, 0, o) \o x86_alu_imm(opc, Low(o), imm)
x64_alu_reg8_reg8(opc, dreg, reg, is_dreg_h, is_reg_h, size) ==
    emit_rex(size, dreg, 0, reg)
    \o x86_alu_reg8_reg8(opc, dreg % 8, reg % 8, is_dreg_h, is_reg_h)
\* The register is given to the REX byte as one of the two operands only.
x64_clear_reg(reg, size) == rex(size, 0, Reg(reg)) \o x86_clear_reg(reg % 8)
x64_alu_membase8_imm(opc, o, imm, size) == rex(size, 0, o) \o x86_alu_membase8_imm(opc, Low(o), imm)
x64_alu_to(opc, o, reg, size) == rex_mem(size, reg, o) \o x86_alu_to(opc, Low(o), reg)
x64_alu_from(opc, reg, o, size) == rex_mem(size, reg, o) \o x86_alu_from(opc, reg, LowOrRip(o))

x64_test_imm(o, imm, size) == rex(size, 0, o) \o x86_test_imm(Low(o), imm)
x64_test(o, reg, size) == rex_named(size, reg, o) \o x86_test(Low(o), reg)
x64_shift_imm(opc, o, imm, size) == rex(size, 0, o) \o x86_shift_imm(opc, Low(o), imm)
x64_shift(opc, o, size) == rex(size, 0, o) \o x86_shift(opc, Low(o))
x64_shrd_reg(dreg, reg, size) == rex_named(size, reg, Reg(dreg)) \o x86_shrd_reg(dreg, reg)
x64_shrd_reg_imm(dreg, reg, shamt, size) ==
    rex_named(size, reg, Reg(dreg)) \o x86_shrd_reg_imm(dreg, reg, shamt)
x64_shld_reg(dreg, reg, size) == rex_named(size, reg, Reg(dreg)) \o x86_shld_reg(dreg, reg)
x64_shld_reg_imm(dreg, reg, shamt, size) ==
    rex_named(size, reg, Reg(dreg)) \o x86_shld_reg_imm(dreg, reg, shamt)
x64_mul(o, is_signed, size) == rex(size, 0, o) \o x86_mul(Low(o), is_signed)
x64_imul(reg, o, size) == rex_mem(size, reg, o) \o x86_imul(reg, Low(o))
x64_imul_imm(reg, o, imm, size) == rex_mem(size, reg, o) \o x86_imul_imm(reg, Low(o), imm)
x64_div(o, is_signed, size) == rex(size, 0, o) \o x86_div(Low(o), is_signed)

-----------------------------------------------------------------------------
(* Moves.  Those written out have the operand prefix in front of REX.      *)

\* x64_mov_regp_reg, x64_mov_membase_reg, x64_mov_mem_reg.
x64_mov_to(o, reg, size) ==
    OperandPrefix(size) \o rex(size, reg, o) \o << \h88 + Wide(size) >>
    \o (IF o[1] = "mem" THEN no_base_emit(reg, o[2], RSP, 0) ELSE operand_emit(reg, Low(o)))

\* x64_mov_reg_reg, x64_mov_reg_mem, x64_mov_reg_membase.
x64_mov_from(reg, o, size) ==
    OperandPrefix(size) \o rex(size, reg, o) \o << \h8A + Wide(size) >>
    \o (IF o[1] = "mem" THEN no_base_emit(reg, o[2], RSP, 0) ELSE operand_emit(reg, LowOrRip(o)))

\* x64_mov_reg_reg_size, x64_mov_reg_memindex_size; x64_mov_mem_reg_size, x64_mov_memindex_reg_size.
x64_mov_from_size(reg, o, size) == rex(size, reg, o) \o x86_mov_from(reg, Low(o), Four(size))
x64_mov_to_size(o, reg, size) == rex_mem(size, reg, o) \o x86_mov_to(Low(o), reg, Four(size))

x64_movzx_reg_membase(reg, o, size) ==
    rex(size, reg, o)
    \o (CASE size = 1 -> << \h0F, \hB6 >> [] size = 2 -> << \h0F, \hB7 >> [] OTHER -> << \h8B >>)
    \o operand_emit(reg, Low(o))

\* The index is not given to the REX byte.
x64_movsxd(reg, o) ==
    emit_rex(8, reg, 0, BaseOf(o)) \o << \h63 >> \o operand_emit(reg, Low(o))

\* The immediates here have their upper half made of copies of the sign.
imm_emit64(imm) == imm_emit32(imm) \o imm_emit32(IF imm < 0 THEN -1 ELSE 0)
x64_mov_reg_imm_size(reg, imm, size) ==
    emit_rex(size, 0, 0, reg) \o << \hB8 + (reg % 8) >>
    \o (IF size = 8 THEN imm_emit64(imm) ELSE imm_emit32(imm))

\* Every immediate that is its own low half with its sign is written with four bytes.
x64_mov_reg_imm(reg, imm) == x64_mov_reg_imm_size(reg, imm, 4)
x64_mov_imm(o, imm, size) ==
    CASE o[1] = "membase" ->
           OperandPrefix(size) \o rex(IF size = 1 THEN 0 ELSE size, 0, o) \o << \hC6 + Wide(size) >>
           \o operand_emit(0, Low(o)) \o imm_emit(imm, size)
      [] OTHER -> rex(size, 0, o) \o x86_mov_imm(Low(o), imm, Four(size))

x64_lea(reg, o) == rex_mem(8, reg, o) \o x86_lea(reg, LowOrRip(o))
x64_widen(dreg, o, is_signed, is_half, size) ==
    rex(size, dreg, o) \o x86_widen(dreg, Low(o), is_signed, is_half)

-----------------------------------------------------------------------------
(* The floating point unit: the size goes to a REX byte for some.          *)

x64_fp_memory(name, o, size) ==
    rex(IF o[1] = "membase" /\ name \in {"fnstcw", "fld80"} THEN size ELSE 0, 0, o)
    \o x86_fp_memory(name, IF name \in {"flds", "fldl"} THEN LowOrRip(o) ELSE Low(o))
x64_fp_op_memory(opc, o, is_double) == rex(0, 0, o) \o x86_fp_op_memory(opc, Low(o), is_double)
x64_fp_int_op_membase(opc, o, is_int) == rex(0, 0, o) \o x86_fp_int_op_membase(opc, Low(o), is_int)
x64_fstsw(size) == emit_rex(size, 0, 0, 0) \o x86_fstsw

-----------------------------------------------------------------------------
(* The stack, jumps and calls.                                             *)

\* x64_push_reg and x64_push_membase give no size.
x64_push(o, size) ==
    rex(IF o[1] \in {"reg", "membase"} THEN 0 ELSE size, 0, o) \o x86_push(Low(o))
x64_pop(o, size) == rex(IF o[1] = "reg" THEN 0 ELSE size, 0, o) \o x86_pop(Low(o))
x64_loop(name, imm, size) == emit_rex(size, 0, 0, 0) \o x86_loop(name, imm)
x64_jump(o, size) ==
    rex(IF o[1] = "mem" THEN size ELSE 0, 0, o) \o x86_jump(LowOrRip(o))
x64_jump8(imm, size) == emit_rex(size, 0, 0, 0) \o x86_jump8(imm)
x64_jump32(imm, size) == emit_rex(size, 0, 0, 0) \o x86_jump32(imm)

\* A target that 32 bits reach.
x64_jump_code(at, target) == x86_jump_code(at, target)
x64_branch(at, cond, target, is_signed, size) ==
    LET prefix == emit_rex(size, 0, 0, 0)
    IN prefix \o x86_branch(at + Len(prefix), cond, target, is_signed)
x64_branch_disp(cond, disp, is_signed, size) ==
    emit_rex(size, 0, 0, 0) \o x86_branch_disp(cond, disp, is_signed)
x64_set(cond, o, is_signed) ==
    rex(IF o[1] = "reg" THEN 1 ELSE 0, 0, o) \o x86_set(cond, Low(o), is_signed)
x64_call(o, size) == rex(IF o[1] = "mem" THEN size ELSE 0, 0, o) \o x86_call(LowOrRip(o))
x64_ret_imm(imm, size) == emit_rex(size, 0, 0, 0) \o x86_ret_imm(imm)

\* With a base register, the register that is moved to is not given to the REX byte.
x64_cmov(cond, is_signed, reg, o, size) ==
    (IF o[1] = "membase" THEN rex(size, 0, o) ELSE rex_mem(size, reg, o))
    \o x86_cmov(cond, is_signed, reg, Low(o))

x64_padding(size) ==
    CASE size = 1 -> << \h90 >>
      [] size = 2 -> << \h66, \h90 >>
      [] size = 3 -> << \h66, \h66, \h90 >>
      [] OTHER -> emit_rex(8, 0, 0, 0) \o x86_padding(size - 1)
x64_prolog(frame_size, mask, size) == emit_rex(size, 0, 0, 0) \o x86_prolog(frame_size, mask)
x64_epilog(mask, size) == emit_rex(size, 0, 0, 0) \o x86_epilog(mask)

-----------------------------------------------------------------------------
(* SSE: an instruction is a mandatory prefix, 0 for none, and an opcode in *)
(* the map of two bytes, or in the map of three that 0F 38 begins.         *)

emit_prefix(prefix) == IF prefix = 0 THEN <<>> ELSE << prefix >>

\* A base that is the instruction pointer is given to the REX byte as 0 by the loads only.
sse_load(code, reg, o, size) ==
    emit_prefix(code[1])
    \o (IF o[1] = "membase" /\ o[2] = RIP THEN emit_rex(size, reg, 0, 0) ELSE rex(size, reg, o))
    \o << \h0F >> \o Tail(code) \o operand_emit(reg, LowOrRip(o))
sse_store(code, o, reg, size) ==
    emit_prefix(code[1]) \o rex(size, reg, o) \o << \h0F >> \o Tail(code)
    \o operand_emit(reg, LowOrRip(o))
sse_reg_reg(code, dreg, reg, size) == sse_load(code, dreg, Reg(reg), size)
sse_reg_reg_imm(code, dreg, reg, imm) == sse_reg_reg(code, dreg, reg, 0) \o imm_emit8(imm)

\* x64_movsd_reg_regp to x64_movss_membase_reg do not know the instruction pointer.
x64_movs(code, reg, o) ==
    << code[1] >> \o rex(0, reg, o) \o << \h0F, code[2] >> \o operand_emit(reg, Low(o))

With(prefix, ops) == [n \in DOMAIN ops |-> << prefix, ops[n] >>]
With38(ops) == [n \in DOMAIN ops |-> << \h66, \h38, ops[n] >>]

SseScalar ==
    With(\h66, [ xorpd |-> \h57, comisd |-> \h2F, ucomisd |-> \h2E ])
    @@ With(\hF2, [ movsd |-> \h10, cvtsd2ss |-> \h5A, addsd |-> \h58, subsd |-> \h5C,
                    mulsd |-> \h59, divsd |-> \h5E, sqrtsd |-> \h51 ])
    @@ With(\hF3, [ cvtss2sd |-> \h5A ])
SsePs ==
    With(0, [ addps |-> \h58, divps |-> \h5E, mulps |-> \h59, subps |-> \h5C, maxps |-> \h5F,
              minps |-> \h5D, andps |-> \h54, andnps |-> \h55, orps |-> \h56, xorps |-> \h57,
              sqrtps |-> \h51, rsqrtps |-> \h52, rcpps |-> \h53 ])
    @@ With(\hF2, [ addsubps |-> \hD0, haddps |-> \h7C, hsubps |-> \h7D ])
    @@ With(\hF3, [ movshdup |-> \h16, movsldup |-> \h12 ])
SsePd ==
    With(\h66, [ addpd |-> \h58, divpd |-> \h5E, mulpd |-> \h59, subpd |-> \h5C, maxpd |-> \h5F,
                 minpd |-> \h5D, andpd |-> \h54, andnpd |-> \h55, orpd |-> \h56, sqrtpd |-> \h51,
                 rsqrtpd |-> \h52, rcppd |-> \h53, addsubpd |-> \hD0, haddpd |-> \h7C,
                 hsubpd |-> \h7D ])
    @@ With(\hF2, [ movddup |-> \h12 ])
SseInteger ==
    With(\h66, [ pand |-> \hDB, por |-> \hEB, pxor |-> \hEF, paddb |-> \hFC, paddw |-> \hFD,
                 paddd |-> \hFE, paddq |-> \hD4, psubb |-> \hF8, psubw |-> \hF9, psubd |-> \hFA,
                 psubq |-> \hFB, pmaxub |-> \hDE, pmaxsw |-> \hEE, pavgb |-> \hE0, pavgw |-> \hE3,
                 pminub |-> \hDA, pminsw |-> \hEA, pcmpeqb |-> \h74, pcmpeqw |-> \h75,
                 pcmpeqd |-> \h76, pcmpgtb |-> \h64, pcmpgtw |-> \h65, pcmpgtd |-> \h66,
                 psadbw |-> \hF6, punpcklbw |-> \h60, punpcklwd |-> \h61, punpckldq |-> \h62,
                 punpcklqdq |-> \h6C, unpcklpd |-> \h14, punpckhbw |-> \h68, punpckhwd |-> \h69,
                 punpckhdq |-> \h6A, punpckhqdq |-> \h6D, unpckhpd |-> \h15, packsswb |-> \h63,
                 packssdw |-> \h6B, packuswb |-> \h67, paddusb |-> \hDC, psubusb |-> \hD8,
                 paddusw |-> \hDD, psubusw |-> \hD8, paddsb |-> \hEC, psubsb |-> \hE8,
                 paddsw |-> \hED, psubsw |-> \hE9, pmullw |-> \hD5, pmuludq |-> \hF4,
                 pmulhuw |-> \hE4, pmulhw |-> \hE5 ])
    @@ With(0, [ unpcklps |-> \h14, unpckhps |-> \h15 ])
    @@ With38([ pmaxuw |-> \h3E, pmaxud |-> \h3F, pmaxsb |-> \h3C, pmaxsd |-> \h3D,
                pminuw |-> \h3A, pminud |-> \h3B, pminsb |-> \h38, pminsd |-> \h39,
                pcmpeqq |-> \h29, pcmpgtq |-> \h37, packusdw |-> \h2B, pmulld |-> \h40 ])
SseShift ==
    With(\h66, [ psrlw |-> \hD1, psraw |-> \hE1, psllw |-> \hF1, psrld |-> \hD2, psrad |-> \hE2,
                 pslld |-> \hF2, psrlq |-> \hD3, psraq |-> \hE3, psllq |-> \hF3 ])
SseConvert ==
    With(\hF3, [ cvtdq2pd |-> \hE6, cvttps2dq |-> \h5B ])
    @@ With(0, [ cvtdq2ps |-> \h5B, cvtps2pd |-> \h5A ])
    @@ With(\hF2, [ cvtpd2dq |-> \hE6 ])
    @@ With(\h66, [ cvtpd2ps |-> \h5A, cvtps2dq |-> \h5B, cvttpd2dq |-> \hE6 ])
SseMoves ==
    With(0, [ movhlps |-> \h12, movlhps |-> \h16, movaps |-> \h28 ]) @@ With(\h66, [ movdqa |-> \h6F ])

SseRegReg == SseScalar @@ SsePs @@ SsePd @@ SseInteger @@ SseShift @@ SseConvert @@ SseMoves

SseLoads ==
    With(\h66, [ xorpd |-> \h57, andpd |-> \h54, comisd |-> \h2F, movdqa |-> \h6F, movd |-> \h6E ])
    @@ With(\hF2, [ movsd |-> \h10 ]) @@ With(\hF3, [ movss |-> \h10 ])
    @@ With(0, [ movups |-> \h10, movaps |-> \h28 ])
SseStores ==
    With(\hF2, [ movsd |-> \h11 ]) @@ With(\hF3, [ movss |-> \h11 ]) @@ With(\h66, [ movdqa |-> \h7F ])
    @@ With(0, [ movups |-> \h11, movaps |-> \h29, movntps |-> \h2B ])

\* Instructions with an immediate, and the shifts of x64_sse_psrlw_reg_imm and its like,
\* which the register field tells apart.
SseImm ==
    With(\h66, [ pinsrw |-> \hC4, pextrw |-> \hC5, pshufd |-> \h70, shufpd |-> \hC6, cmppd |-> \hC2 ])
    @@ With(\hF3, [ pshufhw |-> \h70 ]) @@ With(\hF2, [ pshuflw |-> \h70 ])
    @@ With(0, [ shufps |-> \hC6, cmpps |-> \hC2 ])
SseShiftImm ==
    [ psrlw |-> <<SSE_SHR, \h71>>, psraw |-> <<SSE_SAR, \h71>>, psllw |-> <<SSE_SHL, \h71>>,
      psrld |-> <<SSE_SHR, \h72>>, psrad |-> <<SSE_SAR, \h72>>, pslld |-> <<SSE_SHL, \h72>>,
      psrlq |-> <<SSE_SHR, \h73>>, psraq |-> <<SSE_SAR, \h73>>, psllq |-> <<SSE_SHL, \h73>> ]
x64_sse_shift_reg_imm(name, reg, imm) ==
    sse_reg_reg_imm(<< \h66, SseShiftImm[name][2] >>, SseShiftImm[name][1], reg, imm)

\* Moves between the general and the vector registers; the first operand is the register field.
SseGeneral ==
    With(\hF2, [ cvtsd2si |-> \h2D, cvttsd2si |-> \h2C, cvtsi2sd |-> \h2A ])
    @@ With(\hF3, [ cvtsi2ss |-> \h2A ])
    @@ With(\h66, [ movd_to_xmm |-> \h6E, movd_from_xmm |-> \h7E, pmovmskb |-> \hD7 ])
==============================================================================
