-------------------------------- MODULE SseItems --------------------------------
(***************************************************************************)
(* The instructions that codegen_sse.h puts together, under short names,   *)
(* and what it pads them with.                                             *)
(***************************************************************************)
EXTENDS X64
SeqExt == INSTANCE SequencesExt

\* The bytes of a list of instructions.
Flat(instructions) == SeqExt!FlattenSeq(instructions)

\* movaps, addps, subps, mulps, xorps and movlhps between registers.
Mv(d, s) == emit_sse_reg_reg_op2_size(d, s, \h28, 0)
Ad(d, s) == emit_sse_reg_reg_op2_size(d, s, \h58, 0)
Su(d, s) == emit_sse_reg_reg_op2_size(d, s, \h5C, 0)
Mu(d, s) == emit_sse_reg_reg_op2_size(d, s, \h59, 0)
Xo(d, s) == emit_sse_reg_reg_op2_size(d, s, \h57, 0)
Lh(d, s) == emit_sse_reg_reg_op2_size(d, s, \h16, 0)

\* The same with a REX byte that is not needed, where the loop behind shall be aligned.
Size(wide) == IF wide THEN 8 ELSE 0
MvW(d, s, wide) == emit_sse_reg_reg_op2_size(d, s, \h28, Size(wide))
AdW(d, s, wide) == emit_sse_reg_reg_op2_size(d, s, \h58, Size(wide))
SuW(d, s, wide) == emit_sse_reg_reg_op2_size(d, s, \h5C, Size(wide))
LhW(d, s, wide) == emit_sse_reg_reg_op2_size(d, s, \h16, Size(wide))

\* shufps, and the order that exchanges real and imaginary parts.
Sh(d, s, imm) == emit_sse_reg_reg_op2_imm(d, s, \hC6, imm)
Sw(d) == Sh(d, d, \hB1)

\* movaps from memory and to memory; Ld1 has the REX byte that is not needed.
Ld(x, base, disp) == emit_sse_reg_membase_op2_size(x, base, disp, \h28, 0)
Ld1(x, base, disp) == emit_sse_reg_membase_op2_size(x, base, disp, \h28, 1)
St(base, disp, x) == emit_sse_membase_reg_op2_size(base, disp, x, \h29, 0)
LdX(x, base, disp, index, shift) ==
    emit_sse_reg_memindex_op2(x, base, disp, index, shift, \h28)
StX(base, disp, index, shift, x) ==
    emit_sse_memindex_reg_op2(base, disp, index, shift, x, \h29)

-----------------------------------------------------------------------------
Zeros(n) == [k \in 1..n |-> 0]

\* Instructions that do nothing and are count bytes long together.
nops[count \in 0..15] ==
    CASE count >= 9 -> << \h66, \h0F, \h1F, \h84 >> \o Zeros(5) \o nops[count - 9]
      [] count = 8 -> << \h0F, \h1F, \h84 >> \o Zeros(5)
      [] count = 7 -> << \h0F, \h1F, \h80 >> \o Zeros(4)
      [] count = 6 -> << \h66, \h0F, \h1F, \h44 >> \o Zeros(2)
      [] count = 5 -> << \h0F, \h1F, \h44 >> \o Zeros(2)
      [] count = 4 -> << \h0F, \h1F, \h40, 0 >>
      [] count = 3 -> << \h0F, \h1F, 0 >>
      [] count = 2 -> << \h66, \h90 >>
      [] count = 1 -> << \h90 >>
      [] count = 0 -> <<>>

\* The instructions in front of the loop are forgotten.
align_mem16_here(at, offset) == nops[(16 - (at % 16)) % 16]

\* What goes to position at to make the position offset bytes further on a multiple of 16.
align_mem16(at, offset) == nops[(32 - (offset % 16) - (at % 16)) % 16]

\* A loop that starts behind pre and is repeated until the comparison at its end is equal.
Loop(at, pre, body) ==
    pre \o body \o branch_NE(at + Len(pre) + Len(body), at + Len(pre))

\* offsetof(struct _ffts_plan_t, offsets) and (..., constants) on x86-64.
OffsetsField == 0
ConstantsField == 216
==============================================================================
