---------------------------------- MODULE X64 ----------------------------------
(***************************************************************************)
(* The macros of x64-codegen.h and x86-codegen.h that codegen_sse.h and    *)
(* codegen.c write machine code with.  A macro is the sequence of bytes it *)
(* stores; one that needs to know where it stores them is given the        *)
(* position.  The branches for Native Client are not built.                *)
(***************************************************************************)
EXTENDS Integers, Sequences

RAX == 0
RCX == 1
RDX == 2
RBX == 3
RSP == 4
RBP == 5
RSI == 6
RDI == 7
R8 == 8
R9 == 9
R10 == 10
R11 == 11
R12 == 12
R13 == 13
R14 == 14
R15 == 15
RIP == 16

\* X86_ALU_Opcode and X86_Shift_Opcode.
ADD == 0
SUB == 5
XOR == 6
CMP == 7
SHL == 4
SHR == 5

-----------------------------------------------------------------------------
(* x86-codegen.h: the building blocks.                                     *)

imm_emit8(imm) == << imm % \h100 >>

imm_emit32(imm) ==
    << imm % \h100, (imm \div \h100) % \h100, (imm \div \h10000) % \h100,
       (imm \div \h1000000) % \h100 >>

\* A byte holds no more than 127 with its sign.
is_imm8_unsigned(imm) == imm \in -128..255
is_imm8(imm) == imm \in -128..127

address_byte(m, o, r) == << (m % 4) * 64 + (o % 8) * 8 + (r % 8) >>

reg_emit(r, regno) == address_byte(3, r, regno)

\* The base register ESP takes a second byte, and EBP a displacement.
x86_membase_emit(r, basereg, disp) ==
    LET sib == IF basereg = RSP THEN address_byte(0, RSP, RSP) ELSE <<>>
    IN IF disp = 0 /\ basereg # RBP THEN address_byte(0, r, basereg) \o sib
       ELSE IF is_imm8(disp) THEN address_byte(1, r, basereg) \o sib \o imm_emit8(disp)
       ELSE address_byte(2, r, basereg) \o sib \o imm_emit32(disp)

x86_memindex_emit(r, basereg, disp, indexreg, shift) ==
    LET sib == address_byte(shift, indexreg, basereg)
    IN IF disp = 0 /\ basereg # RBP THEN address_byte(0, r, 4) \o sib
       ELSE IF is_imm8(disp) THEN address_byte(1, r, 4) \o sib \o imm_emit8(disp)
       ELSE address_byte(2, r, 4) \o sib \o imm_emit32(disp)

-----------------------------------------------------------------------------
(* x64-codegen.h: registers of four bits, whose high bits go to a REX byte. *)

emit_rex(width, reg_modrm, reg_index, reg_rm_base_opcode) ==
    LET bits == (IF width > 4 THEN 8 ELSE 0) + (IF reg_modrm > 7 THEN 4 ELSE 0)
                + (IF reg_index > 7 THEN 2 ELSE 0)
                + (IF reg_rm_base_opcode > 7 THEN 1 ELSE 0)
    IN IF bits # 0 \/ width = 1 THEN << \h40 + bits >> ELSE <<>>

membase_emit(reg, basereg, disp) ==
    IF basereg = RIP THEN address_byte(0, reg, 5) \o imm_emit32(disp)
    ELSE x86_membase_emit(reg, basereg % 8, disp)

memindex_emit(reg, basereg, disp, indexreg, shift) ==
    x86_memindex_emit(reg, basereg % 8, disp, indexreg % 8, shift)

x64_alu_reg_imm_size(opc, reg, imm, size) ==
    IF is_imm8(imm)
    THEN emit_rex(size, 0, 0, reg) \o << \h83 >> \o reg_emit(opc, reg) \o imm_emit8(imm)
    ELSE IF reg = RAX
    THEN emit_rex(size, 0, 0, 0) \o << opc * 8 + 5 >> \o imm_emit32(imm)
    ELSE emit_rex(size, 0, 0, reg) \o << \h81 >> \o reg_emit(opc, reg) \o imm_emit32(imm)

x64_alu_reg_reg_size(opc, dreg, reg, size) ==
    emit_rex(size, dreg, 0, reg) \o << opc * 8 + 3 >> \o reg_emit(dreg, reg)

\* Eight bytes; the other sizes are not used by the generator.
x64_mov_membase_reg(basereg, disp, reg) ==
    emit_rex(8, reg, 0, basereg) \o << \h89 >> \o x86_membase_emit(reg, basereg % 8, disp)
x64_mov_reg_reg(dreg, reg) == emit_rex(8, dreg, 0, reg) \o << \h8B >> \o reg_emit(dreg, reg)
x64_mov_reg_membase(reg, basereg, disp) ==
    emit_rex(8, reg, 0, basereg) \o << \h8B >> \o membase_emit(reg, basereg, disp)

\* The index is not given to the REX byte: this is good for RAX to RDI only.
x64_movsxd_reg_memindex(reg, basereg, disp, indexreg, shift) ==
    emit_rex(8, reg, 0, basereg) \o << \h63 >>
    \o memindex_emit(reg, basereg, disp, indexreg, shift)

x64_lea_memindex(reg, basereg, disp, indexreg, shift) ==
    emit_rex(8, reg, indexreg, basereg) \o << \h8D >>
    \o x86_memindex_emit(reg % 8, basereg % 8, disp, indexreg % 8, shift)

x64_push_reg(reg) == emit_rex(0, 0, 0, reg) \o << \h50 + (reg % 8) >>
x64_pop_reg(reg) == emit_rex(0, 0, 0, reg) \o << \h58 + (reg % 8) >>
x64_ret == << \hC3 >>

\* These are of x86-codegen.h, and write 32 bits of a register.
x86_mov_reg_imm(reg, imm) == << \hB8 + reg >> \o imm_emit32(imm)
x86_clear_reg(reg) == << XOR * 8 + 3 >> \o reg_emit(reg, reg)
x86_shift_reg_imm(opc, reg, imm) ==
    IF imm = 1 THEN << \hD1 >> \o reg_emit(opc, reg)
    ELSE << \hC1 >> \o reg_emit(opc, reg) \o imm_emit8(imm)

\* x86_branch and x86_call_code: displacements are counted from the next instruction.
branch_NE(at, target) ==
    LET offset == target - at - 2
    IN IF is_imm8(offset) THEN << \h75 >> \o imm_emit8(offset)
       ELSE << \h0F, \h85 >> \o imm_emit32(offset - 4)
x64_call_code(at, target) == << \hE8 >> \o imm_emit32(target - at - 5)

-----------------------------------------------------------------------------
(* SSE instructions with an opcode of two bytes.                           *)

emit_sse_reg_reg_op2_size(dreg, reg, op2, size) ==
    emit_rex(size, dreg, 0, reg) \o << \h0F, op2 >> \o reg_emit(dreg, reg)
emit_sse_reg_reg_op2_imm(dreg, reg, op2, imm) ==
    emit_sse_reg_reg_op2_size(dreg, reg, op2, 0) \o imm_emit8(imm)
emit_sse_membase_reg_op2_size(basereg, disp, reg, op2, size) ==
    emit_rex(size, reg, 0, basereg) \o << \h0F, op2 >> \o membase_emit(reg, basereg, disp)
emit_sse_memindex_reg_op2(basereg, disp, indexreg, shift, reg, op2) ==
    emit_rex(0, reg, indexreg, basereg) \o << \h0F, op2 >>
    \o memindex_emit(reg, basereg, disp, indexreg, shift)
emit_sse_reg_membase_op2_size(dreg, basereg, disp, op2, size) ==
    emit_rex(size, dreg, 0, IF basereg = RIP THEN 0 ELSE basereg) \o << \h0F, op2 >>
    \o membase_emit(dreg, basereg, disp)
emit_sse_reg_memindex_op2(dreg, basereg, disp, indexreg, shift, op2) ==
    emit_rex(0, dreg, indexreg, IF basereg = RIP THEN 0 ELSE basereg) \o << \h0F, op2 >>
    \o memindex_emit(dreg, basereg, disp, indexreg, shift)
==============================================================================
