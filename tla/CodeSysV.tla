---------------------------------- MODULE CodeSysV ----------------------------------
(***************************************************************************)
(* What codegen_sse.h generates without _M_X64, for the calling convention *)
(* of System V.  The plan comes in RDI, the input in RSI, the output in    *)
(* RDX; RCX is the size of the loops and of the sub-transforms, RAX        *)
(* counts, R8 points to the offsets and later to the twiddle factors, R9   *)
(* to the constants.                                                       *)
(***************************************************************************)
EXTENDS SseItems

\* What the caller expects to find unchanged.
generate_prologue ==
    Flat(<<
        x64_push_reg(RBP), x64_push_reg(RBX), x64_push_reg(R10), x64_push_reg(R11),
        x64_push_reg(R12), x64_push_reg(R13), x64_push_reg(R14), x64_push_reg(R15) >>)

\* The registers come back in the order they were saved in.
generate_epilogue_inOrder ==
    Flat(<<
        x64_pop_reg(RBP), x64_pop_reg(RBX), x64_pop_reg(R10), x64_pop_reg(R11),
        x64_pop_reg(R12), x64_pop_reg(R13), x64_pop_reg(R14), x64_pop_reg(R15), x64_ret >>)

generate_epilogue ==
    Flat(<<
        x64_pop_reg(R15), x64_pop_reg(R14), x64_pop_reg(R13), x64_pop_reg(R12), x64_pop_reg(R11),
        x64_pop_reg(R10), x64_pop_reg(RBX), x64_pop_reg(RBP), x64_ret >>)

generate_transform_init ==
    Flat(<< Ld(3, R9, 0), x64_mov_reg_membase(R8, RDI, \h20) >>)

generate_leaf_init(at, loop_count) ==
    LET code == Flat(<<
            x86_mov_reg_imm(RCX, loop_count), x86_clear_reg(RAX),
            x64_mov_reg_membase(R8, RDI, OffsetsField),
            x64_mov_reg_membase(R9, RDI, ConstantsField) >>)
    IN code \o align_mem16(at + Len(code), 9)

-----------------------------------------------------------------------------
(* The leaves, which read two columns of the input and write two leaves of the output. *)

generate_leaf_ee(at, offsets, extend) ==
    LET In(x, k) == LdX(x, RSI, offsets[k + 1], RAX, 2)
        pre == Flat(<< Ld1(0, R9, 32), Ld(8, R9, 0) >>)
        body == Flat(<<
            In(7, 0), In(12, 2), MvW(6, 7, extend > 0), In(10, 3), Mv(11, 12), Su(12, 10),
            Ad(11, 10), Xo(12, 8), In(9, 1), In(10, 4), Ad(6, 9), Su(7, 9), In(13, 5), Mv(9, 10),
            In(3, 6), MvW(5, 6, extend > 1), In(14, 7), Mv(15, 3), Sw(12), MvW(4, 7, extend > 2),
            x64_movsxd_reg_memindex(R11, R8, 0, RAX, 2), Su(10, 13), Su(3, 14), Ad(5, 11),
            Su(6, 11), Su(4, 12), Ad(7, 12), Ad(9, 13), Ad(15, 14), Ld(12, R9, 16), Mv(1, 9),
            Mv(11, 12), MvW(2, 5, extend > 3), Mu(12, 10), Su(9, 15), Ad(1, 15), Mu(11, 3),
            AdW(2, 1, extend > 4), SuW(5, 1, extend > 5), Sw(10), Xo(9, 8), Sw(3),
            MvW(1, 6, extend > 6), Mu(10, 0), Mv(13, 4), Mu(3, 0), Su(12, 10), Ad(11, 3),
            Mv(3, 12), Mv(14, 7), Sw(9), Su(12, 11), Ad(3, 11), Su(1, 9), Ad(6, 9), Ad(4, 3),
            Su(13, 3), Xo(12, 8), Mv(3, 2), Sw(12), Mv(9, 6),
            x64_movsxd_reg_memindex(R12, R8, 8, RAX, 2), Lh(3, 4),
            x64_alu_reg_imm_size(ADD, RAX, 4, 8), Sh(2, 4, \hEE), MvW(4, 1, extend > 7),
            Su(7, 12), Ad(14, 12), Lh(4, 7), Sh(1, 7, \hEE), MvW(7, 5, extend > 8), Lh(7, 13),
            Lh(9, 14), Sh(5, 13, \hEE), Sh(6, 14, \hEE), StX(RDX, 0, R11, 2, 3),
            StX(RDX, 16, R11, 2, 4), StX(RDX, 32, R11, 2, 7), StX(RDX, 48, R11, 2, 9),
            StX(RDX, 0, R12, 2, 2), StX(RDX, 16, R12, 2, 1), StX(RDX, 32, R12, 2, 5),
            StX(RDX, 48, R12, 2, 6), x64_alu_reg_reg_size(CMP, RCX, RAX, 8) >>)
    IN Loop(at, pre, body)

generate_leaf_eo(offsets) ==
    LET In(x, k) == LdX(x, RSI, offsets[k + 1], RAX, 2)
    IN Flat(<<
        In(9, 0), In(7, 2), Mv(11, 9), In(5, 3), Mv(6, 7), In(4, 1), Su(7, 5), Ad(11, 4),
        Su(9, 4), Ad(6, 5), Ld(3, R9, 0), Mv(10, 11), Xo(7, 3), Mv(8, 9), Sw(7), Ad(10, 6),
        Su(11, 6), Su(8, 7), Ad(9, 7), x64_movsxd_reg_memindex(R12, R8, 8, RAX, 2), Mv(2, 10),
        x64_movsxd_reg_memindex(R11, R8, 0, RAX, 2), Mv(1, 11), Sh(10, 8, \hEE), Sh(11, 9, \hEE),
        StX(RDX, 0, R12, 2, 10), StX(RDX, 16, R12, 2, 11), In(15, 4), In(12, 5), Mv(14, 15),
        In(4, 6), Ad(14, 12), Su(15, 12), In(13, 7), Mv(5, 4), Mv(7, 14), Ad(5, 13), Su(4, 13),
        Lh(2, 8), Mv(8, 5), Lh(7, 15), Xo(15, 3), Mv(6, 5), Su(5, 14), Ad(6, 14), Lh(1, 9),
        Mv(14, 4), Lh(8, 4), Mv(12, 1), Sw(15), Ld(11, R9, 48),
        x64_alu_reg_imm_size(ADD, RAX, 4, 8), Su(14, 15), Mv(9, 11), Mu(11, 7), Ad(4, 15),
        Ld(15, R9, 64), Sw(7), Mu(9, 8), Mu(7, 15), Sw(8), Su(11, 7), Mu(8, 15), Mv(10, 11),
        Ad(9, 8), Sh(6, 14, \hEE), Su(11, 9), Ad(10, 9), Xo(11, 3), Mv(3, 2), Sw(11), Su(3, 10),
        Ad(2, 10), Ad(12, 11), Su(1, 11), Sh(5, 4, \hEE), StX(RDX, 48, R12, 2, 5),
        StX(RDX, 32, R12, 2, 6), StX(RDX, 0, R11, 2, 2), StX(RDX, 16, R11, 2, 1),
        StX(RDX, 32, R11, 2, 3), StX(RDX, 48, R11, 2, 12) >>)

generate_leaf_oe(offsets) ==
    LET In(x, k) == LdX(x, RSI, offsets[k + 1], RAX, 2)
    IN Flat(<<
        Ld(0, R9, 0), In(6, 2), In(8, 3), Mv(10, 6), Sh(10, 8, \hE4), Mv(9, 10), Sh(8, 6, \hE4),
        In(12, 0), In(7, 1), Mv(14, 12), x64_movsxd_reg_memindex(R11, R8, 0, RAX, 2), Ad(9, 8),
        Su(10, 8), Ad(14, 7), Su(12, 7), Mv(4, 9), Mv(13, 14), Sh(4, 10, \hEE), Xo(10, 0), Sw(10),
        Mv(11, 12), Mv(5, 14), Ad(13, 9), Su(11, 10), Su(14, 9), Sh(5, 12, \hEE), Ad(12, 10),
        x64_movsxd_reg_memindex(R12, R8, 8, RAX, 2), Lh(13, 11), StX(RDX, 0, R11, 2, 13),
        Ld(13, R9, 48), Lh(14, 12), Mv(1, 13), Ld(12, R9, 64), Mu(13, 5), Sw(5), Mu(5, 12),
        StX(RDX, 16, R11, 2, 14), Su(13, 5), Mu(1, 4), Sw(4), Mu(4, 12), In(9, 4), Ad(1, 4),
        In(7, 6), Mv(3, 9), In(2, 7), Mv(6, 7), In(15, 5), Mv(4, 13), Su(7, 2), Ad(3, 15),
        Su(9, 15), Ad(6, 2), Su(13, 1), Ad(4, 1), Xo(7, 0), x64_alu_reg_imm_size(ADD, RAX, 4, 8),
        Mv(2, 3), Sw(7), Mv(8, 9), Xo(13, 0), Ad(2, 6), Su(8, 7), Su(3, 6), Ad(9, 7), Mv(10, 2),
        Mv(11, 3), Sh(2, 8, \hEE), Sh(3, 9, \hEE), Mv(14, 2), Sw(13), Su(14, 4), Ad(2, 4),
        Mv(4, 3), Su(3, 13), Ad(4, 13), Lh(10, 8), Lh(11, 9), StX(RDX, 32, R11, 2, 10),
        StX(RDX, 48, R11, 2, 11), StX(RDX, 0, R12, 2, 2), StX(RDX, 16, R12, 2, 3),
        StX(RDX, 32, R12, 2, 14), StX(RDX, 48, R12, 2, 4) >>)

generate_leaf_oo(at, loop_count, offsets, extend) ==
    LET In(x, k) == LdX(x, RSI, offsets[k + 1], RAX, 2)
        mov == x86_mov_reg_imm(RCX, loop_count)
        pre == mov \o align_mem16(at + Len(mov), 4) \o Ld(5, R9, 0)
        body == Flat(<<
            In(4, 0), MvW(6, 4, extend > 0), In(7, 1), In(10, 2), AdW(6, 7, extend > 1),
            SuW(4, 7, extend > 2), In(8, 3), Mv(9, 10), In(1, 4), MvW(3, 6, extend > 3),
            In(11, 5), MvW(2, 1, extend > 4), In(14, 6), Mv(15, 4), In(12, 7), Mv(13, 14),
            x64_movsxd_reg_memindex(R11, R8, 0, RAX, 2), Su(10, 8), Ad(9, 8), Ad(2, 11),
            Su(14, 12), Su(1, 11), Ad(13, 12), Xo(10, 5), Ad(3, 9), Su(6, 9), Xo(14, 5), Sw(10),
            Mv(9, 2), Sw(14), MvW(7, 6, extend > 5), x64_movsxd_reg_memindex(R12, R8, 8, RAX, 2),
            x64_alu_reg_imm_size(ADD, RAX, 4, 8), Ad(4, 10), Ad(9, 13), Su(2, 13), Su(15, 10),
            Mv(13, 1), Mv(8, 2), LhW(7, 4, extend > 6), Su(13, 14), Ad(1, 14), Sh(6, 4, \hEE),
            Mv(14, 3), Mv(4, 9), Lh(14, 15), Lh(4, 13), Lh(8, 1), Sh(3, 15, \hEE),
            Sh(9, 13, \hEE), Sh(2, 1, \hEE), StX(RDX, 0, R11, 2, 14), StX(RDX, 16, R11, 2, 7),
            StX(RDX, 32, R11, 2, 4), StX(RDX, 48, R11, 2, 8), StX(RDX, 0, R12, 2, 3),
            StX(RDX, 16, R12, 2, 6), StX(RDX, 32, R12, 2, 9), StX(RDX, 48, R12, 2, 2),
            x64_alu_reg_reg_size(CMP, RCX, RAX, 8) >>)
    IN Loop(at, pre, body)

-----------------------------------------------------------------------------

generate_size4_base_case ==
    Flat(<<
        Ld(0, RDX, 64), Ld(1, RDX, 96), Ld(7, RDX, 0), Ld(4, R8, 0), Mv(9, 7), Mv(6, 4),
        Ld(2, R8, 16), Mu(6, 0), Mu(4, 1), Sw(0), Sw(1), Mu(0, 2), Mu(2, 1), Su(6, 0), Ad(4, 2),
        Mv(5, 6), Su(6, 4), Ad(5, 4), Ld(8, RDX, 32), Xo(6, 3), Sw(6), Mv(10, 8),
        Ld(12, RDX, 112), Su(9, 5), Ad(7, 5), Ad(10, 6), Su(8, 6), St(RDX, 0, 7), St(RDX, 32, 8),
        St(RDX, 64, 9), St(RDX, 96, 10), Ld(14, R8, 32), Ld(11, RDX, 80), Mv(0, 14),
        Ld(13, R8, 48), Mu(0, 11), Mu(14, 12), Sw(11), Sw(12), Mu(11, 13), Mu(13, 12), Su(0, 11),
        Ad(14, 13), Mv(15, 0), Su(0, 14), Ad(15, 14), Xo(0, 3), Ld(1, RDX, 16), Ld(2, RDX, 48),
        Mv(4, 1), Sw(0), Mv(5, 2), Ad(1, 15), Su(2, 0), Su(4, 15), Ad(5, 0), St(RDX, 16, 1),
        St(RDX, 48, 2), St(RDX, 80, 4), St(RDX, 112, 5), x64_ret >>)

generate_size8_base_case(at) ==
    LET pre == Flat(<<
            x86_clear_reg(RAX), x64_mov_reg_reg(RBX, RDX), x64_mov_reg_reg(RSI, R8),
            x64_lea_memindex(R9, RDX, 0, RCX, 2), x64_lea_memindex(R10, R9, 0, RCX, 2),
            x64_lea_memindex(R11, R10, 0, RCX, 2), x64_lea_memindex(R12, R11, 0, RCX, 2),
            x64_lea_memindex(R13, R12, 0, RCX, 2), x64_lea_memindex(R14, R13, 0, RCX, 2),
            x64_lea_memindex(R15, R14, 0, RCX, 2) >>)
        body == Flat(<<
            Ld(9, RSI, 0), LdX(6, R10, 0, RAX, 2), Mv(11, 9), LdX(7, R11, 0, RAX, 2),
            Ld(8, RSI, 16), Mu(11, 6), Mu(9, 7), Sw(6), Mu(6, 8), Sw(7), Su(11, 6), Mu(8, 7),
            Mv(10, 11), Ad(9, 8), Ld(15, RSI, 32), Ad(10, 9), Su(11, 9), LdX(5, RBX, 0, RAX, 2),
            Mv(6, 15), LdX(12, R12, 0, RAX, 2), Mv(2, 5), LdX(13, R14, 0, RAX, 2), Xo(11, 3),
            Ld(14, RSI, 48), Su(2, 10), Mu(6, 12), Ad(5, 10), Mu(15, 13), Ld(10, RSI, 64),
            Mv(0, 5), Sw(12), Sw(13), Mu(12, 14), Mu(14, 13), Su(6, 12), Ad(15, 14),
            LdX(7, R13, 0, RAX, 2), Mv(13, 10), LdX(8, R15, 0, RAX, 2), Mv(12, 6), Ld(9, RSI, 80),
            x64_alu_reg_imm_size(ADD, RSI, \h60, 8), Mu(13, 7), Su(6, 15), Ad(12, 15), Mu(10, 8),
            Su(0, 12), Ad(5, 12), Sw(7), Xo(6, 3), Sw(8), Mv(12, 2), Mu(7, 9), Mu(9, 8),
            Su(13, 7), Ad(10, 9), LdX(4, R9, 0, RAX, 2), Sw(11), Mv(1, 4), Sw(6), Ad(1, 11),
            Su(4, 11), Ad(12, 6), Su(2, 6), Mv(11, 13), Mv(14, 4), Mv(6, 1), Su(13, 10),
            Ad(11, 10), Xo(13, 3), Ad(4, 11), Su(14, 11), Sw(13), StX(RBX, 0, RAX, 2, 5),
            StX(R9, 0, RAX, 2, 4), StX(R10, 0, RAX, 2, 2), Su(1, 13), Ad(6, 13),
            StX(R11, 0, RAX, 2, 1), StX(R12, 0, RAX, 2, 0), StX(R13, 0, RAX, 2, 14),
            StX(R14, 0, RAX, 2, 12), StX(R15, 0, RAX, 2, 6), x64_alu_reg_imm_size(ADD, RAX, 4, 8),
            x64_alu_reg_reg_size(CMP, RCX, RAX, 8) >>)
    IN Loop(at, pre, body) \o x64_ret

==============================================================================
