---------------------------------- MODULE CodeWin64 ----------------------------------
(***************************************************************************)
(* What codegen_sse.h generates with _M_X64, for the calling convention of *)
(* 64-bit Windows.  The plan comes in RCX, the input in RDX, the output in *)
(* R8; RBX is the size of the loops and of the sub-transforms, RAX counts, *)
(* R9 points to the offsets and later to the twiddle factors, RSI to the   *)
(* constants.                                                              *)
(***************************************************************************)
EXTENDS SseItems

\* What the caller expects to find unchanged.
generate_prologue ==
    Flat(<<
        x64_alu_reg_imm_size(SUB, RSP, 88, 8), x64_mov_membase_reg(RSP, -64, RBX),
        x64_mov_membase_reg(RSP, -56, RSI), St(RSP, -48, 6), St(RSP, -32, 7), St(RSP, -16, 8),
        St(RSP, 0, 9), St(RSP, 16, 10), St(RSP, 32, 11), St(RSP, 48, 12), St(RSP, 64, 13),
        St(RSP, 96, 14), St(RSP, 112, 15) >>)

generate_epilogue ==
    Flat(<<
        x64_mov_reg_membase(RBX, RSP, -64), x64_mov_reg_membase(RSI, RSP, -56), Ld(6, RSP, -48),
        Ld(7, RSP, -32), Ld(8, RSP, -16), Ld(9, RSP, 0), Ld(10, RSP, 16), Ld(11, RSP, 32),
        Ld(12, RSP, 48), Ld(13, RSP, 64), Ld(14, RSP, 96), Ld(15, RSP, 112),
        x64_alu_reg_imm_size(ADD, RSP, 88, 8), x64_ret >>)

generate_transform_init ==
    Flat(<< Ld(3, RSI, 0), x64_mov_reg_membase(R9, RCX, \h20) >>)

generate_leaf_init(at, loop_count) ==
    Flat(<<
        x86_mov_reg_imm(RBX, loop_count), x86_clear_reg(RAX),
        x64_mov_reg_membase(R9, RCX, OffsetsField), x64_mov_reg_membase(RSI, RCX, ConstantsField),
        Ld(3, RSI, 0) >>)

-----------------------------------------------------------------------------
(* The leaves, which read two columns of the input and write two leaves of the output. *)

generate_leaf_ee(at, offsets, extend) ==
    LET In(x, k) == LdX(x, RDX, offsets[k + 1], RAX, 2)
        pre == Flat(<< Ld1(0, RSI, 32) >>)
        body == Flat(<<
            In(7, 0), In(12, 2), MvW(6, 7, extend > 0), In(10, 3), Mv(11, 12), Su(12, 10),
            Ad(11, 10), Xo(12, 3), In(9, 1), In(10, 4), Ad(6, 9), Su(7, 9), In(13, 5), Mv(9, 10),
            In(8, 6), MvW(5, 6, extend > 1), In(14, 7), Mv(15, 8), Sw(12), MvW(4, 7, extend > 2),
            x64_movsxd_reg_memindex(R10, R9, 0, RAX, 2), Su(10, 13), Su(8, 14), Ad(5, 11),
            Su(6, 11), Su(4, 12), Ad(7, 12), Ad(9, 13), Ad(15, 14), Ld(12, RSI, 16), Mv(1, 9),
            Mv(11, 12), MvW(2, 5, extend > 3), Mu(12, 10), Su(9, 15), Ad(1, 15), Mu(11, 8),
            AdW(2, 1, extend > 4), SuW(5, 1, extend > 5), Sw(10), Xo(9, 3), Sw(8),
            MvW(1, 6, extend > 6), Mu(10, 0), Mv(13, 4), Mu(8, 0), Su(12, 10), Ad(11, 8),
            Mv(8, 12), Mv(14, 7), Sw(9), Su(12, 11), Ad(8, 11), Su(1, 9), Ad(6, 9), Ad(4, 8),
            Su(13, 8), Xo(12, 3), Mv(8, 2), Sw(12), Mv(9, 6),
            x64_movsxd_reg_memindex(R11, R9, 8, RAX, 2), Lh(8, 4),
            x64_alu_reg_imm_size(ADD, RAX, 4, 8), Sh(2, 4, \hEE), MvW(4, 1, extend > 7),
            Su(7, 12), Ad(14, 12), Lh(4, 7), Sh(1, 7, \hEE), MvW(7, 5, extend > 8), Lh(7, 13),
            Lh(9, 14), Sh(5, 13, \hEE), Sh(6, 14, \hEE), StX(R8, 0, R10, 2, 8),
            StX(R8, 16, R10, 2, 4), StX(R8, 32, R10, 2, 7), StX(R8, 48, R10, 2, 9),
            StX(R8, 0, R11, 2, 2), StX(R8, 16, R11, 2, 1), StX(R8, 32, R11, 2, 5),
            StX(R8, 48, R11, 2, 6), x64_alu_reg_reg_size(CMP, RBX, RAX, 8) >>)
    IN Loop(at, pre, body)

generate_leaf_eo(offsets) ==
    LET In(x, k) == LdX(x, RDX, offsets[k + 1], RAX, 2)
    IN Flat(<<
        In(9, 0), In(7, 2), Mv(11, 9), In(5, 3), Mv(6, 7), In(4, 1), Su(7, 5), Ad(11, 4),
        Su(9, 4), Ad(6, 5), Mv(10, 11), Xo(7, 3), Mv(8, 9), Sw(7), Ad(10, 6), Su(11, 6), Su(8, 7),
        Ad(9, 7), x64_movsxd_reg_memindex(R11, R9, 8, RAX, 2), Mv(2, 10),
        x64_movsxd_reg_memindex(R10, R9, 0, RAX, 2), Mv(1, 11), Sh(10, 8, \hEE), Sh(11, 9, \hEE),
        StX(R8, 0, R11, 2, 10), StX(R8, 16, R11, 2, 11), In(15, 4), In(12, 5), Mv(14, 15),
        In(4, 6), Ad(14, 12), Su(15, 12), In(13, 7), Mv(5, 4), Mv(7, 14), Ad(5, 13), Su(4, 13),
        Lh(2, 8), Mv(8, 5), Lh(7, 15), Xo(15, 3), Mv(6, 5), Su(5, 14), Ad(6, 14), Lh(1, 9),
        Mv(14, 4), Lh(8, 4), Mv(12, 1), Sw(15), Ld(11, RSI, 48),
        x64_alu_reg_imm_size(ADD, RAX, 4, 8), Su(14, 15), Mv(9, 11), Mu(11, 7), Ad(4, 15),
        Ld(15, RSI, 64), Sw(7), Mu(9, 8), Mu(7, 15), Sw(8), Su(11, 7), Mu(8, 15), Mv(10, 11),
        Ad(9, 8), Sh(6, 14, \hEE), Su(11, 9), Ad(10, 9), Xo(11, 3), Mv(0, 2), Sw(11), Su(0, 10),
        Ad(2, 10), Ad(12, 11), Su(1, 11), Sh(5, 4, \hEE), StX(R8, 48, R11, 2, 5),
        StX(R8, 32, R11, 2, 6), StX(R8, 0, R10, 2, 2), StX(R8, 16, R10, 2, 1),
        StX(R8, 32, R10, 2, 0), StX(R8, 48, R10, 2, 12) >>)

generate_leaf_oe(offsets) ==
    LET In(x, k) == LdX(x, RDX, offsets[k + 1], RAX, 2)
    IN Flat(<<
        In(6, 2), In(8, 3), Mv(10, 6), Sh(10, 8, \hE4), Mv(9, 10), Sh(8, 6, \hE4), In(12, 0),
        In(7, 1), Mv(14, 12), x64_movsxd_reg_memindex(R10, R9, 0, RAX, 2), Ad(9, 8), Su(10, 8),
        Ad(14, 7), Su(12, 7), Mv(4, 9), Mv(13, 14), Sh(4, 10, \hEE), Xo(10, 3), Sw(10),
        Mv(11, 12), Mv(5, 14), Ad(13, 9), Su(11, 10), Su(14, 9), Sh(5, 12, \hEE), Ad(12, 10),
        x64_movsxd_reg_memindex(R11, R9, 8, RAX, 2), Lh(13, 11), StX(R8, 0, R10, 2, 13),
        Ld(13, RSI, 48), Lh(14, 12), Mv(1, 13), Ld(12, RSI, 64), Mu(13, 5), Sw(5), Mu(5, 12),
        StX(R8, 16, R10, 2, 14), Su(13, 5), Mu(1, 4), Sw(4), Mu(4, 12), In(9, 4), Ad(1, 4),
        In(7, 6), Mv(0, 9), In(2, 7), Mv(6, 7), In(15, 5), Mv(4, 13), Su(7, 2), Ad(0, 15),
        Su(9, 15), Ad(6, 2), Su(13, 1), Ad(4, 1), Xo(7, 3), x64_alu_reg_imm_size(ADD, RAX, 4, 8),
        Mv(2, 0), Sw(7), Mv(8, 9), Xo(13, 3), Ad(2, 6), Su(8, 7), Su(0, 6), Ad(9, 7), Mv(10, 2),
        Mv(11, 0), Sh(2, 8, \hEE), Sh(0, 9, \hEE), Mv(14, 2), Sw(13), Su(14, 4), Ad(2, 4),
        Mv(4, 0), Su(0, 13), Ad(4, 13), Lh(10, 8), Lh(11, 9), StX(R8, 32, R10, 2, 10),
        StX(R8, 48, R10, 2, 11), StX(R8, 0, R11, 2, 2), StX(R8, 16, R11, 2, 0),
        StX(R8, 32, R11, 2, 14), StX(R8, 48, R11, 2, 4) >>)

generate_leaf_oo(at, loop_count, offsets, extend) ==
    LET In(x, k) == LdX(x, RDX, offsets[k + 1], RAX, 2)
        pre == Flat(<< x86_mov_reg_imm(RBX, loop_count) >>)
        body == Flat(<<
            In(4, 0), MvW(6, 4, extend > 0), In(7, 1), In(10, 2), AdW(6, 7, extend > 1),
            SuW(4, 7, extend > 2), In(8, 3), Mv(9, 10), In(1, 4), MvW(5, 6, extend > 3),
            In(11, 5), MvW(2, 1, extend > 4), In(14, 6), Mv(15, 4), In(12, 7), Mv(13, 14),
            x64_movsxd_reg_memindex(R10, R9, 0, RAX, 2), Su(10, 8), Ad(9, 8), Ad(2, 11),
            Su(14, 12), Su(1, 11), Ad(13, 12), Xo(10, 3), Ad(5, 9), Su(6, 9), Xo(14, 3), Sw(10),
            Mv(9, 2), Sw(14), MvW(7, 6, extend > 5), x64_movsxd_reg_memindex(R11, R9, 8, RAX, 2),
            x64_alu_reg_imm_size(ADD, RAX, 4, 8), Ad(4, 10), Ad(9, 13), Su(2, 13), Su(15, 10),
            Mv(13, 1), Mv(8, 2), LhW(7, 4, extend > 6), Su(13, 14), Ad(1, 14), Sh(6, 4, \hEE),
            Mv(14, 5), Mv(4, 9), Lh(14, 15), Lh(4, 13), Lh(8, 1), Sh(5, 15, \hEE),
            Sh(9, 13, \hEE), Sh(2, 1, \hEE), StX(R8, 0, R10, 2, 14), StX(R8, 16, R10, 2, 7),
            StX(R8, 32, R10, 2, 4), StX(R8, 48, R10, 2, 8), StX(R8, 0, R11, 2, 5),
            StX(R8, 16, R11, 2, 6), StX(R8, 32, R11, 2, 9), StX(R8, 48, R11, 2, 2),
            x64_alu_reg_reg_size(CMP, RBX, RAX, 8) >>)
    IN Loop(at, pre, body)

-----------------------------------------------------------------------------

generate_size4_base_case ==
    Flat(<<
        Ld(0, R8, 64), Ld(1, R8, 96), Ld(7, R8, 0), Ld(4, R9, 0), Mv(9, 7), Mv(6, 4),
        Ld(2, R9, 16), Mu(6, 0), Mu(4, 1), Sw(0), Sw(1), Mu(0, 2), Mu(2, 1), Su(6, 0), Ad(4, 2),
        Mv(5, 6), Su(6, 4), Ad(5, 4), Ld(8, R8, 32), Xo(6, 3), Sw(6), Mv(10, 8), Ld(12, R8, 112),
        Su(9, 5), Ad(7, 5), Ad(10, 6), Su(8, 6), St(R8, 0, 7), St(R8, 32, 8), St(R8, 64, 9),
        St(R8, 96, 10), Ld(14, R9, 32), Ld(11, R8, 80), Mv(0, 14), Ld(13, R9, 48), Mu(0, 11),
        Mu(14, 12), Sw(11), Sw(12), Mu(11, 13), Mu(13, 12), Su(0, 11), Ad(14, 13), Mv(15, 0),
        Su(0, 14), Ad(15, 14), Xo(0, 3), Ld(1, R8, 16), Ld(2, R8, 48), Mv(4, 1), Sw(0), Mv(5, 2),
        Ad(1, 15), Su(2, 0), Su(4, 15), Ad(5, 0), St(R8, 16, 1), St(R8, 48, 2), St(R8, 80, 4),
        St(R8, 112, 5), x64_ret >>)

generate_size8_base_case(at) ==
    LET pre == Flat(<<
            x64_mov_reg_reg(RAX, R9), x64_mov_reg_reg(RCX, R8),
            x64_lea_memindex(RDX, R8, 0, RBX, 0), x64_lea_memindex(RSI, RBX, 0, RBX, 1),
            x64_lea_memindex(R10, RBX, 0, RBX, 2), x64_lea_memindex(R11, RSI, 0, RBX, 2) >>)
        body == Flat(<<
            Ld(9, RAX, 0), LdX(6, RCX, 0, RBX, 1), Mv(11, 9), LdX(7, RCX, 0, RSI, 0),
            Ld(8, RAX, 16), Mu(11, 6), Mu(9, 7), Sw(6), Mu(6, 8), Sw(7), Su(11, 6), Mu(8, 7),
            Mv(10, 11), Ad(9, 8), Ld(15, RAX, 32), Ad(10, 9), Su(11, 9), Ld(5, RCX, 0), Mv(6, 15),
            LdX(12, RCX, 0, RBX, 2), Mv(2, 5), LdX(13, RCX, 0, RSI, 1), Xo(11, 3),
            Ld(14, RAX, 48), Su(2, 10), Mu(6, 12), Ad(5, 10), Mu(15, 13), Ld(10, RAX, 64),
            Mv(0, 5), Sw(12), Sw(13), Mu(12, 14), Mu(14, 13), Su(6, 12), Ad(15, 14),
            LdX(7, RCX, 0, R10, 0), Mv(13, 10), LdX(8, RCX, 0, R11, 0), Mv(12, 6), Ld(9, RAX, 80),
            x64_alu_reg_imm_size(ADD, RAX, \h60, 8), Mu(13, 7), Su(6, 15), Ad(12, 15), Mu(10, 8),
            Su(0, 12), Ad(5, 12), Sw(7), Xo(6, 3), Sw(8), Mv(12, 2), Mu(7, 9), Mu(9, 8),
            Su(13, 7), Ad(10, 9), LdX(4, RCX, 0, RBX, 0), Sw(11), Mv(1, 4), Sw(6), Ad(1, 11),
            Su(4, 11), Ad(12, 6), Su(2, 6), Mv(11, 13), Mv(14, 4), Mv(6, 1), Su(13, 10),
            Ad(11, 10), Xo(13, 3), Ad(4, 11), Su(14, 11), Sw(13), St(RCX, 0, 5),
            StX(RCX, 0, RBX, 0, 4), StX(RCX, 0, RBX, 1, 2), Su(1, 13), Ad(6, 13),
            StX(RCX, 0, RSI, 0, 1), StX(RCX, 0, RBX, 2, 0), StX(RCX, 0, R10, 0, 14),
            StX(RCX, 0, RSI, 1, 12), StX(RCX, 0, R11, 0, 6),
            x64_alu_reg_imm_size(ADD, RCX, 16, 8), x64_alu_reg_reg_size(CMP, RCX, RDX, 8) >>)
    IN Loop(at, pre, body) \o x64_ret

==============================================================================
