----------------------------- MODULE Opcode6502 -----------------------------
(***************************************************************************)
(* The opcode table (emulator/opcode-6502, from which opcode-gen.sh makes  *)
(* opcode_list): code, mnemonic, addressing mode, cycles, what indexing    *)
(* across a page adds to them, length.  Codes without a row have no        *)
(* handler.                                                                *)
(***************************************************************************)
EXTENDS Naturals

Rows == {
    <<\h61, "ADC", "INDEX_INDIR", 6, 0, 2>>, <<\h65, "ADC", "ZP", 3, 0, 2>>,
    <<\h69, "ADC", "IMM", 2, 0, 2>>, <<\h6D, "ADC", "ABS", 4, 0, 3>>,
    <<\h71, "ADC", "INDIR_INDEX", 5, 1, 2>>, <<\h75, "ADC", "ZP_X", 4, 0, 2>>,
    <<\h79, "ADC", "ABS_Y", 4, 1, 3>>, <<\h7D, "ADC", "ABS_X", 4, 1, 3>>,
    <<\h21, "AND", "INDEX_INDIR", 6, 0, 2>>, <<\h25, "AND", "ZP", 3, 0, 2>>,
    <<\h29, "AND", "IMM", 2, 0, 2>>, <<\h2D, "AND", "ABS", 4, 0, 3>>,
    <<\h31, "AND", "INDIR_INDEX", 5, 1, 2>>, <<\h35, "AND", "ZP_X", 4, 0, 2>>,
    <<\h39, "AND", "ABS_Y", 4, 1, 3>>, <<\h3D, "AND", "ABS_X", 4, 1, 3>>,
    <<\h06, "ASL", "ZP", 5, 0, 2>>, <<\h0A, "ASL", "ACC", 2, 0, 1>>,
    <<\h0E, "ASL", "ABS", 6, 0, 3>>, <<\h16, "ASL", "ZP_X", 6, 0, 2>>,
    <<\h1E, "ASL", "ABS_X", 7, 0, 3>>, <<\h90, "BCC", "REL", 2, 0, 2>>,
    <<\hB0, "BCS", "REL", 2, 0, 2>>, <<\hF0, "BEQ", "REL", 2, 0, 2>>,
    <<\h24, "BIT", "ZP", 3, 0, 2>>, <<\h2C, "BIT", "ABS", 4, 0, 3>>,
    <<\h30, "BMI", "REL", 2, 0, 2>>, <<\hD0, "BNE", "REL", 2, 0, 2>>,
    <<\h10, "BPL", "REL", 2, 0, 2>>, <<\h00, "BRK", "IMP", 7, 0, 1>>,
    <<\h50, "BVC", "REL", 2, 0, 2>>, <<\h70, "BVS", "REL", 2, 0, 2>>,
    <<\h18, "CLC", "IMP", 2, 0, 1>>, <<\hD8, "CLD", "IMP", 2, 0, 1>>,
    <<\h58, "CLI", "IMP", 2, 0, 1>>, <<\hB8, "CLV", "IMP", 2, 0, 1>>,
    <<\hC1, "CMP", "INDEX_INDIR", 6, 0, 2>>, <<\hC5, "CMP", "ZP", 3, 0, 2>>,
    <<\hC9, "CMP", "IMM", 2, 0, 2>>, <<\hCD, "CMP", "ABS", 4, 0, 3>>,
    <<\hD1, "CMP", "INDIR_INDEX", 5, 1, 2>>, <<\hD5, "CMP", "ZP_X", 4, 0, 2>>,
    <<\hD9, "CMP", "ABS_Y", 4, 1, 3>>, <<\hDD, "CMP", "ABS_X", 4, 1, 3>>,
    <<\hE0, "CPX", "IMM", 2, 0, 2>>, <<\hE4, "CPX", "ZP", 3, 0, 2>>,
    <<\hEC, "CPX", "ABS", 4, 0, 3>>, <<\hC0, "CPY", "IMM", 2, 0, 2>>,
    <<\hC4, "CPY", "ZP", 3, 0, 2>>, <<\hCC, "CPY", "ABS", 4, 0, 3>>,
    <<\hC6, "DEC", "ZP", 5, 0, 2>>, <<\hCE, "DEC", "ABS", 6, 0, 3>>,
    <<\hD6, "DEC", "ZP_X", 6, 0, 2>>, <<\hDE, "DEC", "ABS_X", 7, 0, 3>>,
    <<\hCA, "DEX", "IMP", 2, 0, 1>>, <<\h88, "DEY", "IMP", 2, 0, 1>>,
    <<\h41, "EOR", "INDEX_INDIR", 6, 0, 2>>, <<\h45, "EOR", "ZP", 3, 0, 2>>,
    <<\h49, "EOR", "IMM", 2, 0, 2>>, <<\h4D, "EOR", "ABS", 4, 0, 3>>,
    <<\h51, "EOR", "INDIR_INDEX", 5, 1, 2>>, <<\h55, "EOR", "ZP_X", 4, 0, 2>>,
    <<\h59, "EOR", "ABS_Y", 4, 1, 3>>, <<\h5D, "EOR", "ABS_X", 4, 1, 3>>,
    <<\hE6, "INC", "ZP", 5, 0, 2>>, <<\hEE, "INC", "ABS", 6, 0, 3>>,
    <<\hF6, "INC", "ZP_X", 6, 0, 2>>, <<\hFE, "INC", "ABS_X", 7, 0, 3>>,
    <<\hE8, "INX", "IMP", 2, 0, 1>>, <<\hC8, "INY", "IMP", 2, 0, 1>>,
    <<\h4C, "JMP", "ABS", 3, 0, 3>>, <<\h6C, "JMP", "IND", 5, 0, 3>>,
    <<\h20, "JSR", "ABS", 6, 0, 3>>, <<\hA1, "LDA", "INDEX_INDIR", 6, 0, 2>>,
    <<\hA5, "LDA", "ZP", 3, 0, 2>>, <<\hA9, "LDA", "IMM", 2, 0, 2>>,
    <<\hAD, "LDA", "ABS", 4, 0, 3>>, <<\hB1, "LDA", "INDIR_INDEX", 5, 1, 2>>,
    <<\hB5, "LDA", "ZP_X", 4, 0, 2>>, <<\hB9, "LDA", "ABS_Y", 4, 1, 3>>,
    <<\hBD, "LDA", "ABS_X", 4, 1, 3>>, <<\hA2, "LDX", "IMM", 2, 0, 2>>,
    <<\hA6, "LDX", "ZP", 3, 0, 2>>, <<\hAE, "LDX", "ABS", 4, 0, 3>>,
    <<\hB6, "LDX", "ZP_Y", 4, 0, 2>>, <<\hBE, "LDX", "ABS_Y", 4, 1, 3>>,
    <<\hA0, "LDY", "IMM", 2, 0, 2>>, <<\hA4, "LDY", "ZP", 3, 0, 2>>,
    <<\hAC, "LDY", "ABS", 4, 0, 3>>, <<\hB4, "LDY", "ZP_X", 4, 0, 2>>,
    <<\hBC, "LDY", "ABS_X", 4, 1, 3>>, <<\h46, "LSR", "ZP", 5, 0, 2>>,
    <<\h4A, "LSR", "ACC", 2, 0, 1>>, <<\h4E, "LSR", "ABS", 6, 0, 3>>,
    <<\h56, "LSR", "ZP_X", 6, 0, 2>>, <<\h5E, "LSR", "ABS_X", 7, 0, 3>>,
    <<\hEA, "NOP", "IMP", 2, 0, 1>>, <<\h01, "ORA", "INDEX_INDIR", 6, 0, 2>>,
    <<\h05, "ORA", "ZP", 3, 0, 2>>, <<\h09, "ORA", "IMM", 2, 0, 2>>,
    <<\h0D, "ORA", "ABS", 4, 0, 3>>, <<\h11, "ORA", "INDIR_INDEX", 5, 1, 2>>,
    <<\h15, "ORA", "ZP_X", 4, 0, 2>>, <<\h19, "ORA", "ABS_Y", 4, 1, 3>>,
    <<\h1D, "ORA", "ABS_X", 4, 1, 3>>, <<\h48, "PHA", "IMP", 3, 0, 1>>,
    <<\h08, "PHP", "IMP", 3, 0, 1>>, <<\h68, "PLA", "IMP", 4, 0, 1>>,
    <<\h28, "PLP", "IMP", 4, 0, 1>>, <<\h26, "ROL", "ZP", 5, 0, 2>>,
    <<\h2A, "ROL", "ACC", 2, 0, 1>>, <<\h2E, "ROL", "ABS", 6, 0, 3>>,
    <<\h36, "ROL", "ZP_X", 6, 0, 2>>, <<\h3E, "ROL", "ABS_X", 7, 0, 3>>,
    <<\h66, "ROR", "ZP", 5, 0, 2>>, <<\h6A, "ROR", "ACC", 2, 0, 1>>,
    <<\h6E, "ROR", "ABS", 6, 0, 3>>, <<\h76, "ROR", "ZP_X", 6, 0, 2>>,
    <<\h7E, "ROR", "ABS_X", 7, 0, 3>>, <<\h40, "RTI", "IMP", 6, 0, 1>>,
    <<\h60, "RTS", "IMP", 6, 0, 1>>, <<\hE1, "SBC", "INDEX_INDIR", 6, 0, 2>>,
    <<\hE5, "SBC", "ZP", 3, 0, 2>>, <<\hE9, "SBC", "IMM", 2, 0, 2>>,
    <<\hED, "SBC", "ABS", 4, 0, 3>>, <<\hF1, "SBC", "INDIR_INDEX", 5, 1, 2>>,
    <<\hF5, "SBC", "ZP_X", 4, 0, 2>>, <<\hF9, "SBC", "ABS_Y", 4, 1, 3>>,
    <<\hFD, "SBC", "ABS_X", 4, 1, 3>>, <<\h38, "SEC", "IMP", 2, 0, 1>>,
    <<\hF8, "SED", "IMP", 2, 0, 1>>, <<\h78, "SEI", "IMP", 2, 0, 1>>,
    <<\h81, "STA", "INDEX_INDIR", 6, 0, 2>>, <<\h85, "STA", "ZP", 3, 0, 2>>,
    <<\h8D, "STA", "ABS", 4, 0, 3>>, <<\h91, "STA", "INDIR_INDEX", 6, 0, 2>>,
    <<\h95, "STA", "ZP_X", 4, 0, 2>>, <<\h99, "STA", "ABS_Y", 5, 0, 3>>,
    <<\h9D, "STA", "ABS_X", 5, 0, 3>>, <<\h86, "STX", "ZP", 3, 0, 2>>,
    <<\h8E, "STX", "ABS", 4, 0, 3>>, <<\h96, "STX", "ZP_Y", 4, 0, 2>>,
    <<\h84, "STY", "ZP", 3, 0, 2>>, <<\h8C, "STY", "ABS", 4, 0, 3>>,
    <<\h94, "STY", "ZP_X", 4, 0, 2>>, <<\hAA, "TAX", "IMP", 2, 0, 1>>,
    <<\hA8, "TAY", "IMP", 2, 0, 1>>, <<\hBA, "TSX", "IMP", 2, 0, 1>>,
    <<\h8A, "TXA", "IMP", 2, 0, 1>>, <<\h9A, "TXS", "IMP", 2, 0, 1>>,
    <<\h98, "TYA", "IMP", 2, 0, 1>>}

opcode_list ==
    [code \in {row[1] : row \in Rows} |->
        LET row == CHOOSE r \in Rows : r[1] = code
        IN  [op |-> row[2], addr_mode |-> row[3], cycle |-> row[4],
             cycle_aux |-> row[5] = 1, inst_len |-> row[6]]]
=============================================================================
