------------------------------ MODULE Opcodes ------------------------------
(***************************************************************************)
(* The opcode constants of olc6502_constants.h, a table per mnemonic from  *)
(* addressing mode to opcode, and the three fields into which the rest of  *)
(* the loop body of olc6502_clock splits an opcode.                        *)
(***************************************************************************)
EXTENDS Bytes

Aaa(op) == op \div 32
Bbb(op) == (op \div 4) % 8
Cc(op)  == op % 4

INS_LDA == [IM |-> \hA9, ZP |-> \hA5, ZPX |-> \hB5, ABS |-> \hAD, ABSX |-> \hBD,
            ABSY |-> \hB9, INDX |-> \hA1, INDY |-> \hB1]
INS_LDX == [IM |-> \hA2, ZP |-> \hA6, ZPY |-> \hB6, ABS |-> \hAE, ABSY |-> \hBE]
INS_LDY == [IM |-> \hA0, ZP |-> \hA4, ZPX |-> \hB4, ABS |-> \hAC, ABSX |-> \hBC]
INS_STA == [ZP |-> \h85, ZPX |-> \h95, ABS |-> \h8D, ABSX |-> \h9D,
            ABSY |-> \h99, INDX |-> \h81, INDY |-> \h91]
INS_STX == [ZP |-> \h86, ZPY |-> \h96, ABS |-> \h8E]
INS_STY == [ZP |-> \h84, ZPX |-> \h94, ABS |-> \h8C]
INS_AND == [IM |-> \h29, ZP |-> \h25, ZPX |-> \h35, ABS |-> \h2D, ABSX |-> \h3D,
            ABSY |-> \h39, INDX |-> \h21, INDY |-> \h31]
INS_ORA == [IM |-> \h09, ZP |-> \h05, ZPX |-> \h15, ABS |-> \h0D, ABSX |-> \h1D,
            ABSY |-> \h19, INDX |-> \h01, INDY |-> \h11]
INS_EOR == [IM |-> \h49, ZP |-> \h45, ZPX |-> \h55, ABS |-> \h4D, ABSX |-> \h5D,
            ABSY |-> \h59, INDX |-> \h41, INDY |-> \h51]
INS_BIT == [ZP |-> \h24, ABS |-> \h2C]
INS_ASL == [ACC |-> \h0A, ZP |-> \h06, ZPX |-> \h16, ABS |-> \h0E, ABSX |-> \h1E]
INS_ROL == [ACC |-> \h2A, ZP |-> \h26, ZPX |-> \h36, ABS |-> \h2E, ABSX |-> \h3E]
INS_LSR == [ACC |-> \h4A, ZP |-> \h46, ZPX |-> \h56, ABS |-> \h4E, ABSX |-> \h5E]
INS_ROR == [ACC |-> \h6A, ZP |-> \h66, ZPX |-> \h76, ABS |-> \h6E, ABSX |-> \h7E]
INS_INC == [ZP |-> \hE6, ZPX |-> \hF6, ABS |-> \hEE, ABSX |-> \hFE]
INS_DEC == [ZP |-> \hC6, ZPX |-> \hD6, ABS |-> \hCE, ABSX |-> \hDE]
INS_ADC == [IM |-> \h69, ZP |-> \h65, ZPX |-> \h75, ABS |-> \h6D, ABSX |-> \h7D,
            ABSY |-> \h79, INDX |-> \h61, INDY |-> \h71]
INS_SBC == [IM |-> \hE9, ZP |-> \hE5, ZPX |-> \hF5, ABS |-> \hED, ABSX |-> \hFD,
            ABSY |-> \hF9, INDX |-> \hE1, INDY |-> \hF1]
INS_CMP == [IM |-> \hC9, ZP |-> \hC5, ZPX |-> \hD5, ABS |-> \hCD, ABSX |-> \hDD,
            ABSY |-> \hD9, INDX |-> \hC1, INDY |-> \hD1]
INS_CPX == [IM |-> \hE0, ZP |-> \hE4, ABS |-> \hEC]
INS_CPY == [IM |-> \hC0, ZP |-> \hC4, ABS |-> \hCC]

INS_TAX == \hAA
INS_TAY == \hA8
INS_TXA == \h8A
INS_TYA == \h98
INS_INX == \hE8
INS_INY == \hC8
INS_DEX == \hCA
INS_DEY == \h88
INS_TSX == \hBA
INS_TXS == \h9A
INS_PHA == \h48
INS_PLA == \h68
INS_PHP == \h08
INS_PLP == \h28
INS_JSR == \h20
INS_RTS == \h60
INS_BRK == \h00
INS_RTI == \h40
INS_JMP_ABS == \h4C
INS_JMP_IND == \h6C
INS_NOP == \hEA
INS_CLV == \hB8
BranchCodes == {\hF0, \hD0, \hB0, \h90, \h30, \h10, \h50, \h70}
FlagCodes   == {\h18, \h38, \hD8, \hF8, \h58, \h78, INS_CLV}

Codes(table) == {table[m] : m \in DOMAIN table}

(* The opcodes for which the switch does the whole of the work, and those  *)
(* for which it only fetches the byte that the shift block works on.       *)
SwitchOps ==
  (UNION {Codes(INS_LDA), Codes(INS_LDX), Codes(INS_LDY), Codes(INS_STA),
          Codes(INS_STX), Codes(INS_STY), Codes(INS_AND), Codes(INS_ORA),
          Codes(INS_EOR), Codes(INS_BIT)})
  \cup {INS_TAX, INS_TAY, INS_TXA, INS_TYA, INS_INX, INS_INY, INS_DEX, INS_DEY,
        INS_TSX, INS_TXS, INS_PHA, INS_PLA, INS_PHP, INS_PLP, INS_JSR, INS_RTS,
        INS_BRK, INS_RTI, INS_JMP_ABS, INS_JMP_IND, INS_NOP}

ShiftFetchOps == UNION {Codes(INS_ASL), Codes(INS_ROL), Codes(INS_LSR), Codes(INS_ROR)}

(* All that the header names.                                              *)
Documented ==
  SwitchOps \cup ShiftFetchOps \cup BranchCodes \cup FlagCodes
    \cup UNION {Codes(INS_INC), Codes(INS_DEC), Codes(INS_ADC), Codes(INS_SBC),
                Codes(INS_CMP), Codes(INS_CPX), Codes(INS_CPY)}

-----------------------------------------------------------------------------
(* The guards of the six ifs behind the switch.  They are not else-ifs: an *)
(* opcode that two of them caught would run both bodies.                   *)
FlagOp(op)    == Aaa(op) # 4 /\ Bbb(op) = 6 /\ Cc(op) = 0
ShiftOp(op)   == Aaa(op) < 4 /\ Cc(op) = 2
AddOp(op)     == Aaa(op) \in {3, 7} /\ Cc(op) = 1
CompareOp(op) == \/ Cc(op) = 1 /\ Aaa(op) = 6
                 \/ Cc(op) = 0 /\ Aaa(op) > 5 /\ Bbb(op) < 4 /\ Bbb(op) # 2
IncDecOp_all(op) == Cc(op) = 2 /\ Aaa(op) > 5   \* mutant: bbb = 2 not excluded
IncDecOp(op)  == Cc(op) = 2 /\ Aaa(op) > 5 /\ Bbb(op) # 2
BranchOp(op)  == Cc(op) = 0 /\ Bbb(op) = 4

Blocks(op) == {b \in 1 .. 6 : \/ b = 1 /\ FlagOp(op)
                              \/ b = 2 /\ ShiftOp(op)
                              \/ b = 3 /\ AddOp(op)
                              \/ b = 4 /\ CompareOp(op)
                              \/ b = 5 /\ IncDecOp(op)
                              \/ b = 6 /\ BranchOp(op)}

(* The addressing mode that the ADC/SBC and CMP blocks select by bbb, and  *)
(* the one that the INC/DEC block selects.  "NONE": no case, addr stays.   *)
BbbMode(b) == <<"INDX", "ZP", "IM", "ABS", "INDY", "ZPX", "ABSY", "ABSX">>[b + 1]

IncDecMode(b) == CASE b = 1 -> "ZP"  [] b = 3 -> "ABS"
                   [] b = 5 -> "ZPX" [] b = 7 -> "ABSX" [] OTHER -> "NONE"
=============================================================================
