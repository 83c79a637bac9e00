---------------------------- MODULE Shell_proofs ----------------------------
(***************************************************************************)
(* Theorems about the shell and the program it ships.  The CPU's invariant *)
(* holds under the shell as under the CPU's own specification; run ends at *)
(* the program's end and nowhere else; and fibonacci.s, executed by the    *)
(* CPU instruction by instruction, computes what it says.                  *)
(***************************************************************************)
EXTENDS Shell, Program, Cpu6502_proofs

-----------------------------------------------------------------------------
(* The CPU under the shell.                                                *)

(* A step that leaves the CPU, data[] and the ROM alone, or only the       *)
(* objects behind data[].                                                  *)
LEMMA IdleOK ==
  ASSUME IInv, past' \in Past,
         UNCHANGED <<mem, PROGMEM, registers, call, locals, consumed>>,
         wild' = wild \/ wild' = TRUE
  PROVE  IInv'
<1>1. BusTypeOK'  BY DEF IInv, BusTypeOK
<1>2. RegsOK' /\ LocalsOK' /\ CountOK'
  BY DEF registers, locals, IInv, RegsOK, LocalsOK, CountOK, Budget, ClockContract
<1> QED  BY <1>1, <1>2 DEF IInv

(* What a step of the user or of the shell does to the machine.            *)
ShellMachine ==
  /\ past' \in Past
  /\ \/ UNCHANGED <<mem, PROGMEM, wild, registers, call, locals, consumed>>
     \/ Reset
     \/ \E n \in Int : ClockCall(n)

(* Every step of theirs is of this kind.                                   *)
LEMMA ShellMachineSteps == (past' \in Past /\ User) \/ ShellStep => ShellMachine
<1>1. \A n \in Requests : n \in Int  BY CpuAssumption
<1>2. 1 \in Int  OBVIOUS
<1>3. ASSUME User, past' \in Past PROVE ShellMachine
  <2>1. CASE reset_command  BY <1>3, <2>1 DEF reset_command, ShellMachine
  <2>2. CASE run_command  BY <1>3, <2>2 DEF run_command, ShellMachine
  <2>3. CASE \E n \in Requests : clock_command(n)
    BY <1>1, <1>3, <2>3 DEF clock_command, ShellMachine
  <2>4. CASE \E r \in Ranges : inspect_command(r[1], r[2])
    BY <1>3, <2>4 DEF inspect_command, Quiet, ShellMachine
  <2> QED  BY <1>3, <2>1, <2>2, <2>3, <2>4 DEF User
<1>4. ASSUME ShellStep PROVE ShellMachine
  BY <1>2, <1>4
  DEF ShellStep, main, clock_command_done, run_clock, run_count, run_end,
      inspect_byte, inspect_end, Quiet, ShellMachine
<1> QED  BY <1>3, <1>4

(* Such a step keeps the CPU's invariant.                                  *)
LEMMA ShellMachineOK == ASSUME IInv, ShellMachine PROVE IInv'
<1>1. CASE Reset \/ \E n \in Int : ClockCall(n)
  BY <1>1, ResetOK, CallOK DEF ShellMachine
<1>2. CASE UNCHANGED <<mem, PROGMEM, wild, registers, call, locals, consumed>>
  BY <1>2, IdleOK DEF ShellMachine
<1> QED  BY <1>1, <1>2 DEF ShellMachine

-----------------------------------------------------------------------------
(* run makes calls of one cycle, and a call that has returned has consumed *)
(* at least one: the test for a call that consumed none never ends run.    *)
OneCycle == /\ cmd = "run_call" => requested = 1 /\ call \in {"clock", "idle"}
            /\ cmd # "run_end"

(* The invariant of the shell and its CPU.                                 *)
ShellInv == IInv /\ OneCycle

(* It holds at the start and is kept by every step.                        *)
LEMMA ShellInvariance == ShellSpec => []ShellInv
<1>1. ShellInit => ShellInv  BY InitIInv DEF ShellInit, ShellInv, OneCycle
<1>2. ShellInv /\ [ShellNext]_svars => ShellInv'
  <2> SUFFICES ASSUME ShellInv, [ShellNext]_svars PROVE ShellInv'  OBVIOUS
  <2>1. CASE past' \in Past /\ User
    <3>1. IInv'  BY <2>1, ShellMachineSteps, ShellMachineOK DEF ShellInv
    <3>2. cmd' \notin {"run_call", "run_end"}
      BY <2>1 DEF User, reset_command, run_command, clock_command, inspect_command
    <3> QED  BY <3>1, <3>2 DEF ShellInv, OneCycle
  <2>2. CASE ShellStep
    <3>1. IInv'  BY <2>2, ShellMachineSteps, ShellMachineOK DEF ShellInv
    <3>2. CASE run_clock
      BY <3>1, <3>2 DEF run_clock, ClockCall, ShellInv, OneCycle
    <3>3. CASE run_count
      <4>1. requested = 1 /\ consumed - requested \in 0 .. 6 /\ consumed \in Int
        BY <3>3 DEF run_count, ShellInv, OneCycle, IInv, CountOK, Budget, ClockContract
      <4>2. consumed # 0  BY <4>1
      <4> QED  BY <3>1, <3>3, <4>2 DEF run_count, ShellInv, OneCycle
    <3>4. CASE main \/ clock_command_done \/ run_end \/ inspect_byte \/ inspect_end
      <4>1. cmd' \notin {"run_call", "run_end"}
        BY <3>4 DEF main, clock_command_done, run_end, inspect_byte, inspect_end
      <4> QED  BY <3>1, <4>1 DEF ShellInv, OneCycle
    <3> QED  BY <2>2, <3>2, <3>3, <3>4 DEF ShellStep
  <2>3. CASE CpuStep
    <3>1. IInv'  BY <2>3, ExecuteOK, ReturnOK DEF CpuStep, Step, ShellInv
    <3>2. requested' = requested /\ call' \in {"clock", "idle"} /\ cmd' = cmd
      <4>1. CASE Instruction
        <5>1. \E pc, cost : Retire(pc, cost)
          BY <4>1, ExecuteCharges DEF Instruction
        <5> QED  BY <2>3, <4>1, <5>1 DEF Retire, Instruction, CpuStep
      <4>2. CASE ClockReturn  BY <2>3, <4>2 DEF ClockReturn, CpuStep
      <4> QED  BY <2>3, <4>1, <4>2 DEF CpuStep, Step
    <3> QED  BY <3>1, <3>2 DEF ShellInv, OneCycle
  <2>4. CASE UNCHANGED svars
    <3>1. past' \in Past  BY <2>4 DEF svars, vars, ShellInv, IInv, BusTypeOK
    <3>2. IInv'  BY <2>4, <3>1, IdleOK DEF svars, vars, ShellInv
    <3> QED  BY <2>4, <3>2 DEF svars, vars, locals, ShellInv, OneCycle
  <2> QED  BY <2>1, <2>2, <2>3, <2>4 DEF ShellNext
<1> QED  BY <1>1, <1>2, PTL DEF ShellSpec

(* So run ends where PC is the address it has read.                        *)
LEMMA RunEnds ==
  ASSUME ShellInv, ShellNext, InRun, cmd' = "prompt" PROVE PC = irq_address
<1>1. run_end
  BY DEF ShellNext, User, reset_command, run_command, clock_command, inspect_command,
     ShellStep, CpuStep, main, clock_command_done, run_clock, run_count,
     inspect_byte, inspect_end, InRun
<1> QED  BY <1>1 DEF run_end, run_loop, ShellInv, OneCycle

(* Whatever the program is, run's test for a call of olc6502_clock that    *)
(* consumed nothing is never true: run ends where PC is the address that   *)
(* it has read from the IRQ vector, or not at all.                         *)
THEOREM RunEndsAtVector ==
  ShellSpec => [][InRun /\ cmd' = "prompt" => PC = irq_address]_svars
<1>1. ShellInv /\ [ShellNext]_svars
        => [InRun /\ cmd' = "prompt" => PC = irq_address]_svars
  BY RunEnds
<1> QED  BY <1>1, ShellInvariance, PTL DEF ShellSpec

-----------------------------------------------------------------------------
(* fibonacci.s in the program ROM.                                         *)

(* The 36 bytes of the code, where the CPU reads them.                     *)
LEMMA RomByte ==
  ASSUME PROGMEM = Fibonacci, NEW o \in Nat, o < 36
  PROVE  bus_read_byte(\h8000 + o) = FibonacciCode[o + 1]
<1> DEFINE a == \h8000 + o
<1>1. a \div \h2000 = 4  BY SMT
<1>2. decode_address(a) = o
  BY <1>1 DEF decode_address, CE, CE_CPU_RAM, CE_PPU, CE_EXPANSION, CE_SRAM,
              chip_select_prg_rom, PRG_ROM_START
<1>3. a >= PRG_ROM_START  BY DEF PRG_ROM_START
<1> HIDE DEF a
<1>4. bus_read_byte(a) = progmem_get(o)  BY <1>2, <1>3 DEF bus_read_byte
<1>5. ~(o >= PRG_ROM_SIZE)  BY DEF PRG_ROM_SIZE
<1>6. Len(FibonacciCode) = 36  BY DEF FibonacciCode
<1>7. o \in DOMAIN Fibonacci /\ Fibonacci[o] = FibonacciCode[o + 1]
  BY <1>6 DEF Fibonacci
<1> QED  BY <1>4, <1>5, <1>7 DEF progmem_get, a

(* The two vectors that the shell and the CPU read, and the jump's target. *)
LEMMA RomVectors ==
  ASSUME PROGMEM = Fibonacci
  PROVE  /\ bus_read_word(RESET_VECTOR) = \h8000 /\ bus_read_word(IRQ_VECTOR) = \h8021
         /\ bus_read_word(\h8022) = \h8021
<1>1. \hFFFC \div \h2000 = 7 /\ \hFFFE \div \h2000 = 7 /\ \h8022 \div \h2000 = 4  BY SMT
<1>2. /\ decode_address(RESET_VECTOR) = \h7FFC /\ decode_address(IRQ_VECTOR) = \h7FFE
      /\ decode_address(\h8022) = \h22
  BY <1>1 DEF decode_address, CE, CE_CPU_RAM, CE_PPU, CE_EXPANSION, CE_SRAM,
              chip_select_prg_rom, PRG_ROM_START, RESET_VECTOR, IRQ_VECTOR
<1>3. /\ progmem_get(\h7FFC) = \h00 /\ progmem_get(\h7FFD) = \h80
      /\ progmem_get(\h7FFE) = \h21 /\ progmem_get(\h7FFF) = \h80
  BY DEF progmem_get, PRG_ROM_SIZE, Fibonacci, FibonacciVectors
<1>4. progmem_get(\h22) = \h21 /\ progmem_get(\h23) = \h80
  BY DEF progmem_get, PRG_ROM_SIZE, Fibonacci, FibonacciCode
<1>5. /\ RESET_VECTOR >= PRG_ROM_START /\ IRQ_VECTOR >= PRG_ROM_START
      /\ \h8022 >= PRG_ROM_START
  BY DEF RESET_VECTOR, IRQ_VECTOR, PRG_ROM_START
<1> QED  BY <1>2, <1>3, <1>4, <1>5 DEF bus_read_word, Word

-----------------------------------------------------------------------------
(* The instructions that fibonacci.s uses.                                 *)

(* The opcode decides which disjunct of Execute a step is.                 *)
LEMMA WhichInstruction ==
  ASSUME Execute
  PROVE  /\ opcode \in {\hA2, \hA6} => LDX
         /\ opcode = \hA0 => LDY
         /\ opcode = \hA9 => LDA
         /\ opcode = \h85 => STA
         /\ opcode = \h86 => STX
         /\ opcode \in {\h98, \hA8, \h88, \h8A} => Transfer
         /\ opcode = \h4C => JMP_ABS
         /\ opcode \in {\h38, \h18} => FLAG
         /\ opcode \in {\hE9, \h65} => ADC_SBC
         /\ opcode = \hC9 => CMP
         /\ opcode \in {\hD0, \hF0} => BRANCH
<1> DEFINE Used == {\hA2, \hA6, \hA0, \hA9, \h85, \h86, \h98, \hA8, \h88, \h8A, \h4C,
                    \h38, \h18, \hE9, \h65, \hC9, \hD0, \hF0}
<1> SUFFICES ASSUME opcode \in Used
             PROVE  /\ opcode \in {\hA2, \hA6} => LDX
                    /\ opcode = \hA0 => LDY
                    /\ opcode = \hA9 => LDA
                    /\ opcode = \h85 => STA
                    /\ opcode = \h86 => STX
                    /\ opcode \in {\h98, \hA8, \h88, \h8A} => Transfer
                    /\ opcode = \h4C => JMP_ABS
                    /\ opcode \in {\h38, \h18} => FLAG
                    /\ opcode \in {\hE9, \h65} => ADC_SBC
                    /\ opcode = \hC9 => CMP
                    /\ opcode \in {\hD0, \hF0} => BRANCH
  OBVIOUS
<1>1. LDX => opcode \in {\hA2, \hA6}  BY DEF LDX, INS_LDX
<1>2. LDY => opcode = \hA0  BY DEF LDY, INS_LDY
<1>3. LDA => opcode = \hA9  BY DEF LDA, INS_LDA
<1>4. STA => opcode = \h85  BY DEF STA, INS_STA
<1>5. STX => opcode = \h86  BY DEF STX, INS_STX
<1>6. ~STY  BY DEF STY, INS_STY
<1>7. ~AND  BY DEF AND, INS_AND
<1>8. ~ORA  BY DEF ORA, INS_ORA
<1>9. ~EOR /\ ~BIT  BY DEF EOR, BIT, INS_EOR, INS_BIT
<1>10. Transfer => opcode \in {\h98, \hA8, \h88, \h8A}
  BY DEF Transfer, INS_TAX, INS_TAY, INS_TXA, INS_TYA, INS_INX, INS_DEX, INS_INY,
         INS_DEY, INS_NOP
<1>11. ~(PHA \/ PHP \/ PLA \/ PLP \/ TXS \/ TSX \/ JMP_IND \/ JSR \/ RTS \/ BRK \/ RTI)
  BY DEF PHA, PHP, PLA, PLP, TXS, TSX, JMP_IND, JSR, RTS, BRK, RTI, INS_PHA, INS_PHP,
         INS_PLA, INS_PLP, INS_TXS, INS_TSX, INS_JMP_IND, INS_JSR, INS_RTS, INS_BRK,
         INS_RTI
<1>12. JMP_ABS => opcode = \h4C  BY DEF JMP_ABS, INS_JMP_ABS
<1>13. /\ FlagOp(opcode) => opcode \in {\h38, \h18}
       /\ AddOp(opcode) => opcode \in {\hE9, \h65}
       /\ CompareOp(opcode) => opcode = \hC9
       /\ BranchOp(opcode) => opcode \in {\hD0, \hF0}
       /\ ~ShiftOp(opcode) /\ ~IncDecOp(opcode)
  BY DEF FlagOp, ShiftOp, AddOp, CompareOp, IncDecOp, BranchOp, Aaa, Bbb, Cc
<1>14. opcode \in SwitchOps \/ Blocks(opcode) # {}
  <2>1. /\ opcode \in {\h38, \h18} => FlagOp(opcode)
        /\ opcode \in {\hE9, \h65} => AddOp(opcode)
        /\ opcode = \hC9 => CompareOp(opcode)
        /\ opcode \in {\hD0, \hF0} => BranchOp(opcode)
    BY DEF FlagOp, AddOp, CompareOp, BranchOp, Aaa, Bbb, Cc
  <2>2. CASE opcode \in {\h38, \h18, \hE9, \h65, \hC9, \hD0, \hF0}
    BY <2>1, <2>2 DEF Blocks
  <2>3. CASE opcode \in {\hA2, \hA6, \hA0, \hA9, \h85, \h86}
    <3>1. /\ opcode \in {\hA2, \hA6} => opcode \in Codes(INS_LDX)
          /\ opcode = \hA0 => opcode \in Codes(INS_LDY)
          /\ opcode = \hA9 => opcode \in Codes(INS_LDA)
          /\ opcode = \h85 => opcode \in Codes(INS_STA)
          /\ opcode = \h86 => opcode \in Codes(INS_STX)
      BY DEF Codes, INS_LDX, INS_LDY, INS_LDA, INS_STA, INS_STX
    <3> QED  BY <2>3, <3>1 DEF SwitchOps
  <2>4. CASE opcode \in {\h98, \hA8, \h88, \h8A, \h4C}
    BY <2>4 DEF SwitchOps, INS_TYA, INS_TAY, INS_DEY, INS_TXA, INS_JMP_ABS
  <2> QED  BY <2>2, <2>3, <2>4
<1>15. ~UNDEFINED  BY <1>14 DEF UNDEFINED, Undefined
<1>16. /\ FLAG => opcode \in {\h38, \h18}
       /\ ADC_SBC => opcode \in {\hE9, \h65}
       /\ CMP => opcode = \hC9
       /\ BRANCH => opcode \in {\hD0, \hF0}
       /\ ~SHIFT /\ ~INC_DEC
  BY <1>13 DEF FLAG, ADC_SBC, CMP, BRANCH, SHIFT, INC_DEC
<1> HIDE DEF Used
<1> QED
  BY <1>1, <1>2, <1>3, <1>4, <1>5, <1>6, <1>7, <1>8, <1>9, <1>10, <1>11, <1>12,
     <1>15, <1>16 DEF Execute

(* The instruction is n bytes long, and leaves the stack pointer, the ROM  *)
(* and (Still) data[] alone; it leaves the flags C and Z alone.            *)
Advances(n) == PC' = U16(PC + n) /\ SP' = SP /\ PROGMEM' = PROGMEM
Still       == mem' = mem
SameCarry   == (C \in PS') = (C \in PS)
SameZero    == (Z \in PS') = (Z \in PS)

(* The flags after the interrupt flag is in, and after a load of r.        *)
LEMMA CarryAndZero ==
  /\ (C \in PS1) = (C \in PS) /\ (Z \in PS1) = (Z \in PS)
  /\ \A ps, r : (C \in ZN(ps, r)) = (C \in ps) /\ (Z \in ZN(ps, r)) = (r = 0)
  BY DEF PS1, SetFlag, ZN, C, Z, N, I

(* ldx, ldy and lda of an immediate byte, and ldx of a byte of page zero.  *)
LEMMA LoadSteps ==
  ASSUME Execute, opcode \in {\hA2, \hA6, \hA0, \hA9}
  PROVE  /\ Advances(2) /\ Still /\ SameCarry
         /\ opcode = \hA2 => X' = operand /\ UNCHANGED <<A, Y>>
         /\ opcode = \hA6 => X' = bus_read_byte(operand) /\ UNCHANGED <<A, Y>>
         /\ opcode = \hA0 => Y' = operand /\ UNCHANGED <<A, X>>
         /\ opcode = \hA9 => A' = operand /\ UNCHANGED <<X, Y>>
<1>1. After("IM") = U16(PC + 2) /\ After("ZP") = U16(PC + 2)  BY DEF After, Absolute
<1>2. Value("IM") = operand /\ Value("ZP") = bus_read_byte(operand)
  BY DEF Value, EA, Base
<1>3. CASE opcode \in {\hA2, \hA6}
  <2> DEFINE m == IF opcode = \hA2 THEN "IM" ELSE "ZP"
  <2>1. LoadX(Value(m)) /\ PC' = After(m) /\ SP' = SP /\ PROGMEM' = PROGMEM /\ Still
    BY <1>3, WhichInstruction DEF LDX, INS_LDX, Retire, NoStack, NoStore, Still
  <2> QED  BY <1>1, <1>2, <1>3, <2>1, CarryAndZero DEF LoadX, Advances, SameCarry
<1>4. CASE opcode = \hA0
  <2>1. /\ LoadY(Value("IM")) /\ PC' = After("IM") /\ SP' = SP /\ PROGMEM' = PROGMEM
        /\ Still
    BY <1>4, WhichInstruction DEF LDY, INS_LDY, Retire, NoStack, NoStore, Still
  <2> QED  BY <1>1, <1>2, <1>4, <2>1, CarryAndZero DEF LoadY, Advances, SameCarry
<1>5. CASE opcode = \hA9
  <2>1. /\ LoadA(Value("IM")) /\ PC' = After("IM") /\ SP' = SP /\ PROGMEM' = PROGMEM
        /\ Still
    BY <1>5, WhichInstruction DEF LDA, INS_LDA, Retire, NoStack, NoStore, Still
  <2> QED
    BY <1>1, <1>2, <1>5, <2>1, CarryAndZero DEF LoadA, NoIndex, Advances, SameCarry
<1> QED  BY <1>3, <1>4, <1>5

(* sta and stx of a byte of page zero.                                     *)
LEMMA StoreSteps ==
  ASSUME Execute, opcode \in {\h85, \h86}
  PROVE  /\ Advances(2) /\ SameCarry /\ UNCHANGED <<A, X, Y>>
         /\ opcode = \h85 => bus_write_byte(operand, A)
         /\ opcode = \h86 => bus_write_byte(operand, X)
<1>1. After("ZP") = U16(PC + 2) /\ EA("ZP") = operand  BY DEF After, Absolute, EA, Base
<1>2. CASE opcode = \h85
  <2>1. \E modes : Store("ZP", A, modes)  BY <1>2, WhichInstruction DEF STA, INS_STA
  <2> QED
    BY <1>1, <1>2, <2>1, CarryAndZero
    DEF Store, Retire, SameRegs, NoStack, Advances, SameCarry
<1>3. CASE opcode = \h86
  <2>1. \E modes : Store("ZP", X, modes)  BY <1>3, WhichInstruction DEF STX, INS_STX
  <2> QED
    BY <1>1, <1>3, <2>1, CarryAndZero
    DEF Store, Retire, SameRegs, NoStack, Advances, SameCarry
<1> QED  BY <1>2, <1>3

(* tya, tay, txa and dey.                                                  *)
LEMMA TransferSteps ==
  ASSUME Execute, opcode \in {\h98, \hA8, \h8A, \h88}
  PROVE  /\ PC' = PC1 /\ SP' = SP /\ PROGMEM' = PROGMEM /\ Still /\ SameCarry
         /\ opcode = \h98 => A' = Y /\ UNCHANGED <<X, Y>>
         /\ opcode = \hA8 => Y' = A /\ UNCHANGED <<A, X>>
         /\ opcode = \h8A => A' = X /\ UNCHANGED <<X, Y>>
         /\ opcode = \h88 => Y' = U8(Y - 1) /\ UNCHANGED <<A, X>> /\ (Z \in PS') = (Y' = 0)
<1>1. /\ Transfer /\ Implied
      /\ opcode = \h98 => LoadA(Y)
      /\ opcode = \hA8 => LoadY(A)
      /\ opcode = \h8A => LoadA(X)
      /\ opcode = \h88 => LoadY(U8(Y - 1))
  BY WhichInstruction
  DEF Transfer, INS_TAX, INS_TAY, INS_TXA, INS_TYA, INS_INX, INS_DEX, INS_INY,
      INS_DEY, INS_NOP
<1>2. PC' = PC1 /\ SP' = SP /\ PROGMEM' = PROGMEM /\ Still
  BY <1>1 DEF Implied, Retire, NoStack, NoStore, Still
<1> QED
  BY <1>1, <1>2, CarryAndZero DEF LoadA, LoadY, NoIndex, SameCarry

(* sec and clc.                                                            *)
LEMMA FlagSteps ==
  ASSUME Execute, opcode \in {\h38, \h18}
  PROVE  /\ PC' = PC1 /\ SP' = SP /\ PROGMEM' = PROGMEM /\ Still /\ UNCHANGED <<A, X, Y>>
         /\ (C \in PS') = (opcode = \h38)
<1>1. FLAG  BY WhichInstruction
<1>2. \h38 \div 32 = 1 /\ \h18 \div 32 = 0  BY SMT
<1>3. aaa = IF opcode = \h38 THEN 1 ELSE 0  BY <1>2 DEF aaa, Aaa
<1>4. aaa \div 2 = 0 /\ (aaa % 2 = 1) = (opcode = \h38)  BY <1>3
<1>5. PS' = SetFlag(PS1, C, opcode = \h38)  BY <1>1, <1>4 DEF FLAG
<1> QED  BY <1>1, <1>5 DEF FLAG, Retire, NoStore, Still, SetFlag

(* sbc of an immediate byte, and adc of a byte of page zero.               *)
LEMMA AddSteps ==
  ASSUME Execute, opcode \in {\hE9, \h65}
  PROVE  /\ Advances(2) /\ Still /\ UNCHANGED <<X, Y>>
         /\ opcode = \hE9 =>
              LET s == U16(A + U16(65536 - operand) + BitOf(PS, C))
              IN  A' = U8(s) /\ (C \in PS') = (s > 255)
         /\ opcode = \h65 =>
              LET s == U16(A + bus_read_byte(operand) + BitOf(PS, C))
              IN  A' = U8(s) /\ (C \in PS') = (s > 255)
<1>1. ADC_SBC  BY WhichInstruction
<1>2. /\ aaa = IF opcode = \hE9 THEN 7 ELSE 3
      /\ bbb = IF opcode = \hE9 THEN 2 ELSE 1
  BY DEF aaa, bbb, Aaa, Bbb
<1>3. BbbMode(bbb) = IF opcode = \hE9 THEN "IM" ELSE "ZP"  BY <1>2 DEF BbbMode
<1>4. After(BbbMode(bbb)) = U16(PC + 2)  BY <1>3 DEF After, Absolute
<1> DEFINE f == Value(BbbMode(bbb))
<1>5. f = IF opcode = \hE9 THEN operand ELSE bus_read_byte(operand)
  BY <1>3 DEF Value, EA, Base
<1>6. Addend(f) = IF opcode = \hE9 THEN U16(65536 - f) ELSE f  BY <1>2 DEF Addend
<1>7. BitOf(PS1, C) = BitOf(PS, C)  BY CarryAndZero DEF BitOf
<1>8. Sum(f) = U16(A + Addend(f) + BitOf(PS, C))  BY <1>7 DEF Sum
<1>9. /\ A' = U8(Sum(f)) /\ PC' = U16(PC + 2) /\ SP' = SP /\ PROGMEM' = PROGMEM /\ Still
      /\ UNCHANGED <<X, Y>>
      /\ \E ps : PS' = ZN(SetFlag(ps, C, Sum(f) > 255), U8(Sum(f)))
  BY <1>1, <1>4 DEF ADC_SBC, Retire, NoIndex, NoStack, NoStore, Still
<1>10. (C \in PS') = (Sum(f) > 255)
  <2> DEFINE on == Sum(f) > 255
  <2>1. on \in BOOLEAN  OBVIOUS
  <2> HIDE DEF on
  <2>2. \A ps : (C \in SetFlag(ps, C, on)) = on  BY <2>1 DEF SetFlag
  <2>3. (C \in PS') = on  BY <1>9, <2>2, CarryAndZero DEF on
  <2> QED  BY <2>3 DEF on
<1> HIDE DEF f
<1> QED  BY <1>5, <1>6, <1>8, <1>9, <1>10 DEF Advances

(* cmp of an immediate byte.                                               *)
LEMMA CompareSteps ==
  ASSUME Execute, opcode = \hC9
  PROVE  /\ Advances(2) /\ Still /\ UNCHANGED <<A, X, Y>>
         /\ (Z \in PS') = (U8(A - operand) = 0)
<1>1. CMP  BY WhichInstruction
<1>2. bbb = 2 /\ Cc(opcode) = 1  BY DEF bbb, Bbb, Cc
<1>3. BbbMode(bbb) = "IM"  BY <1>2 DEF BbbMode
<1>4. After("IM") = U16(PC + 2) /\ Value("IM") = operand  BY DEF After, Absolute, Value
<1>5. \E ps : PS' = ZN(ps, U8(A - operand))  BY <1>1, <1>2, <1>3, <1>4 DEF CMP
<1>6. Advances(2) /\ Still /\ UNCHANGED <<A, X, Y>>
  BY <1>1, <1>3, <1>4 DEF CMP, Retire, NoStack, NoStore, Still, Advances
<1> QED  BY <1>5, <1>6, CarryAndZero

(* bne and beq.                                                            *)
LEMMA BranchSteps ==
  ASSUME Execute, opcode \in {\hD0, \hF0}
  PROVE  /\ SP' = SP /\ PROGMEM' = PROGMEM /\ Still /\ UNCHANGED <<A, X, Y>>
         /\ SameCarry /\ SameZero
         /\ PC' = IF (Z \in PS) = (opcode = \hF0)
                  THEN U16(U16(PC + 2) + Signed(operand)) ELSE U16(PC + 2)
<1>1. BRANCH  BY WhichInstruction
<1>2. aaa = IF opcode = \hF0 THEN 7 ELSE 6  BY DEF aaa, Aaa
<1>3. aaa \div 2 = 3 /\ (aaa % 2 = 1) = (opcode = \hF0)  BY <1>2
<1>4. should_branch = ((Z \in PS1) = (opcode = \hF0))  BY <1>3 DEF should_branch
<1>5. PC' = IF should_branch THEN U16(U16(PC + 2) + Signed(operand)) ELSE U16(PC + 2)
  BY <1>1 DEF BRANCH, Retire
<1>6. SP' = SP /\ PROGMEM' = PROGMEM /\ Still /\ UNCHANGED <<A, X, Y>> /\ PS' = PS1
  BY <1>1 DEF BRANCH, Retire, SameRegs, NoStack, NoStore, Still
<1>7. SameCarry /\ SameZero  BY <1>6, CarryAndZero DEF SameCarry, SameZero
<1>8. ((Z \in PS1) = (opcode = \hF0)) = ((Z \in PS) = (opcode = \hF0))
  BY CarryAndZero
<1> DEFINE there == U16(U16(PC + 2) + Signed(operand))
           next  == U16(PC + 2)
<1> HIDE DEF there, next
<1>9. PC' = IF (Z \in PS) = (opcode = \hF0) THEN there ELSE next
  BY <1>4, <1>5, <1>8 DEF there, next
<1> QED  BY <1>6, <1>7, <1>9 DEF there, next

(* jmp.                                                                    *)
LEMMA JumpSteps ==
  ASSUME Execute, opcode = \h4C
  PROVE  /\ SP' = SP /\ PROGMEM' = PROGMEM /\ Still /\ UNCHANGED <<A, X, Y>>
         /\ SameCarry /\ SameZero
         /\ PC' = operand16
  BY WhichInstruction, CarryAndZero
  DEF JMP_ABS, Retire, SameRegs, NoStack, NoStore, Still, SameCarry, SameZero

-----------------------------------------------------------------------------
(* What fibonacci.s computes.                                              *)

(* The two cells of page zero that it uses.                                *)
First  == memory_get(0)
Second == memory_get(1)

(* They are read and stored through the bus.                               *)
LEMMA Cells ==
  /\ bus_read_byte(0) = First /\ bus_read_byte(1) = Second
  /\ \A v : bus_write_byte(0, v) => First' = v /\ Second' = Second
  /\ \A v : bus_write_byte(1, v) => First' = First /\ Second' = v
<1>1. 0 % \h800 = 0 /\ 1 % \h800 = 1 /\ 0 \div \h2000 = 0 /\ 1 \div \h2000 = 0  BY SMT
<1>2. decode_address(0) = 0 /\ decode_address(1) = 1
  BY <1>1
  DEF decode_address, CE, CE_CPU_RAM, CE_PPU, CE_EXPANSION, CE_SRAM,
      chip_select_cpu_ram, M6502_RAM_SIZE
<1>3. TOTAL_MEMORY_SIZE \in Nat /\ TOTAL_MEMORY_SIZE > 1
  BY BusAssumption DEF TOTAL_MEMORY_SIZE, M6502_RAM_SIZE, PPU_REGISTERS_SIZE, SRAM_SIZE
<1>4. bus_read_byte(0) = First /\ bus_read_byte(1) = Second
  BY <1>2 DEF bus_read_byte, PRG_ROM_START, First, Second
<1>5. ASSUME NEW n \in {0, 1}, NEW v, bus_write_byte(n, v)
      PROVE  mem' = memory_set(mem, n, v)
  BY <1>2, <1>3, <1>5 DEF bus_write_byte
<1>6. TOTAL_MEMORY_SIZE' = TOTAL_MEMORY_SIZE
  BY DEF TOTAL_MEMORY_SIZE, M6502_RAM_SIZE, PPU_REGISTERS_SIZE, SRAM_SIZE
<1>7. ASSUME NEW n \in {0, 1}, NEW v, mem' = memory_set(mem, n, v)
      PROVE  /\ First' = IF n = 0 THEN v ELSE First
             /\ Second' = IF n = 1 THEN v ELSE Second
  BY <1>3, <1>6, <1>7 DEF First, Second, memory_get, memory_set
<1> QED  BY <1>4, <1>5, <1>7

(* An instruction that does not store leaves them alone.                   *)
LEMMA StillCells == Still => First' = First /\ Second' = Second
<1>1. TOTAL_MEMORY_SIZE' = TOTAL_MEMORY_SIZE
  BY DEF TOTAL_MEMORY_SIZE, M6502_RAM_SIZE, PPU_REGISTERS_SIZE, SRAM_SIZE
<1>2. TOTAL_MEMORY_SIZE \in Nat /\ TOTAL_MEMORY_SIZE > 1
  BY BusAssumption DEF TOTAL_MEMORY_SIZE, M6502_RAM_SIZE, PPU_REGISTERS_SIZE, SRAM_SIZE
<1> QED  BY <1>1, <1>2 DEF Still, First, Second, memory_get

(* The numbers, and what adc gives in round k: the last sum, 377, is not a *)
(* byte, and is not used.                                                  *)
Numbers  == << 1, 2, 3, 5, 8, 13, 21, 34, 55, 89, 144, 233 >>
Added(k) == IF k < 11 THEN Numbers[k + 2] ELSE 121

(* Every number but the first two is the sum of the two before it.         *)
LEMMA Sums ==
  ASSUME NEW k \in 1 .. 11
  PROVE  /\ U8(U16(Numbers[k + 1] + Numbers[k])) = Added(k)
         /\ k < 11 => ~(U16(Numbers[k + 1] + Numbers[k]) > 255)
         /\ Added(k) \in Int /\ Numbers[k] \in Int /\ Numbers[k + 1] \in Int
  BY DEF Numbers, Added, U8, U16

(* What the registers and the cells hold at the head of the loop in round  *)
(* k, and between adc and bne.                                             *)
Round(k)  == /\ Y = 12 - k /\ First = Numbers[k] /\ Second = Numbers[k + 1]
            /\ A = Numbers[k + 1] /\ C \notin PS
Summed(k) == /\ X = Numbers[k + 1] /\ A = Added(k)
             /\ k < 11 => C \notin PS

(* The state at each address of the program.                               *)
Entry == \/ PC = \h8000
         \/ PC = \h8002 /\ X = 1
         \/ PC = \h8004 /\ First = 1
         \/ PC = \h8005 /\ First = 1 /\ C \in PS
         \/ PC = \h8007 /\ First = 1 /\ C \in PS /\ Y = 13
         \/ PC = \h8008 /\ First = 1 /\ C \in PS /\ A = 13
         \/ PC = \h800A /\ First = 1 /\ A = 11
         \/ PC = \h800B /\ First = 1 /\ Y = 11
         \/ PC = \h800C /\ First = 1 /\ Y = 11 /\ C \notin PS
         \/ PC = \h800E /\ First = 1 /\ Y = 11 /\ C \notin PS /\ A = 2

Loop == \E k \in 1 .. 11 :
          \/ PC = \h8010 /\ Round(k)
          \/ PC = \h8012 /\ Round(k) /\ X = Numbers[k + 1]
          \/ PC = \h8014 /\ Summed(k) /\ Y = 12 - k
          \/ PC = \h8016 /\ Summed(k) /\ Y = 12 - k /\ Second = Added(k)
          \/ PC = \h8018 /\ Summed(k) /\ Y = 12 - k /\ Second = Added(k) /\ First = X
          \/ PC = \h8019 /\ Summed(k) /\ Y = 11 - k /\ Second = Added(k) /\ First = X
                         /\ (Z \in PS) = (Y = 0)

Exit == /\ X = \hE9
        /\ \/ PC = \h801B
           \/ PC = \h801C /\ A = \hE9
           \/ PC \in {\h801E, \h8021} /\ A = \hE9 /\ Z \in PS

(* The instruction at each address.                                        *)
LEMMA Fetched ==
  ASSUME PROGMEM = Fibonacci, NEW o \in Nat, o < 35, PC = \h8000 + o
  PROVE  /\ opcode = FibonacciCode[o + 1] /\ operand = FibonacciCode[o + 2]
         /\ PC1 = \h8001 + o /\ U16(PC + 1) = \h8001 + o /\ U16(PC + 2) = \h8002 + o
<1>1. U16(PC + 1) = \h8001 + o /\ U16(PC + 2) = \h8002 + o  BY DEF U16
<1>2. PC1 = \h8001 + o  BY <1>1 DEF PC1
<1>3. opcode = FibonacciCode[o + 1]  BY RomByte DEF opcode
<1>4. bus_read_byte(\h8000 + (o + 1)) = FibonacciCode[(o + 1) + 1]
  <2> DEFINE n == o + 1
  <2>1. n \in Nat /\ n < 36  OBVIOUS
  <2> HIDE DEF n
  <2>2. bus_read_byte(\h8000 + n) = FibonacciCode[n + 1]  BY <2>1, RomByte
  <2> QED  BY <2>2 DEF n
<1>5. PC1 = \h8000 + (o + 1) /\ (o + 1) + 1 = o + 2  BY <1>2
<1>6. operand = FibonacciCode[o + 2]  BY <1>4, <1>5 DEF operand
<1> QED  BY <1>1, <1>2, <1>3, <1>6

(* The instructions in front of the loop.                                  *)
LEMMA EntrySteps ==
  ASSUME PROGMEM = Fibonacci, Execute, Entry
  PROVE  (Entry \/ Loop)' /\ SP' = SP /\ PROGMEM' = PROGMEM
<1>1. CASE PC = \h8000
  <2>1. PC = \h8000 + 0  BY <1>1
  <2>2. opcode = \hA2 /\ operand = \h01 /\ U16(PC + 2) = \h8002
    BY <2>1, Fetched DEF FibonacciCode
  <2> QED  BY <2>2, LoadSteps DEF Advances, Entry
<1>2. CASE PC = \h8002 /\ X = 1
  <2>1. opcode = \h86 /\ operand = \h00 /\ U16(PC + 2) = \h8004
    BY <1>2, Fetched DEF FibonacciCode
  <2> QED  BY <1>2, <2>1, StoreSteps, Cells DEF Advances, Entry
<1>3. CASE PC = \h8004 /\ First = 1
  <2>1. opcode = \h38 /\ PC1 = \h8005  BY <1>3, Fetched DEF FibonacciCode
  <2> QED  BY <1>3, <2>1, FlagSteps, StillCells DEF Entry
<1>4. CASE PC = \h8005 /\ First = 1 /\ C \in PS
  <2>1. opcode = \hA0 /\ operand = \h0D /\ U16(PC + 2) = \h8007
    BY <1>4, Fetched DEF FibonacciCode
  <2> QED  BY <1>4, <2>1, LoadSteps, StillCells DEF Advances, SameCarry, Entry
<1>5. CASE PC = \h8007 /\ First = 1 /\ C \in PS /\ Y = 13
  <2>1. opcode = \h98 /\ PC1 = \h8008  BY <1>5, Fetched DEF FibonacciCode
  <2> QED  BY <1>5, <2>1, TransferSteps, StillCells DEF SameCarry, Entry
<1>6. CASE PC = \h8008 /\ First = 1 /\ C \in PS /\ A = 13
  <2>1. opcode = \hE9 /\ operand = \h03 /\ U16(PC + 2) = \h800A
    BY <1>6, Fetched DEF FibonacciCode
  <2>2. U8(U16(A + U16(65536 - operand) + BitOf(PS, C))) = 11
    BY <1>6, <2>1 DEF U8, U16, BitOf
  <2> QED  BY <1>6, <2>1, <2>2, AddSteps, StillCells DEF Advances, Entry
<1>7. CASE PC = \h800A /\ First = 1 /\ A = 11
  <2>1. opcode = \hA8 /\ PC1 = \h800B  BY <1>7, Fetched DEF FibonacciCode
  <2> QED  BY <1>7, <2>1, TransferSteps, StillCells DEF Entry
<1>8. CASE PC = \h800B /\ First = 1 /\ Y = 11
  <2>1. opcode = \h18 /\ PC1 = \h800C  BY <1>8, Fetched DEF FibonacciCode
  <2> QED  BY <1>8, <2>1, FlagSteps, StillCells DEF Entry
<1>9. CASE PC = \h800C /\ First = 1 /\ Y = 11 /\ C \notin PS
  <2>1. opcode = \hA9 /\ operand = \h02 /\ U16(PC + 2) = \h800E
    BY <1>9, Fetched DEF FibonacciCode
  <2> QED  BY <1>9, <2>1, LoadSteps, StillCells DEF Advances, SameCarry, Entry
<1>10. CASE PC = \h800E /\ First = 1 /\ Y = 11 /\ C \notin PS /\ A = 2
  <2>1. opcode = \h85 /\ operand = \h01 /\ U16(PC + 2) = \h8010
    BY <1>10, Fetched DEF FibonacciCode
  <2>2. /\ PC' = \h8010 /\ First' = 1 /\ Second' = 2 /\ Y' = 11 /\ A' = 2 /\ C \notin PS'
        /\ SP' = SP /\ PROGMEM' = PROGMEM
    BY <1>10, <2>1, StoreSteps, Cells DEF Advances, SameCarry
  <2>3. Round(1)'  BY <2>2 DEF Round, Numbers
  <2> QED  BY <2>2, <2>3 DEF Loop
<1> QED
  BY <1>1, <1>2, <1>3, <1>4, <1>5, <1>6, <1>7, <1>8, <1>9, <1>10 DEF Entry

(* The loop.                                                               *)
LEMMA LoopSteps ==
  ASSUME PROGMEM = Fibonacci, Execute, Loop
  PROVE  (Loop \/ Exit)' /\ SP' = SP /\ PROGMEM' = PROGMEM
<1> PICK k \in 1 .. 11 :
      \/ PC = \h8010 /\ Round(k)
      \/ PC = \h8012 /\ Round(k) /\ X = Numbers[k + 1]
      \/ PC = \h8014 /\ Summed(k) /\ Y = 12 - k
      \/ PC = \h8016 /\ Summed(k) /\ Y = 12 - k /\ Second = Added(k)
      \/ PC = \h8018 /\ Summed(k) /\ Y = 12 - k /\ Second = Added(k) /\ First = X
      \/ PC = \h8019 /\ Summed(k) /\ Y = 11 - k /\ Second = Added(k) /\ First = X
                     /\ (Z \in PS) = (Y = 0)
  BY DEF Loop
<1>1. CASE PC = \h8010 /\ Round(k)
  <2>1. opcode = \hA6 /\ operand = \h01 /\ U16(PC + 2) = \h8012
    BY <1>1, Fetched DEF FibonacciCode
  <2>2. /\ PC' = \h8012 /\ Round(k)' /\ X' = Numbers[k + 1]
        /\ SP' = SP /\ PROGMEM' = PROGMEM
    BY <1>1, <2>1, LoadSteps, Cells, StillCells DEF Advances, SameCarry, Round
  <2> QED  BY <2>2 DEF Loop
<1>2. CASE PC = \h8012 /\ Round(k) /\ X = Numbers[k + 1]
  <2>1. opcode = \h65 /\ operand = \h00 /\ U16(PC + 2) = \h8014
    BY <1>2, Fetched DEF FibonacciCode
  <2>2. U16(A + bus_read_byte(operand) + BitOf(PS, C)) = U16(Numbers[k + 1] + Numbers[k])
    BY <1>2, <2>1, Cells, Sums DEF Round, BitOf
  <2>3. A' = Added(k) /\ (k < 11 => C \notin PS')
    BY <2>1, <2>2, AddSteps, Sums
  <2>4. PC' = \h8014 /\ X' = X /\ Y' = Y /\ SP' = SP /\ PROGMEM' = PROGMEM
    BY <2>1, AddSteps DEF Advances
  <2>5. Summed(k)' /\ Y' = 12 - k  BY <1>2, <2>3, <2>4 DEF Summed, Round
  <2> QED  BY <2>4, <2>5 DEF Loop
<1>3. CASE PC = \h8014 /\ Summed(k) /\ Y = 12 - k
  <2>1. opcode = \h85 /\ operand = \h01 /\ U16(PC + 2) = \h8016
    BY <1>3, Fetched DEF FibonacciCode
  <2>2. /\ PC' = \h8016 /\ Summed(k)' /\ Y' = 12 - k /\ Second' = Added(k)
        /\ SP' = SP /\ PROGMEM' = PROGMEM
    BY <1>3, <2>1, StoreSteps, Cells DEF Advances, SameCarry, Summed
  <2> QED  BY <2>2 DEF Loop
<1>4. CASE PC = \h8016 /\ Summed(k) /\ Y = 12 - k /\ Second = Added(k)
  <2>1. opcode = \h86 /\ operand = \h00 /\ U16(PC + 2) = \h8018
    BY <1>4, Fetched DEF FibonacciCode
  <2>2. /\ PC' = \h8018 /\ Summed(k)' /\ Y' = 12 - k /\ Second' = Added(k)
        /\ First' = X' /\ SP' = SP /\ PROGMEM' = PROGMEM
    BY <1>4, <2>1, StoreSteps, Cells DEF Advances, SameCarry, Summed
  <2> QED  BY <2>2 DEF Loop
<1>5. CASE PC = \h8018 /\ Summed(k) /\ Y = 12 - k /\ Second = Added(k) /\ First = X
  <2>1. opcode = \h88 /\ PC1 = \h8019  BY <1>5, Fetched DEF FibonacciCode
  <2>2. U8(Y - 1) = 11 - k  BY <1>5 DEF U8
  <2>3. /\ PC' = \h8019 /\ Summed(k)' /\ Y' = 11 - k /\ Second' = Added(k)
        /\ First' = X' /\ (Z \in PS') = (Y' = 0) /\ SP' = SP /\ PROGMEM' = PROGMEM
    BY <1>5, <2>1, <2>2, TransferSteps, StillCells DEF SameCarry, Summed
  <2> QED  BY <2>3 DEF Loop
<1>6. CASE /\ PC = \h8019 /\ Summed(k) /\ Y = 11 - k /\ Second = Added(k) /\ First = X
           /\ (Z \in PS) = (Y = 0)
  <2>1. opcode = \hD0 /\ operand = \hF5 /\ U16(PC + 2) = \h801B
    BY <1>6, Fetched DEF FibonacciCode
  <2>2. U16(\h801B + Signed(\hF5)) = \h8010  BY DEF U16, Signed
  <2>3. /\ PC' = IF Y = 0 THEN \h801B ELSE \h8010
        /\ SP' = SP /\ PROGMEM' = PROGMEM /\ UNCHANGED <<A, X, Y>>
        /\ First' = First /\ Second' = Second /\ SameCarry
    BY <1>6, <2>1, <2>2, BranchSteps, StillCells
  <2>4. CASE k < 11
    <3>1. Added(k) = Numbers[k + 2]  BY <2>4 DEF Added
    <3>2. k + 1 \in 1 .. 11 /\ Y # 0 /\ 12 - (k + 1) = Y /\ (k + 1) + 1 = k + 2
      BY <1>6, <2>4
    <3>3. PC' = \h8010 /\ Round(k + 1)'
      BY <1>6, <2>3, <2>4, <3>1, <3>2 DEF Round, Summed, SameCarry
    <3> QED  BY <2>3, <3>2, <3>3 DEF Loop
  <2>5. CASE k = 11
    <3>1. Y = 0 /\ X = \hE9  BY <1>6, <2>5 DEF Summed, Numbers
    <3> QED  BY <2>3, <3>1 DEF Exit
  <2> QED  BY <2>4, <2>5
<1> QED  BY <1>1, <1>2, <1>3, <1>4, <1>5, <1>6

(* The instructions behind the loop.                                       *)
LEMMA ExitSteps ==
  ASSUME PROGMEM = Fibonacci, Execute, Exit
  PROVE  Exit' /\ SP' = SP /\ PROGMEM' = PROGMEM
<1>1. CASE PC = \h801B /\ X = \hE9
  <2>1. opcode = \h8A /\ PC1 = \h801C  BY <1>1, Fetched DEF FibonacciCode
  <2> QED  BY <1>1, <2>1, TransferSteps DEF Exit
<1>2. CASE PC = \h801C /\ X = \hE9 /\ A = \hE9
  <2>1. opcode = \hC9 /\ operand = \hE9 /\ U16(PC + 2) = \h801E
    BY <1>2, Fetched DEF FibonacciCode
  <2>2. U8(A - operand) = 0  BY <1>2, <2>1 DEF U8
  <2> QED  BY <1>2, <2>1, <2>2, CompareSteps DEF Advances, Exit
<1>3. CASE PC = \h801E /\ X = \hE9 /\ A = \hE9 /\ Z \in PS
  <2>1. opcode = \hF0 /\ operand = \h01 /\ U16(PC + 2) = \h8020
    BY <1>3, Fetched DEF FibonacciCode
  <2>2. U16(\h8020 + Signed(\h01)) = \h8021  BY DEF U16, Signed
  <2> QED  BY <1>3, <2>1, <2>2, BranchSteps DEF SameZero, Exit
<1>4. CASE PC = \h8021 /\ X = \hE9 /\ A = \hE9 /\ Z \in PS
  <2>1. opcode = \h4C /\ PC1 = \h8022  BY <1>4, Fetched DEF FibonacciCode
  <2>2. operand16 = \h8021  BY <2>1, RomVectors DEF operand16
  <2> QED  BY <1>4, <2>1, <2>2, JumpSteps DEF SameZero, Exit
<1> QED  BY <1>1, <1>2, <1>3, <1>4 DEF Exit

(* The invariant of the shell with this ROM.  While the CPU is not at      *)
(* power-up, it is somewhere in the program, in the state that the program *)
(* has there; the user's commands can only start the program over.         *)
FibonacciInv ==
  /\ PROGMEM = Fibonacci /\ SP = \hFD
  /\ call = "power_up" \/ Entry \/ Loop \/ Exit
  /\ call = "power_up" => cmd = "main"
  /\ InRun => irq_address = \h8021

(* A step that leaves the CPU and data[] alone leaves the program's state. *)
LEMMA SamePoint ==
  ASSUME UNCHANGED <<mem, registers>>, Entry \/ Loop \/ Exit
  PROVE  (Entry \/ Loop \/ Exit)'
<1>1. First' = First /\ Second' = Second  BY StillCells DEF Still
<1>2. A' = A /\ X' = X /\ Y' = Y /\ PS' = PS /\ PC' = PC  BY DEF registers
<1>3. Entry' = Entry  BY <1>1, <1>2 DEF Entry
<1>4. Exit' = Exit  BY <1>2 DEF Exit
<1>5. \A k : Round(k)' = Round(k) /\ Summed(k)' = Summed(k)
  BY <1>1, <1>2 DEF Round, Summed
<1>6. Loop' = Loop  BY <1>1, <1>2, <1>5 DEF Loop
<1> QED  BY <1>3, <1>4, <1>6

(* The invariant holds at the start and is kept by every step.             *)
LEMMA FibonacciInvariance == PROGMEM = Fibonacci /\ ShellSpec => []FibonacciInv
<1>1. PROGMEM = Fibonacci /\ ShellInit => FibonacciInv
  BY DEF ShellInit, Init, FibonacciInv, InRun
<1>2. FibonacciInv /\ [ShellNext]_svars => FibonacciInv'
  <2> SUFFICES ASSUME FibonacciInv, [ShellNext]_svars PROVE FibonacciInv'  OBVIOUS
  <2> DEFINE Point == Entry \/ Loop \/ Exit
  <2>1. CASE UNCHANGED <<mem, PROGMEM, wild, registers, call, locals, consumed>>
    <3>1. Point => Point'  BY <2>1, SamePoint
    <3>2. PROGMEM' = Fibonacci /\ SP' = \hFD /\ call' = call
      BY <2>1 DEF FibonacciInv, registers
    <3>3. cmd = "main" => cmd' = "main" \/ call # "power_up"
      BY <2>1 DEF ShellNext, User, reset_command, run_command, clock_command,
         inspect_command, ShellStep, main, Reset, ClockCall, clock_command_done, run_clock,
         run_count, run_end, inspect_byte, inspect_end, CpuStep, svars
    <3>4. InRun' => irq_address' = \h8021
      <4>1. ASSUME run_command PROVE irq_address' = \h8021
        BY <4>1, RomVectors DEF run_command, FibonacciInv
      <4> QED  BY <4>1 DEF FibonacciInv, ShellNext, User, reset_command, clock_command,
         inspect_command, ShellStep, main, clock_command_done, run_clock, run_count,
         run_end, inspect_byte, inspect_end, Quiet, CpuStep, svars, shell, InRun
    <3> QED  BY <3>1, <3>2, <3>3, <3>4 DEF FibonacciInv
  <2>2. CASE reset_command \/ main
    <3>1. PC' = \h8000 /\ SP' = \hFD /\ PROGMEM' = Fibonacci /\ call' = "idle"
      BY <2>2, RomVectors DEF reset_command, main, Reset, FibonacciInv
    <3>2. ~InRun'  BY <2>2 DEF reset_command, main, InRun
    <3> QED  BY <3>1, <3>2 DEF Entry, FibonacciInv
  <2>3. CASE (\E n \in Requests : clock_command(n)) \/ run_clock
    <3>1. call = "idle" /\ call' = "clock" /\ UNCHANGED <<mem, PROGMEM, registers>>
      BY <2>3 DEF clock_command, run_clock, ClockCall
    <3>2. Point'  BY <3>1, SamePoint DEF FibonacciInv
    <3>3. InRun' => InRun /\ irq_address' = irq_address
      BY <2>3 DEF clock_command, run_clock, InRun, shell
    <3> QED  BY <3>1, <3>2, <3>3 DEF FibonacciInv, registers
  <2>4. CASE CpuStep
    <3>1. cmd' = cmd /\ irq_address' = irq_address  BY <2>4 DEF CpuStep, shell
    <3>2. call = "clock"  BY <2>4 DEF CpuStep, Step, Instruction, ClockReturn
    <3>3. CASE Instruction
      <4>1. Execute /\ call' = call
        BY <3>3, ExecuteCharges DEF Instruction, Retire
      <4>2. Point' /\ SP' = SP /\ PROGMEM' = PROGMEM
        BY <3>2, <4>1, EntrySteps, LoopSteps, ExitSteps DEF FibonacciInv
      <4> QED  BY <3>1, <3>2, <4>1, <4>2 DEF FibonacciInv, InRun
    <3>4. CASE ClockReturn
      <4>1. UNCHANGED <<mem, PROGMEM, registers>> /\ call' = "idle"
        BY <3>4 DEF ClockReturn
      <4>2. Point'  BY <3>2, <4>1, SamePoint DEF FibonacciInv
      <4> QED  BY <3>1, <4>1, <4>2 DEF FibonacciInv, InRun, registers
    <3> QED  BY <2>4, <3>3, <3>4 DEF CpuStep, Step
  <2>5. \/ UNCHANGED <<mem, PROGMEM, wild, registers, call, locals, consumed>>
        \/ reset_command \/ main \/ (\E n \in Requests : clock_command(n))
        \/ run_clock \/ CpuStep
    BY DEF ShellNext, User, run_command, inspect_command, ShellStep, clock_command_done,
           run_count, run_end, inspect_byte, inspect_end, Quiet, svars, vars
  <2> QED  BY <2>1, <2>2, <2>3, <2>4, <2>5
<1> QED  BY <1>1, <1>2, PTL DEF ShellSpec

(* fibonacci.s is correct on this CPU: in every build, whatever cycle      *)
(* counts the user has entered by hand and wherever a reset came, run      *)
(* returns with the number in A and X, the comparison equal and the stack  *)
(* as it was.                                                              *)
THEOREM FibonacciIsComputed == PROGMEM = Fibonacci /\ ShellSpec => FibonacciAnswer
<1>1. FibonacciInv /\ ShellInv /\ [ShellNext]_svars
        => [InRun /\ cmd' = "prompt" => /\ PC = irq_address
                                        /\ A = \hE9 /\ X = \hE9 /\ Z \in PS
                                        /\ SP = \hFD]_svars
  <2> SUFFICES ASSUME FibonacciInv, ShellInv, ShellNext, InRun, cmd' = "prompt"
               PROVE  /\ PC = irq_address /\ A = \hE9 /\ X = \hE9 /\ Z \in PS
                      /\ SP = \hFD
    OBVIOUS
  <2>1. PC = irq_address /\ irq_address = \h8021
    BY RunEnds DEF FibonacciInv
  <2>2. call # "power_up"  BY DEF FibonacciInv, InRun
  <2>3. ~Entry /\ ~Loop  BY <2>1 DEF Entry, Loop
  <2>4. Exit  BY <2>2, <2>3 DEF FibonacciInv
  <2> QED  BY <2>1, <2>4 DEF Exit, FibonacciInv
<1> QED  BY <1>1, FibonacciInvariance, ShellInvariance, PTL DEF ShellSpec, FibonacciAnswer
=============================================================================
