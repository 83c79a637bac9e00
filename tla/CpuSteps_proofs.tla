-------------------------- MODULE CpuSteps_proofs --------------------------
(***************************************************************************)
(* What a single instruction does, for every state that the invariant of   *)
(* Cpu6502_proofs allows: the delayed interrupt flag, the arithmetic, and  *)
(* the places an instruction stores in.                                    *)
(***************************************************************************)
EXTENDS Cpu6502_proofs

(* A step taken inside an instruction is that instruction.                 *)
LEMMA OnlyExecute == [Next]_vars /\ InInstruction => Execute \/ UNCHANGED vars
<1>1. ClockReturn => ~InInstruction  BY DEF ClockReturn, InInstruction
<1>2. Reset => ~InInstruction  BY DEF Reset, InInstruction
<1>3. \A n : ClockCall(n) => ~InInstruction  BY DEF ClockCall, InInstruction
<1> QED  BY <1>1, <1>2, <1>3 DEF Next, Step, Caller, Instruction

-----------------------------------------------------------------------------
(* The delayed interrupt flag.                                             *)

(* PS1 has I as I_nxt tells.                                               *)
LEMMA TakenI == (I \in PS1) = (I_nxt = 1)  BY DEF PS1, SetFlag

(* Setting another flag leaves I.                                          *)
LEMMA OtherFlag ==
  \A ps, f, on : f # I => (I \in SetFlag(ps, f, on)) = (I \in ps)
  BY DEF SetFlag

(* update_flags_from_register leaves I.                                    *)
LEMMA ZNKeepsI == \A ps, r : (I \in ZN(ps, r)) = (I \in ps)
<1>1. Z # I /\ N # I  BY DEF Z, N, I
<1> QED  BY <1>1, OtherFlag DEF ZN

(* Every instruction but BRK and RTI leaves the I it has taken.            *)
LEMMA ExecuteKeepsI ==
  ASSUME Execute, opcode \notin {INS_BRK, INS_RTI}
  PROVE  (I \in PS') = (I \in PS1)
<1>0. C # I /\ Z # I /\ D # I /\ V # I /\ N # I  BY DEF C, Z, I, D, V, N
<1>1. \A r : LoadA(r) \/ LoadX(r) \/ LoadY(r) => (I \in PS') = (I \in PS1)
  BY ZNKeepsI DEF LoadA, LoadX, LoadY
<1>2. SameRegs => (I \in PS') = (I \in PS1)  BY DEF SameRegs
<1>3. CASE LDA \/ LDX \/ LDY  BY <1>1, <1>3 DEF LDA, LDX, LDY
<1>4. CASE AND \/ ORA \/ EOR  BY <1>1, <1>4 DEF AND, ORA, EOR, Logic
<1>5. CASE STA \/ STX \/ STY  BY <1>2, <1>5 DEF STA, STX, STY, Store
<1>6. CASE BIT
  <2>1. PICK m \in DOMAIN INS_BIT :
          PS' = SetFlag(PS1, Z, And8(A, Value(m)) = 0) \cup (Bits(Value(m)) \cap {N, V})
    BY <1>6 DEF BIT
  <2> QED  BY <1>0, <2>1, OtherFlag
<1>7. CASE Transfer  BY <1>1, <1>2, <1>7 DEF Transfer
<1>8. CASE PHA \/ PHP \/ TXS  BY <1>2, <1>8 DEF PHA, PHP, TXS
<1>9. CASE PLA \/ TSX  BY <1>1, <1>9 DEF PLA, TSX
<1>10. CASE PLP  BY <1>10 DEF PLP
<1>11. CASE JMP_ABS \/ JMP_IND \/ JSR \/ RTS
  BY <1>2, <1>11 DEF JMP_ABS, JMP_IND, JSR, RTS
<1>12. CASE BRK \/ RTI  BY <1>12 DEF BRK, RTI
<1>13. CASE FLAG
  <2>1. \/ PS' = SetFlag(PS1, C, aaa % 2 = 1) \/ PS' = SetFlag(PS1, V, aaa % 2 = 1)
        \/ PS' = SetFlag(PS1, D, aaa % 2 = 1) \/ PS' = PS1
    BY <1>13 DEF FLAG
  <2> QED  BY <1>0, <2>1, OtherFlag
<1>14. CASE SHIFT
  <2>1. PICK on, r : PS' = ZN(SetFlag(PS1, C, on), r)  BY <1>14 DEF SHIFT
  <2> QED  BY <1>0, <2>1, OtherFlag, ZNKeepsI
<1>15. CASE ADC_SBC
  <2>1. PICK v, on, r : PS' = ZN(SetFlag(SetFlag(PS1, V, v), C, on), r)
    BY <1>15 DEF ADC_SBC
  <2> QED  BY <1>0, <2>1, OtherFlag, ZNKeepsI
<1>16. CASE CMP
  <2>1. PICK on, r : PS' = ZN(SetFlag(PS1, C, on), r)  BY <1>16 DEF CMP
  <2> QED  BY <1>0, <2>1, OtherFlag, ZNKeepsI
<1>17. CASE INC_DEC  BY <1>17, ZNKeepsI DEF INC_DEC
<1>18. CASE BRANCH \/ UNDEFINED  BY <1>2, <1>18 DEF BRANCH, UNDEFINED
<1> QED
  BY <1>3, <1>4, <1>5, <1>6, <1>7, <1>8, <1>9, <1>10, <1>11, <1>12, <1>13,
     <1>14, <1>15, <1>16, <1>17, <1>18 DEF Execute

(* An instruction that changes I_nxt runs under the old I, and the next    *)
(* one under the new: no instruction but BRK and RTI gets around I_nxt.    *)
THEOREM InterruptFlagIsDelayed == Spec => DelayedInterruptFlag
<1>1. [Next]_vars =>
        [InInstruction /\ opcode \notin {INS_BRK, INS_RTI}
           => (I \in PS') = (I_nxt = 1)]_vars
  BY OnlyExecute, ExecuteKeepsI, TakenI
<1> QED  BY <1>1, PTL DEF Spec, DelayedInterruptFlag

-----------------------------------------------------------------------------
(* The arithmetic.                                                         *)

(* Bit 7 of an integer up to 511 tells in which of four ranges it is.      *)
LEMMA Bit7Ranges ==
  ASSUME NEW n \in Int, 0 <= n, n <= 511
  PROVE  Bit7(n) = IF n < 128 \/ (256 <= n /\ n < 384) THEN 0 ELSE 1
<1>1. n < 128 => n \div 128 = 0  BY SMT
<1>2. 128 <= n /\ n < 256 => n \div 128 = 1  BY SMT
<1>3. 256 <= n /\ n < 384 => n \div 128 = 2  BY SMT
<1>4. 384 <= n => n \div 128 = 3  BY SMT
<1>5. 0 % 2 = 0 /\ 1 % 2 = 1 /\ 2 % 2 = 0 /\ 3 % 2 = 1  BY SMT
<1> QED  BY <1>1, <1>2, <1>3, <1>4, <1>5 DEF Bit7

(* V and N of status ps after ZN(SetFlag(SetFlag(ps, V, v), C, c), r).     *)
LEMMA ResultFlags ==
  ASSUME NEW ps, NEW v \in BOOLEAN, NEW c \in BOOLEAN, NEW r,
         NEW qs, qs = ZN(SetFlag(SetFlag(ps, V, v), C, c), r)
  PROVE  /\ (V \in qs) = v
         /\ (C \in qs) = c
         /\ (Z \in qs) = (r = 0)
         /\ (N \in qs) = (r >= 128)
<1>1. V # C /\ V # Z /\ V # N /\ C # Z /\ C # N /\ Z # N  BY DEF C, Z, V, N
<1> QED  BY <1>1 DEF ZN, SetFlag

(* The 9-bit sum of two bytes and a carry, and its signed overflow.        *)
LEMMA AddBytes ==
  ASSUME NEW a \in Byte, NEW f \in Byte, NEW c \in {0, 1}
  PROVE  /\ U16(a + f + c) = a + f + c
         /\ U8(a + f + c) + 256 * (IF a + f + c > 255 THEN 1 ELSE 0) = a + f + c
         /\ (Bit7(a + f + c) # Bit7(a) /\ Bit7(a + f + c) # Bit7(f))
              = Overflows(Signed(a) + Signed(f) + c)
<1>1. /\ a \in Int /\ 0 <= a /\ a <= 255
      /\ f \in Int /\ 0 <= f /\ f <= 255
      /\ c \in Int /\ 0 <= c /\ c <= 1
  BY DEF Byte
<1>2. U16(a + f + c) = a + f + c  BY <1>1 DEF U16
<1>3. U8(a + f + c) + 256 * (IF a + f + c > 255 THEN 1 ELSE 0) = a + f + c
  <2> DEFINE n == a + f + c
  <2>1. n \in Int /\ 0 <= n /\ n <= 511  BY <1>1
  <2> HIDE DEF n
  <2>2. (n % 256) + 256 * (IF n > 255 THEN 1 ELSE 0) = n  BY <2>1, SMT
  <2> QED  BY <2>2 DEF n, U8
<1>4. (Bit7(a + f + c) # Bit7(a) /\ Bit7(a + f + c) # Bit7(f))
        = Overflows(Signed(a) + Signed(f) + c)
  <2> DEFINE n == a + f + c
  <2>1. n \in Int /\ 0 <= n /\ n <= 511  BY <1>1
  <2>2. /\ Bit7(n) = IF n < 128 \/ (256 <= n /\ n < 384) THEN 0 ELSE 1
        /\ Bit7(a) = IF a < 128 THEN 0 ELSE 1
        /\ Bit7(f) = IF f < 128 THEN 0 ELSE 1
    BY <1>1, <2>1, Bit7Ranges
  <2>3. n = a + f + c  OBVIOUS
  <2> HIDE DEF n
  <2>4. (Bit7(n) # Bit7(a) /\ Bit7(n) # Bit7(f))
          = (Signed(a) + Signed(f) + c \notin -128 .. 127)
    BY <1>1, <2>1, <2>2, <2>3 DEF Signed
  <2> QED  BY <2>4 DEF n, Overflows
<1> QED  BY <1>2, <1>3, <1>4

(* The operand of the ADC/SBC block is a byte, and its modes are modes.    *)
LEMMA OperandType == ASSUME IInv PROVE Value(BbbMode(bbb)) \in Byte
<1>1. TypeOK  BY IInvImplies
<1>2. bus_read_byte(EA(BbbMode(bbb))) \in Byte  BY ReadType DEF IInv
<1> QED  BY <1>1, <1>2, FetchType DEF Value, IInv, RegsOK

(* An opcode of the block is executed by it.                               *)
LEMMA OnlyArithmetic ==
  ASSUME IInv, Execute, AddOp(opcode) PROVE ADC_SBC
<1>1. opcode \in Byte  BY FetchType, IInvImplies
<1>2. 3 \in Blocks(opcode)  BY DEF Blocks
<1>3. Blocks(opcode) = {3}  BY <1>1, <1>2, BlocksExclude DEF Blocks
<1>4. opcode \notin SwitchOps  BY <1>2, SwitchExcludes
<1>5. ~ (FlagOp(opcode) \/ ShiftOp(opcode) \/ CompareOp(opcode)
           \/ IncDecOp(opcode) \/ BranchOp(opcode))
  BY <1>3 DEF Blocks
<1> QED  BY <1>3, <1>4, <1>5
  DEF Execute, LDA, LDX, LDY, STA, STX, STY, AND, ORA, EOR, BIT, Transfer,
      PHA, PHP, PLA, PLP, TXS, TSX, JMP_ABS, JMP_IND, JSR, RTS, BRK, RTI,
      FLAG, SHIFT, CMP, INC_DEC, BRANCH, UNDEFINED, Undefined, SwitchOps, Codes

(* BitOf of a set of flags, as a number.                                   *)
LEMMA BitOfType == \A ps, f : BitOf(ps, f) \in {0, 1}  BY DEF BitOf

(* What the block does to A and to the flags, for the addend w.            *)
LEMMA BlockResult ==
  ASSUME IInv, ADC_SBC,
         NEW f, f = Value(BbbMode(bbb))
  PROVE  /\ A' = U8(Sum(f))
         /\ (V \in PS') = (Bit7(Sum(f)) # Bit7(A) /\ Bit7(Sum(f)) # Bit7(Addend(f)))
         /\ (C \in PS') = (Sum(f) > 255)
         /\ (Z \in PS') = (A' = 0)
         /\ (N \in PS') = (A' >= 128)
<1> DEFINE v == Bit7(Sum(f)) # Bit7(A) /\ Bit7(Sum(f)) # Bit7(Addend(f))
           on == Sum(f) > 255
<1>1. A' = U8(Sum(f)) /\ PS' = ZN(SetFlag(SetFlag(PS1, V, v), C, on), U8(Sum(f)))
  BY DEF ADC_SBC
<1>2. v \in BOOLEAN /\ on \in BOOLEAN  OBVIOUS
<1> HIDE DEF v, on
<1>3. /\ (V \in PS') = v /\ (C \in PS') = on
      /\ (Z \in PS') = (U8(Sum(f)) = 0) /\ (N \in PS') = (U8(Sum(f)) >= 128)
  BY <1>1, <1>2, ResultFlags
<1> QED  BY <1>1, <1>3 DEF v, on

(* ADC, for every operand, accumulator and carry.                          *)
LEMMA AddStep ==
  ASSUME IInv, Execute, AddOp(opcode), aaa = 3,
         NEW f, f = Value(BbbMode(bbb)), NEW c, c = BitOf(PS1, C)
  PROVE  /\ A' + 256 * BitOf(PS', C) = A + f + c
         /\ (V \in PS') = Overflows(Signed(A) + Signed(f) + c)
         /\ (N \in PS') = (Signed(A') < 0)
         /\ (Z \in PS') = (A' = 0)
<1>1. f \in Byte /\ A \in Byte /\ c \in {0, 1}
  BY OperandType, BitOfType DEF IInv, RegsOK
<1>2. ADC_SBC  BY OnlyArithmetic
<1>3. Addend(f) = f /\ Sum(f) = A + f + c
  BY <1>1, AddBytes DEF Addend, Sum
<1>4. /\ A' = U8(A + f + c)
      /\ (V \in PS') = (Bit7(A + f + c) # Bit7(A) /\ Bit7(A + f + c) # Bit7(f))
      /\ (C \in PS') = (A + f + c > 255)
      /\ (Z \in PS') = (A' = 0)
      /\ (N \in PS') = (A' >= 128)
  BY <1>2, <1>3, BlockResult
<1>5. A' + 256 * BitOf(PS', C) = A + f + c
  BY <1>1, <1>4, AddBytes DEF BitOf
<1>6. (V \in PS') = Overflows(Signed(A) + Signed(f) + c)
  BY <1>1, <1>4, AddBytes
<1>7. A + f + c \in Int  BY <1>1 DEF Byte
<1>8. A' \in Byte  BY <1>4, <1>7, Truncation
<1>9. \A r \in Byte : (r >= 128) <=> (Signed(r) < 0)  BY DEF Signed, Byte
<1> QED  BY <1>4, <1>5, <1>6, <1>8, <1>9

(* A + (65536 - f) + c in 16 bits has the low byte of A - f + c.           *)
LEMMA SubtractBytes ==
  ASSUME NEW a \in Byte, NEW f \in Byte, NEW c \in {0, 1},
         NEW w, w = U16(65536 - f), NEW n, n = U16(a + w + c)
  PROVE  U8(n) = U8(a - f + c)
<1>1. /\ a \in Int /\ 0 <= a /\ a <= 255
      /\ f \in Int /\ 0 <= f /\ f <= 255
      /\ c \in Int /\ 0 <= c /\ c <= 1
  BY DEF Byte
<1> DEFINE d == a - f + c
<1>2. d \in Int /\ -255 <= d /\ d <= 256  BY <1>1
<1>3. w = IF f = 0 THEN 0 ELSE 65536 - f  BY <1>1 DEF U16
<1>4. n = IF d < 0 THEN d + 65536 ELSE d
  <2>1. CASE f = 0  BY <1>1, <1>3, <2>1 DEF U16
  <2>2. CASE f # 0
    <3>1. a + w + c = d + 65536  BY <1>1, <1>3, <2>2
    <3> HIDE DEF d
    <3> QED  BY <1>2, <3>1 DEF U16
  <2> QED  BY <2>1, <2>2
<1>5. U8(n) = U8(d)
  <2> HIDE DEF d
  <2> QED  BY <1>2, <1>4 DEF U8
<1> QED  BY <1>5

(* SBC, for every operand, accumulator and carry.                          *)
LEMMA SubtractStep ==
  ASSUME IInv, Execute, AddOp(opcode), aaa = 7
  PROVE  /\ A' = U8(A - Value(BbbMode(bbb)) + BitOf(PS1, C))
         /\ (N \in PS') = (Signed(A') < 0)
         /\ (Z \in PS') = (A' = 0)
<1> DEFINE f == Value(BbbMode(bbb))
           c == BitOf(PS1, C)
<1>1. f \in Byte /\ A \in Byte /\ c \in {0, 1}
  BY OperandType, BitOfType DEF IInv, RegsOK
<1>2. ADC_SBC  BY OnlyArithmetic
<1>3. Addend(f) = U16(65536 - f) /\ Sum(f) = U16(A + Addend(f) + c)
  BY DEF Addend, Sum
<1>4. /\ A' = U8(Sum(f))
      /\ (Z \in PS') = (A' = 0)
      /\ (N \in PS') = (A' >= 128)
  BY <1>2, BlockResult
<1> HIDE DEF f, c
<1>5. A' = U8(A - f + c)  BY <1>1, <1>3, <1>4, SubtractBytes
<1>6. A - f + c \in Int  BY <1>1 DEF Byte
<1>7. A' \in Byte  BY <1>5, <1>6, Truncation
<1>8. \A r \in Byte : (r >= 128) <=> (Signed(r) < 0)  BY DEF Signed, Byte
<1> QED  BY <1>4, <1>5, <1>7, <1>8 DEF f, c

(* ADC adds: no operand, accumulator, carry or addressing mode for which   *)
(* the 9-bit sum or the signed overflow is wrong.                          *)
THEOREM AdditionIsExact == Spec => AddIsExact
<1>1. IInv /\ [Next]_vars =>
        [InInstruction /\ AddOp(opcode) /\ aaa = 3 =>
           LET f == Value(BbbMode(bbb))
               c == BitOf(PS1, C)
           IN  /\ A' + 256 * BitOf(PS', C) = A + f + c
               /\ (V \in PS') = Overflows(Signed(A) + Signed(f) + c)
               /\ (N \in PS') = (Signed(A') < 0)
               /\ (Z \in PS') = (A' = 0)]_vars
  BY OnlyExecute, AddStep
<1> QED  BY <1>1, Invariance, PTL DEF Spec, AddIsExact

(* SBC is the accumulator minus the operand plus the carry, for every      *)
(* operand, accumulator, carry and addressing mode.                        *)
THEOREM SubtractionIsExact == Spec => SubtractIsExact
<1>1. IInv /\ [Next]_vars =>
        [InInstruction /\ AddOp(opcode) /\ aaa = 7 =>
           /\ A' = U8(A - Value(BbbMode(bbb)) + BitOf(PS1, C))
           /\ (N \in PS') = (Signed(A') < 0)
           /\ (Z \in PS') = (A' = 0)]_vars
  BY OnlyExecute, SubtractStep
<1> QED  BY <1>1, Invariance, PTL DEF Spec, SubtractIsExact

-----------------------------------------------------------------------------
(* Where an instruction stores.                                            *)

(* m2 differs from m1 in the places of S at most, and lost none.           *)
OnlyIn(m1, m2, S) ==
  /\ DOMAIN m1 \subseteq DOMAIN m2
  /\ \A h \in DOMAIN m2 : (h \in DOMAIN m1 /\ m2[h] = m1[h]) \/ h \in S

(* No store.                                                               *)
LEMMA SameMem == ASSUME NEW m1, NEW m2, m2 = m1, NEW S PROVE OnlyIn(m1, m2, S)
  BY DEF OnlyIn

(* One byte more.                                                          *)
LEMMA OneMore ==
  ASSUME NEW m1, NEW m2, NEW S, OnlyIn(m1, m2, S), NEW h \in S, NEW v
  PROVE  OnlyIn(m1, memory_set(m2, h, v), S)
  BY DEF OnlyIn, memory_set

(* A store over the bus.                                                   *)
LEMMA BusStore ==
  ASSUME NEW a, NEW v, NEW S, decode_address(a) \in S, bus_write_byte(a, v)
  PROVE  OnlyIn(mem, mem', S)
<1>1. OnlyIn(mem, mem, S)  BY SameMem
<1> QED  BY <1>1, OneMore DEF bus_write_byte

(* A place that a store's operand names.                                   *)
LEMMA Named ==
  ASSUME NEW t \in StoreTables, NEW m \in DOMAIN t, m # "ACC", t[m] = opcode
  PROVE  decode_address(EA(m)) \in NamedCells
  BY DEF NamedCells

(* STA, STX and STY.                                                       *)
LEMMA StoresAreNamed ==
  ASSUME STA \/ STX \/ STY PROVE OnlyIn(mem, mem', NamedCells)
<1>1. "ACC" \notin DOMAIN INS_STA \cup DOMAIN INS_STX \cup DOMAIN INS_STY
  BY DEF INS_STA, INS_STX, INS_STY
<1>2. CASE STA
  <2>1. PICK m \in DOMAIN INS_STA : opcode = INS_STA[m] /\ bus_write_byte(EA(m), A)
    BY <1>2 DEF STA, Store
  <2>2. decode_address(EA(m)) \in NamedCells
    BY <1>1, <2>1, Named DEF StoreTables
  <2> QED  BY <2>1, <2>2, BusStore
<1>3. CASE STX
  <2>1. PICK m \in DOMAIN INS_STX : opcode = INS_STX[m] /\ bus_write_byte(EA(m), X)
    BY <1>3 DEF STX, Store
  <2>2. decode_address(EA(m)) \in NamedCells
    BY <1>1, <2>1, Named DEF StoreTables
  <2> QED  BY <2>1, <2>2, BusStore
<1>4. CASE STY
  <2>1. PICK m \in DOMAIN INS_STY : opcode = INS_STY[m] /\ bus_write_byte(EA(m), Y)
    BY <1>4 DEF STY, Store
  <2>2. decode_address(EA(m)) \in NamedCells
    BY <1>1, <2>1, Named DEF StoreTables
  <2> QED  BY <2>1, <2>2, BusStore
<1> QED  BY <1>2, <1>3, <1>4

(* A push of one to three bytes.                                           *)
LEMMA PushesAreOnStack ==
  ASSUME IInv, PHA \/ PHP \/ TXS \/ JSR \/ BRK PROVE OnlyIn(mem, mem', StackCells)
<1>1. SP \in Int /\ SP - 1 \in Int /\ SP - 2 \in Int  BY StackType
<1>2. /\ decode_address(StackAddress(SP)) = StackAddress(SP)
      /\ decode_address(StackAddress(SP - 1)) = StackAddress(SP - 1)
      /\ decode_address(StackAddress(SP - 2)) = StackAddress(SP - 2)
  BY <1>1, StackDecodes
<1>3. SP - 0 = SP  BY <1>1
<1>4. Pushes = 1 \/ Pushes = 2 \/ Pushes = 3 => StackAddress(SP) \in StackCells
  <2>1. Pushes = 1 \/ Pushes = 2 \/ Pushes = 3 => 0 \in 0 .. Pushes - 1  OBVIOUS
  <2> QED  BY <1>3, <2>1 DEF StackCells
<1>5. Pushes = 2 \/ Pushes = 3 => StackAddress(SP - 1) \in StackCells
  <2>1. Pushes = 2 \/ Pushes = 3 => 1 \in 0 .. Pushes - 1  OBVIOUS
  <2> QED  BY <2>1 DEF StackCells
<1>6. Pushes = 3 => StackAddress(SP - 2) \in StackCells
  <2>1. Pushes = 3 => 2 \in 0 .. Pushes - 1  OBVIOUS
  <2> QED  BY <2>1 DEF StackCells
<1>7. OnlyIn(mem, mem, StackCells)  BY SameMem
<1>8. ASSUME PHA \/ PHP \/ TXS PROVE OnlyIn(mem, mem', StackCells)
  <2>1. Pushes = 1
    BY <1>8 DEF PHA, PHP, TXS, Pushes, INS_PHA, INS_PHP, INS_TXS, INS_JSR, INS_BRK
  <2>2. PICK v : mem' = Pushed(mem, SP, v)  BY <1>8 DEF PHA, PHP, TXS
  <2> QED  BY <1>2, <1>4, <1>7, <2>1, <2>2, OneMore DEF Pushed
<1>9. ASSUME NEW w, Pushes = 2 \/ Pushes = 3
      PROVE  OnlyIn(mem, PushedWord(mem, SP, w), StackCells)
  <2>1. OnlyIn(mem, Pushed(mem, SP, Page(w)), StackCells)
    BY <1>2, <1>4, <1>7, <1>9, OneMore DEF Pushed
  <2> QED  BY <1>2, <1>5, <1>9, <2>1, OneMore DEF Pushed, PushedWord
<1>10. CASE JSR
  <2>1. Pushes = 2
    BY <1>10 DEF JSR, Pushes, INS_JSR, INS_BRK, INS_PHA, INS_PHP, INS_TXS
  <2> QED  BY <1>9, <1>10, <2>1 DEF JSR
<1>11. CASE BRK
  <2>1. Pushes = 3
    BY <1>11 DEF BRK, Pushes, INS_BRK, INS_JSR, INS_PHA, INS_PHP, INS_TXS
  <2> DEFINE w == U16(PC + 2)
  <2>2. OnlyIn(mem, PushedWord(mem, SP, w), StackCells)  BY <1>9, <2>1
  <2>3. mem' = Pushed(PushedWord(mem, SP, w), SP - 2, PushedStatus(PS1))
    BY <1>11 DEF BRK
  <2> QED  BY <1>2, <1>6, <2>1, <2>2, <2>3, OneMore DEF Pushed
<1> QED  BY <1>8, <1>10, <1>11

(* The opcodes of the shifts, with the modes of the switch.                *)
LEMMA ShiftNames ==
  \A op \in ShiftFetchOps :
    \/ ShiftMode(Bbb(op)) = "ACC"
    \/ \E t \in {INS_ASL, INS_ROL, INS_LSR, INS_ROR} :
         ShiftMode(Bbb(op)) \in DOMAIN t /\ t[ShiftMode(Bbb(op))] = op
<1>1. \A op \in Codes(INS_ASL) : ShiftMode(Bbb(op)) \in DOMAIN INS_ASL /\ INS_ASL[ShiftMode(Bbb(op))] = op
  BY DEF Codes, INS_ASL, ShiftMode, Bbb
<1>2. \A op \in Codes(INS_ROL) : ShiftMode(Bbb(op)) \in DOMAIN INS_ROL /\ INS_ROL[ShiftMode(Bbb(op))] = op
  BY DEF Codes, INS_ROL, ShiftMode, Bbb
<1>3. \A op \in Codes(INS_LSR) : ShiftMode(Bbb(op)) \in DOMAIN INS_LSR /\ INS_LSR[ShiftMode(Bbb(op))] = op
  BY DEF Codes, INS_LSR, ShiftMode, Bbb
<1>4. \A op \in Codes(INS_ROR) : ShiftMode(Bbb(op)) \in DOMAIN INS_ROR /\ INS_ROR[ShiftMode(Bbb(op))] = op
  BY DEF Codes, INS_ROR, ShiftMode, Bbb
<1> QED  BY <1>1, <1>2, <1>3, <1>4 DEF ShiftFetchOps

(* The opcodes of INC and DEC, with the modes of the block.                *)
LEMMA IncDecNames ==
  \A op \in Codes(INS_INC) \cup Codes(INS_DEC) :
    /\ IncDecMode(Bbb(op)) \notin {"ACC", "NONE"}
    /\ \E t \in {INS_INC, INS_DEC} :
         IncDecMode(Bbb(op)) \in DOMAIN t /\ t[IncDecMode(Bbb(op))] = op
<1>1. \A op \in Codes(INS_INC) :
        /\ IncDecMode(Bbb(op)) \notin {"ACC", "NONE"}
        /\ IncDecMode(Bbb(op)) \in DOMAIN INS_INC /\ INS_INC[IncDecMode(Bbb(op))] = op
  BY DEF Codes, INS_INC, IncDecMode, Bbb
<1>2. \A op \in Codes(INS_DEC) :
        /\ IncDecMode(Bbb(op)) \notin {"ACC", "NONE"}
        /\ IncDecMode(Bbb(op)) \in DOMAIN INS_DEC /\ INS_DEC[IncDecMode(Bbb(op))] = op
  BY DEF Codes, INS_DEC, IncDecMode, Bbb
<1> QED  BY <1>1, <1>2

(* The documented opcodes that the shift and INC/DEC blocks catch.         *)
LEMMA DocumentedStores ==
  ASSUME NEW op \in Documented
  PROVE  /\ ShiftOp(op) => op \in ShiftFetchOps
         /\ IncDecOp(op) => op \in Codes(INS_INC) \cup Codes(INS_DEC)
<1>1. op \in SwitchOps => ~ShiftOp(op) /\ ~IncDecOp(op)
  BY SwitchExcludes DEF Blocks
<1>2. op \in BranchCodes \cup FlagCodes => Cc(op) # 2
  BY DEF BranchCodes, FlagCodes, INS_CLV, Cc
<1>3. op \in Codes(INS_ADC) \cup Codes(INS_SBC) => Cc(op) # 2
  BY DEF Codes, INS_ADC, INS_SBC, Cc
<1>4. op \in Codes(INS_CMP) \cup Codes(INS_CPX) \cup Codes(INS_CPY) => Cc(op) # 2
  BY DEF Codes, INS_CMP, INS_CPX, INS_CPY, Cc
<1>5. op \in ShiftFetchOps => ~IncDecOp(op)
  <2>1. op \in Codes(INS_ASL) \cup Codes(INS_ROL) => ~(Aaa(op) > 5)
    BY DEF Codes, INS_ASL, INS_ROL, Aaa
  <2>2. op \in Codes(INS_LSR) \cup Codes(INS_ROR) => ~(Aaa(op) > 5)
    BY DEF Codes, INS_LSR, INS_ROR, Aaa
  <2> QED  BY <2>1, <2>2 DEF ShiftFetchOps, IncDecOp
<1>6. op \in Codes(INS_INC) \cup Codes(INS_DEC) => ~ShiftOp(op)
  BY DEF Codes, INS_INC, INS_DEC, ShiftOp, Aaa
<1> QED  BY <1>1, <1>2, <1>3, <1>4, <1>5, <1>6 DEF Documented, ShiftOp, IncDecOp

(* The others that the two blocks catch: the blocks have no mode for them. *)
LEMMA UndocumentedStores ==
  ASSUME NEW op \in Byte, op \notin Documented
  PROVE  /\ ShiftOp(op) => ShiftMode(Bbb(op)) = "NONE"
         /\ IncDecOp(op) => IncDecMode(Bbb(op)) = "NONE"
<1> DEFINE a == Aaa(op)
           b == Bbb(op)
           c == Cc(op)
<1>1. op \in Int /\ 0 <= op /\ op <= 255  BY DEF Byte
<1>2. a \in 0 .. 7 /\ b \in 0 .. 7 /\ op = 32 * a + 4 * b + c
  BY <1>1 DEF Aaa, Bbb, Cc
<1> HIDE DEF a, b, c
<1>3. CASE c = 2 /\ a < 4 /\ b \in {1, 2, 3, 5, 7}
  <2>1. op \in {\h06, \h0A, \h0E, \h16, \h1E, \h26, \h2A, \h2E, \h36, \h3E,
               \h46, \h4A, \h4E, \h56, \h5E, \h66, \h6A, \h6E, \h76, \h7E}
    BY <1>2, <1>3
  <2>2. op \in ShiftFetchOps
    BY <2>1 DEF ShiftFetchOps, Codes, INS_ASL, INS_ROL, INS_LSR, INS_ROR
  <2> QED  BY <2>2 DEF Documented
<1>4. CASE c = 2 /\ a > 5 /\ b \in {1, 3, 5, 7}
  <2>1. op \in {\hE6, \hEE, \hF6, \hFE, \hC6, \hCE, \hD6, \hDE}
    BY <1>2, <1>4
  <2>2. op \in Codes(INS_INC) \cup Codes(INS_DEC)
    BY <2>1 DEF Codes, INS_INC, INS_DEC
  <2> QED  BY <2>2 DEF Documented
<1>5. ShiftOp(op) => c = 2 /\ a < 4  BY DEF ShiftOp, a, c
<1>6. IncDecOp(op) => c = 2 /\ a > 5 /\ b # 2  BY DEF IncDecOp, a, b, c
<1>7. b \notin {1, 2, 3, 5, 7} => ShiftMode(b) = "NONE"  BY DEF ShiftMode
<1>8. b \notin {1, 3, 5, 7} => IncDecMode(b) = "NONE"  BY DEF IncDecMode
<1> QED  BY <1>3, <1>4, <1>5, <1>6, <1>7, <1>8 DEF b

Targets == NamedCells \cup StackCells \cup StrayCells

(* Every instruction stores in the places of the property.                 *)
LEMMA ExecuteStores ==
  ASSUME IInv, Execute
  PROVE  OnlyIn(mem, mem', Targets)
<1>1. \A S : S \in {NamedCells, StackCells, StrayCells} /\ OnlyIn(mem, mem', S)
        => OnlyIn(mem, mem', Targets)
  BY DEF OnlyIn, Targets
<1>2. mem' = mem => OnlyIn(mem, mem', Targets)  BY SameMem
<1>0. opcode \in Byte  BY FetchType, IInvImplies
<1>3. CASE STA \/ STX \/ STY  BY <1>1, <1>3, StoresAreNamed
<1>4. CASE PHA \/ PHP \/ TXS \/ JSR \/ BRK  BY <1>1, <1>4, PushesAreOnStack
<1>5. CASE SHIFT /\ opcode \in Documented
  <2>1. opcode \in ShiftFetchOps  BY <1>5, DocumentedStores DEF SHIFT
  <2> DEFINE m == ShiftMode(bbb)
  <2>2. CASE m = "ACC"
    <3>1. mem' = mem  BY <1>5, <2>2 DEF SHIFT, NoStore
    <3> QED  BY <1>2, <3>1
  <2>3. CASE m # "ACC"
    <3>1. PICK t \in StoreTables : m \in DOMAIN t /\ t[m] = opcode
      BY <2>1, <2>3, ShiftNames DEF StoreTables, bbb
    <3>2. m # "NONE"
      <4>1. t \in {INS_ASL, INS_ROL, INS_LSR, INS_ROR, INS_INC, INS_DEC, INS_STA, INS_STX, INS_STY}
        BY DEF StoreTables
      <4> QED
        BY <3>1, <4>1 DEF INS_ASL, INS_ROL, INS_LSR, INS_ROR, INS_INC, INS_DEC, INS_STA, INS_STX, INS_STY
    <3>3. decode_address(EA(m)) \in NamedCells  BY <2>3, <3>1, Named
    <3>4. PICK r : bus_write_byte(EA(m), r)  BY <1>5, <2>3, <3>2 DEF SHIFT
    <3>5. OnlyIn(mem, mem', NamedCells)  BY <3>3, <3>4, BusStore
    <3> QED  BY <1>1, <3>5
  <2> QED  BY <2>2, <2>3
<1>6. CASE INC_DEC /\ opcode \in Documented
  <2>1. opcode \in Codes(INS_INC) \cup Codes(INS_DEC)
    BY <1>6, DocumentedStores DEF INC_DEC
  <2> DEFINE m == IncDecMode(bbb)
  <2>2. PICK t \in StoreTables : m \in DOMAIN t /\ t[m] = opcode
    BY <2>1, IncDecNames DEF StoreTables, bbb
  <2>3. m # "ACC" /\ m # "NONE"  BY <2>1, IncDecNames DEF bbb
  <2>4. decode_address(EA(m)) \in NamedCells  BY <2>2, <2>3, Named
  <2>5. PICK v : bus_write_byte(EA(m), v)  BY <1>6, <2>3 DEF INC_DEC
  <2>6. OnlyIn(mem, mem', NamedCells)  BY <2>4, <2>5, BusStore
  <2> QED  BY <1>1, <2>6
<1>13. CASE (SHIFT \/ INC_DEC) /\ opcode \notin Documented
  <2>1. PICK v : bus_write_byte(addr, v)
    <3>1. CASE SHIFT
      <4>1. ShiftMode(bbb) = "NONE"
        BY <1>0, <1>13, <3>1, UndocumentedStores DEF SHIFT, bbb
      <4> QED  BY <3>1, <4>1 DEF SHIFT
    <3>2. CASE INC_DEC
      <4>1. IncDecMode(bbb) = "NONE"
        BY <1>0, <1>13, <3>2, UndocumentedStores DEF INC_DEC, bbb
      <4> QED  BY <3>2, <4>1 DEF INC_DEC
    <3> QED  BY <1>13, <3>1, <3>2
  <2>2. decode_address(addr) \in StrayCells
    BY <1>13 DEF StrayCells, SHIFT, INC_DEC
  <2> QED  BY <1>1, <2>1, <2>2, BusStore
<1>7. CASE LDA \/ LDX \/ LDY  BY <1>2, <1>7 DEF LDA, LDX, LDY, NoStore
<1>8. CASE AND \/ ORA \/ EOR \/ BIT  BY <1>2, <1>8 DEF AND, ORA, EOR, BIT, Logic, NoStore
<1>9. CASE Transfer \/ PLA \/ PLP \/ TSX
  BY <1>2, <1>9 DEF Transfer, PLA, PLP, TSX, Implied, NoStore
<1>10. CASE JMP_ABS \/ JMP_IND \/ RTS \/ RTI
  BY <1>2, <1>10 DEF JMP_ABS, JMP_IND, RTS, RTI, NoStore
<1>11. CASE FLAG \/ ADC_SBC \/ CMP  BY <1>2, <1>11 DEF FLAG, ADC_SBC, CMP, NoStore
<1>12. CASE BRANCH \/ UNDEFINED  BY <1>2, <1>12 DEF BRANCH, UNDEFINED, NoStore
<1> QED
  BY <1>3, <1>4, <1>5, <1>6, <1>7, <1>8, <1>9, <1>10, <1>11, <1>12, <1>13 DEF Execute

(* No documented instruction stores outside the place its operand names    *)
(* and the stack: the locals addr and fetched that earlier iterations left *)
(* and the cycle at which a call began make no difference to where.  The   *)
(* undocumented ones store at addr or nowhere.                             *)
THEOREM StoresGoWhereTold == Spec => OnlyNamedCells
<1>1. IInv /\ [Next]_vars =>
        [InInstruction =>
           /\ DOMAIN mem \subseteq DOMAIN mem'
           /\ \A h \in DOMAIN mem' :
                \/ h \in DOMAIN mem /\ mem'[h] = mem[h]
                \/ h \in NamedCells \cup StackCells \cup StrayCells]_vars
  BY OnlyExecute, ExecuteStores DEF OnlyIn, Targets
<1> QED  BY <1>1, Invariance, PTL DEF Spec, OnlyNamedCells
=============================================================================
