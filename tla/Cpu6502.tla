------------------------------ MODULE Cpu6502 ------------------------------
(***************************************************************************)
(* The CPU core, olc6502.c, with the bus behind it.                        *)
(*                                                                         *)
(* A call of olc6502_clock is several steps: ClockCall stores the request, *)
(* every iteration of its loop is one step (Instruction), ClockReturn is   *)
(* the exit.  A call of olc6502_reset is one step.  The callers are the    *)
(* shell's commands: they may call either function, in any order, whenever *)
(* no call is running.                                                     *)
(*                                                                         *)
(* call, cycles, requested, addr and fetched are the call's locals that    *)
(* survive from one iteration to the next; the local temp does not: every  *)
(* block that reads it assigns it first.  The global oops_cycle does not   *)
(* either: page_boundary_crossed leaves it TRUE after a taken branch, but  *)
(* each case that reads it has just called a helper that assigns it; it is *)
(* the operator Crossed of the addressing mode.  PS.value is the set PS of *)
(* the numbers of its 1 bits.                                              *)
(***************************************************************************)
EXTENDS Bus, Opcodes

CONSTANTS Requests,   \* the cycle counts with which olc6502_clock is called
          Programs    \* the program ROMs of the builds considered

ASSUME CpuAssumption == /\ Requests \subseteq Int
                        /\ \A p \in Programs :
                             \A o \in DOMAIN p : p[o] \in Byte

VARIABLES A, X, Y, SP, PS, PC, I_nxt,           \* olc6502_t
          call, cycles, requested, addr, fetched,
          consumed                \* the cycles the last call accounted for

registers == <<A, X, Y, SP, PS, PC, I_nxt>>
locals    == <<cycles, requested, addr, fetched>>
vars      == <<mem, PROGMEM, past, wild, registers, call, locals, consumed>>

(* union Flags *)
C == 0
Z == 1
I == 2
D == 3
B == 4
U == 5
V == 6
N == 7

SetFlag(ps, f, on) == IF on THEN ps \cup {f} ELSE ps \ {f}
BitOf(ps, f)       == IF f \in ps THEN 1 ELSE 0

(* update_flags_from_register *)
ZN(ps, reg) == SetFlag(SetFlag(ps, Z, reg = 0), N, reg >= 128)

-----------------------------------------------------------------------------
(* One iteration: the opcode at PC, PC behind it, PS after the delayed     *)
(* interrupt flag is in, and the operand behind the opcode.                *)
opcode    == bus_read_byte(PC)
aaa       == Aaa(opcode)
bbb       == Bbb(opcode)
PC1       == U16(PC + 1)
PS1_undelayed == PS                         \* mutant: I_nxt is never taken
PS1       == SetFlag(PS, I, I_nxt = 1)
operand   == bus_read_byte(PC1)
operand16 == bus_read_word(PC1)

(* The addressing helpers.  Base is the address before the index register  *)
(* is added, EA the address the instruction uses.  The zero page pointers  *)
(* are read as words of the bus: nothing keeps them inside the page.       *)
Base(m) == CASE m = "INDY" -> bus_read_word(operand)
             [] m \in {"ABS", "ABSX", "ABSY"} -> operand16
             [] OTHER -> operand

EA(m) == CASE m = "ZPX"  -> U8(operand + X)
           [] m = "ZPY"  -> U8(operand + Y)
           [] m = "ABSX" -> U16(operand16 + X)
           [] m = "ABSY" -> U16(operand16 + Y)
           [] m = "INDX" -> bus_read_word(operand + X)
           [] m = "INDY" -> U16(Base(m) + Y)
           [] OTHER      -> Base(m)

Absolute == {"ABS", "ABSX", "ABSY"}

Value(m) == CASE m = "IM"  -> operand
              [] m = "ACC" -> A
              [] OTHER     -> bus_read_byte(EA(m))

After(m) == CASE m \in {"ACC", "NONE"} -> PC1
              [] m \in Absolute        -> U16(PC + 3)
              [] OTHER                 -> U16(PC + 2)

(* What the helpers take off the cycle count, and the rest that the cases  *)
(* of a read take off: a second cycle when the index crosses a page.       *)
HelperCost(m) == CASE m \in {"ACC", "NONE"}       -> 0
                   [] m \in Absolute              -> 2
                   [] m = "INDY"                  -> 3
                   [] OTHER                       -> 1

Crossed(m) == Page(Base(m)) # Page(EA(m))
Penalty(m) == IF Crossed(m) THEN 2 ELSE 1

ReadCost(m) == HelperCost(m)
  + CASE m = "IM"                        -> 0
      [] m \in {"ZPX", "ZPY", "INDX"}    -> 2
      [] m \in {"ABSX", "ABSY", "INDY"}  -> Penalty(m)
      [] OTHER                           -> 1

(* LDA's zero page case takes no cycle for the read.                       *)
LDACost(m) == IF m = "ZP" THEN HelperCost(m) ELSE ReadCost(m)

StoreCost(m) == HelperCost(m) + (IF m \in {"ZP", "ABS"} THEN 1 ELSE 2)

(* The ADC/SBC and CMP blocks charge one cycle for zero page,X.            *)
BlockCost(m) == IF m = "ZPX" THEN HelperCost(m) + 1 ELSE ReadCost(m)

-----------------------------------------------------------------------------
(* The end of an iteration, fetch_operand's cycle for the opcode included; *)
(* and the parts of the state that a group of instructions leaves alone.   *)
Retire(pc, cost) ==
  /\ PC' = pc
  /\ cycles' = cycles - 1 - cost
  /\ UNCHANGED <<PROGMEM, call, requested, consumed>>

NoStore   == UNCHANGED <<mem, wild>>
NoStack   == UNCHANGED <<SP, I_nxt>>
NoLocals  == UNCHANGED <<addr, fetched>>
NoIndex   == UNCHANGED <<X, Y>>

(* The local addr takes the address only in the modes of the set.          *)
AddrIn(modes, m) == addr' = IF m \in modes THEN EA(m) ELSE addr

LoadA(r) == A' = r /\ PS' = ZN(PS1, r) /\ NoIndex
LoadX(r) == X' = r /\ PS' = ZN(PS1, r) /\ UNCHANGED <<A, Y>>
LoadY(r) == Y' = r /\ PS' = ZN(PS1, r) /\ UNCHANGED <<A, X>>
SameRegs == PS' = PS1 /\ UNCHANGED <<A, X, Y>>

-----------------------------------------------------------------------------
(* Access and bitwise instructions.                                        *)
LDA == \E m \in DOMAIN INS_LDA :
  /\ opcode = INS_LDA[m]
  /\ LoadA(Value(m))
  /\ AddrIn({"ZPX", "ABSX", "ABSY"}, m)
  /\ Retire(After(m), LDACost(m))
  /\ NoStack /\ NoStore /\ UNCHANGED fetched

LDX == \E m \in DOMAIN INS_LDX :
  /\ opcode = INS_LDX[m]
  /\ LoadX(Value(m))
  /\ AddrIn({"ZPY", "ABSY"}, m)
  /\ Retire(After(m), ReadCost(m))
  /\ NoStack /\ NoStore /\ UNCHANGED fetched

LDY == \E m \in DOMAIN INS_LDY :
  /\ opcode = INS_LDY[m]
  /\ LoadY(Value(m))
  /\ AddrIn({"ZPX", "ABSX"}, m)
  /\ Retire(After(m), ReadCost(m))
  /\ NoStack /\ NoStore /\ UNCHANGED fetched

(* AND, ORA and EOR write r into A, r computed from Value(m).              *)
Logic(m, r) ==
  /\ LoadA(r)
  /\ AddrIn({"ZPX", "ABSX", "ABSY", "INDY"}, m)
  /\ Retire(After(m), ReadCost(m))
  /\ NoStack /\ NoStore /\ UNCHANGED fetched

AND == \E m \in DOMAIN INS_AND :
         opcode = INS_AND[m] /\ Logic(m, And8(A, Value(m)))
ORA == \E m \in DOMAIN INS_ORA :
         opcode = INS_ORA[m] /\ Logic(m, Or8(A, Value(m)))
EOR == \E m \in DOMAIN INS_EOR :
         opcode = INS_EOR[m] /\ Logic(m, Xor8(A, Value(m)))

(* N and V are or-ed in: a 0 bit of the operand does not clear them.       *)
BIT == \E m \in DOMAIN INS_BIT :
  /\ opcode = INS_BIT[m]
  /\ fetched' = Value(m)
  /\ PS' = SetFlag(PS1, Z, And8(A, Value(m)) = 0) \cup (Bits(Value(m)) \cap {N, V})
  /\ Retire(After(m), ReadCost(m))
  /\ NoStack /\ NoStore /\ UNCHANGED <<A, X, Y, addr>>

Store(m, reg, modes) ==
  /\ bus_write_byte(EA(m), reg)
  /\ AddrIn(modes, m)
  /\ Retire(After(m), StoreCost(m))
  /\ SameRegs /\ NoStack /\ UNCHANGED fetched

STA == \E m \in DOMAIN INS_STA :
         opcode = INS_STA[m] /\ Store(m, A, DOMAIN INS_STA \ {"ZP"})
STX == \E m \in DOMAIN INS_STX :
         opcode = INS_STX[m] /\ Store(m, X, {"ZPY", "ABS"})
STY == \E m \in DOMAIN INS_STY :
         opcode = INS_STY[m] /\ Store(m, Y, {"ZPX", "ABS"})

-----------------------------------------------------------------------------
(* Transfers, index arithmetic, NOP: one byte, one cycle besides the fetch. *)
Implied == Retire(PC1, 1) /\ NoStack /\ NoStore /\ NoLocals

Transfer ==
  /\ \/ opcode = INS_TAX /\ LoadX(A)
     \/ opcode = INS_TAY /\ LoadY(A)
     \/ opcode = INS_TXA /\ LoadA(X)
     \/ opcode = INS_TYA /\ LoadA(Y)
     \/ opcode = INS_INX /\ LoadX(U8(X + 1))
     \/ opcode = INS_DEX /\ LoadX(U8(X - 1))
     \/ opcode = INS_INY /\ LoadY(U8(Y + 1))
     \/ opcode = INS_DEY /\ LoadY(U8(Y - 1))
     \/ opcode = INS_NOP /\ SameRegs
  /\ Implied

-----------------------------------------------------------------------------
(* The stack.  Its page is RAM under every build, so that a push is never  *)
(* a store outside data[].  push_word_to_stack pushes the high byte first. *)
StackAddress(sp) == STACK_BASE + U8(sp)
Pushed(m, sp, v) == memory_set(m, decode_address(StackAddress(sp)), v)
PushedWord_no_wrap(m, sp, w) ==             \* mutant: STACK_BASE + SP - 1 in an int
  memory_set(Pushed(m, sp, Page(w)), decode_address(STACK_BASE + sp - 1), Lo(w))
PushedWord(m, sp, w) == Pushed(Pushed(m, sp, Page(w)), sp - 1, Lo(w))
Pulled(sp) == bus_read_byte(StackAddress(sp + 1))
PulledWord(sp) == Word(Pulled(sp), Pulled(sp + 1))

(* What PHP and BRK push, and what PLP and RTI take of what they pull.     *)
PushedStatus(ps) == FromBits(ps \cup {B, U})
PulledStatus_unmasked(b) == Bits(b)         \* mutant: & 0xCF forgotten
PulledStatus(b)  == Bits(b) \ {B, U}

PHA == /\ opcode = INS_PHA
       /\ mem' = Pushed(mem, SP, A)
       /\ SP' = U8(SP - 1)
       /\ Retire(PC1, 2)
       /\ SameRegs /\ NoLocals /\ UNCHANGED <<wild, I_nxt>>

PHP == /\ opcode = INS_PHP
       /\ mem' = Pushed(mem, SP, PushedStatus(PS1))
       /\ SP' = U8(SP - 1)
       /\ Retire(PC1, 2)
       /\ SameRegs /\ NoLocals /\ UNCHANGED <<wild, I_nxt>>

PLA == /\ opcode = INS_PLA
       /\ LoadA(Pulled(SP))
       /\ SP' = U8(SP + 1)
       /\ Retire(PC1, 3)
       /\ NoStore /\ NoLocals /\ UNCHANGED I_nxt

(* A changed I is delayed through I_nxt, a bit-field of one bit: the value *)
(* temp & 0x04 that is assigned to it is 0 or 4 and always becomes 0.      *)
PLP == LET temp == PulledStatus(Pulled(SP))
       IN  /\ opcode = INS_PLP
           /\ fetched' = FromBits(PS1)
           /\ I_nxt' = IF (I \in temp) # (I \in PS1) THEN 0 ELSE I_nxt
           /\ PS' = PS1 \cup (temp \ {I})
           /\ SP' = U8(SP + 1)
           /\ Retire(PC1, 3)
           /\ NoStore /\ UNCHANGED <<A, X, Y, addr>>

TXS == /\ opcode = INS_TXS
       /\ mem' = Pushed(mem, SP, X)
       /\ Retire(PC1, 1)
       /\ SameRegs /\ NoStack /\ NoLocals /\ UNCHANGED wild

TSX == /\ opcode = INS_TSX
       /\ LoadX(Pulled(SP - 1))
       /\ Implied

-----------------------------------------------------------------------------
(* Jumps, calls and returns.                                               *)
JMP_ABS == /\ opcode = INS_JMP_ABS
           /\ Retire(operand16, HelperCost("ABS"))
           /\ SameRegs /\ NoStack /\ NoStore /\ NoLocals

(* The high byte comes from the start of the page when the pointer is at   *)
(* its end, as in the 6502.                                                *)
JMP_IND ==
  LET ptr  == operand16
      high == Word(Lo(ptr + 1), Page(ptr))
  IN  /\ opcode = INS_JMP_IND
      /\ addr' = ptr
      /\ Retire(Word(bus_read_byte(ptr), bus_read_byte(high)), HelperCost("ABS") + 2)
      /\ SameRegs /\ NoStack /\ NoStore /\ UNCHANGED fetched

JSR == /\ opcode = INS_JSR
       /\ addr' = operand16
       /\ mem' = PushedWord(mem, SP, U16(PC + 2))
       /\ SP' = U8(SP - 2)
       /\ Retire(operand16, HelperCost("ABS") + 2 + 1)
       /\ SameRegs /\ UNCHANGED <<wild, I_nxt, fetched>>

RTS == /\ opcode = INS_RTS
       /\ SP' = U8(SP + 2)
       /\ Retire(U16(PulledWord(SP) + 1), 2 + 3)
       /\ SameRegs /\ NoStore /\ NoLocals /\ UNCHANGED I_nxt

BRK == /\ opcode = INS_BRK
       /\ mem' = Pushed(PushedWord(mem, SP, U16(PC + 2)), SP - 2, PushedStatus(PS1))
       /\ SP' = U8(SP - 3)
       /\ PS' = PS1 \cup {I}
       /\ I_nxt' = 1
       /\ Retire(bus_read_word(IRQ_VECTOR), 1 + 2 + 1 + HelperCost("ABS"))
       /\ NoLocals /\ UNCHANGED <<A, X, Y, wild>>

(* The pulled status is or-ed in; I_nxt is truncated as in PLP.            *)
RTI == /\ opcode = INS_RTI
       /\ fetched' = Pulled(SP)
       /\ PS' = PS1 \cup PulledStatus(Pulled(SP))
       /\ I_nxt' = 0
       /\ SP' = U8(SP + 3)
       /\ addr' = PulledWord(SP + 1)
       /\ Retire(PulledWord(SP + 1), 1 + 2 + 2)
       /\ NoStore /\ UNCHANGED <<A, X, Y>>

-----------------------------------------------------------------------------
(* The six blocks behind the switch.                                       *)
FLAG ==
  LET on == aaa % 2 = 1
      selector == aaa \div 2
  IN  /\ FlagOp(opcode)
      /\ PS' = CASE selector = 0 -> SetFlag(PS1, C, on)
                 [] selector = 2 -> SetFlag(PS1, V, on)
                 [] selector = 3 -> SetFlag(PS1, D, on)
                 [] OTHER        -> PS1
      /\ I_nxt' = IF selector = 1 THEN aaa % 2 ELSE I_nxt
      /\ Retire(PC1, 1)
      /\ NoStore /\ NoLocals /\ UNCHANGED <<A, X, Y, SP>>

(* ASL, ROL, LSR and ROR of byte f: the new carry and the result.          *)
ShiftCarry(f) == IF aaa < 2 THEN 7 \in Bits(f) ELSE 0 \in Bits(f)
ShiftResult_wide(f) == CASE aaa < 2 -> 2 * f   \* mutant: not stored in a byte
                        [] OTHER   -> f \div 2
ShiftResult(f) == CASE aaa = 0 -> U8(2 * f)
                    [] aaa = 1 -> U8(2 * f + BitOf(PS1, C))
                    [] aaa = 2 -> f \div 2
                    [] OTHER   -> f \div 2 + 128 * BitOf(PS1, C)

(* The mode with which the switch fetched; the opcodes it has no case for  *)
(* shift what an earlier instruction left in fetched and store at addr.    *)
ShiftMode_no_zpx(b) ==                      \* mutant: no case for ZPX
  CASE b = 1 -> "ZP" [] b = 2 -> "ACC" [] b = 3 -> "ABS" [] b = 7 -> "ABSX" [] OTHER -> "NONE"
ShiftMode(b) == CASE b = 1 -> "ZP"  [] b = 2 -> "ACC" [] b = 3 -> "ABS"
                  [] b = 5 -> "ZPX" [] b = 7 -> "ABSX" [] OTHER -> "NONE"

SHIFT ==
  LET m == ShiftMode(bbb)
      f == IF m = "NONE" THEN fetched ELSE Value(m)
      r == ShiftResult(f)
      a == IF m = "NONE" THEN addr ELSE EA(m)
  IN  /\ ShiftOp(opcode)
      /\ fetched' = r
      /\ PS' = ZN(SetFlag(PS1, C, ShiftCarry(f)), r)
      /\ \/ /\ m = "ACC"
            /\ A' = r
            /\ Retire(After(m), 1)
            /\ NoStore /\ UNCHANGED addr
         \/ /\ m # "ACC"
            /\ bus_write_byte(a, r)
            /\ addr' = a
            /\ Retire(After(m), HelperCost(m) + (IF bbb < 4 THEN 3 ELSE 4))
            /\ UNCHANGED A
      /\ NoIndex /\ NoStack

(* The 16-bit addend: SBC adds the two's complement, and still adds C.     *)
Addend_ones(f) == IF aaa = 7 THEN U16(65535 - f) ELSE f   \* mutant: ~ alone
Addend(f) == IF aaa = 7 THEN U16(65536 - f) ELSE f
Sum_no_carry(f) == U16(A + Addend(f))       \* mutant: C not added
Sum(f)    == U16(A + Addend(f) + BitOf(PS1, C))
Bit7(n)   == (n \div 128) % 2

ADC_SBC ==
  LET m   == BbbMode(bbb)
      f   == Value(m)
      sum == Sum(f)
      v   == Bit7(sum) # Bit7(A) /\ Bit7(sum) # Bit7(Addend(f))
  IN  /\ AddOp(opcode)
      /\ A' = U8(sum)
      /\ PS' = ZN(SetFlag(SetFlag(PS1, V, v), C, sum > 255), U8(sum))
      /\ fetched' = f
      /\ addr' = IF m = "IM" THEN addr ELSE EA(m)
      /\ Retire(After(m), BlockCost(m))
      /\ NoIndex /\ NoStack /\ NoStore

(* bbb = 0 is (zp,X) here for CPX and CPY too.                             *)
CMP ==
  LET m   == BbbMode(bbb)
      f   == Value(m)
      reg == IF Cc(opcode) = 1 THEN A ELSE IF aaa = 7 THEN X ELSE Y
  IN  /\ CompareOp(opcode)
      /\ PS' = ZN(SetFlag(PS1, C, reg >= f), U8(reg - f))
      /\ fetched' = f
      /\ addr' = IF m = "IM" THEN addr ELSE EA(m)
      /\ Retire(After(m), BlockCost(m))
      /\ NoStack /\ NoStore /\ UNCHANGED <<A, X, Y>>

(* The accumulator is incremented, not the byte at the address.            *)
INC_DEC ==
  LET m    == IncDecMode(bbb)
      a    == IF m = "NONE" THEN addr ELSE EA(m)
      temp == IF aaa = 7 THEN U8(A + 1) ELSE U8(A - 1)
      cost == CASE m \in {"ZP", "ABS"} -> 3 [] m = "NONE" -> 0 [] OTHER -> 4
  IN  /\ IncDecOp(opcode)
      /\ PS' = ZN(PS1, temp)
      /\ addr' = a
      /\ bus_write_byte(a, temp)
      /\ Retire(After(m), HelperCost(m) + cost)
      /\ NoStack /\ UNCHANGED <<A, X, Y, fetched>>

should_branch ==
  LET flag == CASE aaa \div 2 = 0 -> N [] aaa \div 2 = 1 -> V
                [] aaa \div 2 = 2 -> C [] OTHER -> Z
  IN  (flag \in PS1) = (aaa % 2 = 1)

BRANCH ==
  LET next   == U16(PC + 2)
      target == U16(next + Signed(operand))
  IN  /\ BranchOp(opcode)
      /\ fetched' = operand
      /\ \/ /\ should_branch
            /\ Retire(target, 1 + (IF Page(PC1) # Page(target) THEN 2 ELSE 1))
         \/ /\ ~should_branch
            /\ Retire(next, 1)
      /\ SameRegs /\ NoStack /\ NoStore /\ UNCHANGED addr

(* No case and no block: only the opcode is fetched.                       *)
Undefined == opcode \notin SwitchOps /\ Blocks(opcode) = {}

UNDEFINED_jam == /\ Undefined               \* mutant: the CPU jams, uncharged
                 /\ UNCHANGED <<mem, PROGMEM, wild, registers, call, locals, consumed>>
UNDEFINED == /\ Undefined
             /\ Retire(PC1, 0)
             /\ SameRegs /\ NoStack /\ NoStore /\ NoLocals

-----------------------------------------------------------------------------
(* The calls.                                                              *)
Execute ==
  \/ LDA \/ LDX \/ LDY \/ STA \/ STX \/ STY
  \/ AND \/ ORA \/ EOR \/ BIT \/ Transfer
  \/ PHA \/ PHP \/ PLA \/ PLP \/ TXS \/ TSX
  \/ JMP_ABS \/ JMP_IND \/ JSR \/ RTS \/ BRK \/ RTI
  \/ FLAG \/ SHIFT \/ ADC_SBC \/ CMP \/ INC_DEC \/ BRANCH
  \/ UNDEFINED

Running_inclusive == cycles >= 0            \* mutant: off by one
Running == cycles > 0

Instruction == call = "clock" /\ Running /\ Execute

ClockReturn == /\ call = "clock" /\ ~Running
               /\ call' = "idle"
               /\ consumed' = requested - cycles
               /\ cycles' = 0 /\ addr' = 0 /\ fetched' = 0
               /\ UNCHANGED <<mem, PROGMEM, wild, registers, requested>>

(* The locals live as long as the call (between calls they are 0 here, and *)
(* nothing reads them); addr and fetched start at 0.                       *)
ClockCall(n) == /\ call = "idle"
                /\ call' = "clock"
                /\ requested' = n
                /\ cycles' = n
                /\ addr' = 0
                /\ fetched' = 0
                /\ UNCHANGED <<mem, PROGMEM, wild, registers, consumed>>

(* main resets the CPU behind olc6502_init before it starts the shell.     *)
Reset == /\ call \in {"power_up", "idle"}
         /\ call' = "idle"
         /\ PC' = bus_read_word(RESET_VECTOR)
         /\ SP' = \hFD
         /\ PS' = (PS \cup {I}) \ {D}
         /\ I_nxt' = 1
         /\ consumed' = 7
         /\ requested' = 7
         /\ UNCHANGED <<mem, PROGMEM, wild, A, X, Y, cycles, addr, fetched>>

Init == /\ BusInit
        /\ PROGMEM \in Programs
        /\ A = 0 /\ X = 0 /\ Y = 0
        /\ SP = \hFD /\ PS = {I} /\ PC = RESET_VECTOR /\ I_nxt = 1
        /\ call = "power_up"
        /\ cycles = 0 /\ requested = 0 /\ consumed = 0
        /\ addr = 0 /\ fetched = 0

Step == ~wild /\ past' \in Past /\ (Instruction \/ ClockReturn)

Caller == ~wild /\ past' \in Past /\ (Reset \/ \E n \in Requests : ClockCall(n))

Next == Step \/ Caller

(* A running call of olc6502_clock is C code with nothing to wait for: it  *)
(* takes its next step.  Nobody has to call it.                            *)
Spec == Init /\ [][Next]_vars /\ WF_vars(Step)
=============================================================================
