--------------------------- MODULE CpuProperties ---------------------------
(***************************************************************************)
(* What the CPU core promises its callers and the programs it runs.        *)
(***************************************************************************)
EXTENDS Cpu6502, Sequences

(* Every register and local stays in the range of its C type.              *)
TypeOK == /\ BusTypeOK
          /\ A \in Byte /\ X \in Byte /\ Y \in Byte /\ SP \in Byte
          /\ PS \subseteq BitNo
          /\ PC \in Word16
          /\ I_nxt \in {0, 1}
          /\ call \in {"power_up", "idle", "clock"}
          /\ cycles \in Int /\ requested \in Int /\ consumed \in Int
          /\ addr \in Word16 /\ fetched \in Byte

(* olc6502.h, "Execute the CPU for a specified number of cycles ... return *)
(* the number of cycles consumed": a call that asks for n > 0 cycles stops *)
(* at the first instruction boundary at or past n, so that it consumes n   *)
(* to n + 6 cycles, the longest instruction taking 7; one that asks for    *)
(* none runs nothing.  A caller that adds the results up never drifts by   *)
(* more than that from what it asked for.                                  *)
ClockContract ==
  call = "idle" => IF requested > 0 THEN consumed - requested \in 0 .. 6
                                    ELSE consumed = 0

(* olc6502.h:13, fibonacci.s:27: B exists in the status byte on the stack, *)
(* where it tells who pushed it, and not in PS.  BIT, PLP and RTI or bytes *)
(* of memory into PS, and no byte they find there, a pushed status least   *)
(* of all, brings B along.                                                 *)
BreakFlagOnlyPushed == B \notin PS

(* The ifs behind the switch are not exclusive by construction: no opcode  *)
(* that is fetched is caught by two of them, and none for which the switch *)
(* has done the work already is caught by one.                             *)
OneBodyPerOpcode ==
  call = "clock" => /\ \A b, c \in Blocks(opcode) : b = c
                    /\ opcode \in SwitchOps => Blocks(opcode) = {}
                    /\ opcode \in ShiftFetchOps => ShiftOp(opcode)

InInstruction == call = "clock" /\ Running

(* The delayed interrupt flag: the instruction that changes I_nxt never    *)
(* changes I itself; the next one does, whatever it is.  Only BRK, which   *)
(* masks interrupts at once, and RTI, which restores I at once, do not     *)
(* wait.  So CLI, SEI and PLP let one more instruction run under the old   *)
(* mask.                                                                   *)
DelayedInterruptFlag ==
  [][InInstruction /\ opcode \notin {INS_BRK, INS_RTI}
       => (I \in PS') = (I_nxt = 1)]_vars

(* The places that the opcode names with its operand bytes, and those that *)
(* it pushes to.                                                           *)
StoreTables == {INS_STA, INS_STX, INS_STY, INS_INC, INS_DEC,
                INS_ASL, INS_ROL, INS_LSR, INS_ROR}

NamedCells ==
  UNION {{decode_address(EA(m)) : m \in {k \in DOMAIN t \ {"ACC"} : t[k] = opcode}} :
           t \in StoreTables}

Pushes == CASE opcode \in {INS_PHA, INS_PHP, INS_TXS} -> 1
            [] opcode = INS_JSR -> 2
            [] opcode = INS_BRK -> 3
            [] OTHER -> 0

StackCells == {StackAddress(SP - i) : i \in 0 .. Pushes - 1}

(* The undocumented opcodes that the shift and INC/DEC blocks catch name   *)
(* no place: they store at the address left in addr.                       *)
StrayCells == IF opcode \notin Documented /\ (ShiftOp(opcode) \/ IncDecOp(opcode))
              THEN {decode_address(addr)} ELSE {}

(* A documented opcode stores nowhere but in the place that its own        *)
(* operand names, or on the stack, whatever the instructions before it     *)
(* left in the locals addr and fetched, and wherever a call of             *)
(* olc6502_clock began; of the others only those of StrayCells store.      *)
(* And nothing that the array holds gets lost.                             *)
OnlyNamedCells ==
  [][InInstruction =>
       /\ DOMAIN mem \subseteq DOMAIN mem'
       /\ \A h \in DOMAIN mem' :
            \/ h \in DOMAIN mem /\ mem'[h] = mem[h]
            \/ h \in NamedCells \cup StackCells \cup StrayCells]_vars

(* The stack page from SP upwards is a stack, for programs that keep their *)
(* stores out of it: an RTS goes behind the JSR whose address is on top,   *)
(* an RTI back to where BRK came from, a pull undoes a push, and no other  *)
(* instruction moves or changes what is there, TXS and TSX included, which *)
(* use the page without moving SP.                                         *)
StackDepth == U8(\hFD - SP)
StackBytes == [i \in 1 .. StackDepth |-> memory_get(StackAddress(\hFE - i))]

Stack == INSTANCE CallStack WITH pc <- PC, stack <- StackBytes

StackIsStack == Stack!Spec

(* Such a program: it pulls only what is on the stack and pushes only what *)
(* the page has room for, and none of its other stores goes to the bytes   *)
(* on the stack.                                                           *)
Pulls == CASE opcode \in {INS_PLA, INS_PLP} -> 1
           [] opcode = INS_RTS -> 2
           [] opcode = INS_RTI -> 3
           [] OTHER -> 0

LeavesStackAlone ==
  InInstruction => /\ Pulls <= StackDepth /\ StackDepth + Pushes <= 255
                   /\ \A i \in 1 .. StackDepth :
                        StackAddress(\hFE - i) \notin NamedCells \cup StrayCells

(* Every call of olc6502_clock returns: no opcode, documented or not, runs *)
(* without being charged.                                                  *)
ClockTerminates == call = "clock" ~> (call = "idle" \/ wild)

(* olc6502.c:595-596, "This is Set/Clear flag instruction ... CLV": the     *)
(* last of the four selectors it lists is to clear V.                      *)
ClearOverflow == [][InInstruction /\ opcode = INS_CLV => V \notin PS']_vars

(* olc6502.c:836 and 843: the bytes of a pointer in the zero page are the  *)
(* ones at arg % 256 and (arg + 1) % 256; it never leaves the page.        *)
PointerAt(arg) == Word(bus_read_byte(U8(arg)), bus_read_byte(U8(arg + 1)))

ZeroPagePointers ==
  [][InInstruction =>
       /\ opcode = INS_LDA["INDX"] => A' = bus_read_byte(PointerAt(operand + X))
       /\ opcode = INS_LDA["INDY"] => A' = bus_read_byte(U16(PointerAt(operand) + Y))]_vars

-----------------------------------------------------------------------------
(* The arithmetic blocks against integer arithmetic.                       *)
Overflows(n) == n \notin -128 .. 127

(* ADC: the accumulator and the carry are the 9-bit sum of the operand,    *)
(* the accumulator and the old carry; V tells that the sum of the signed   *)
(* values does not fit.                                                    *)
AddIsExact ==
  [][InInstruction /\ AddOp(opcode) /\ aaa = 3 =>
       LET f == Value(BbbMode(bbb))
           c == BitOf(PS1, C)
       IN  /\ A' + 256 * BitOf(PS', C) = A + f + c
           /\ (V \in PS') = Overflows(Signed(A) + Signed(f) + c)
           /\ (N \in PS') = (Signed(A') < 0)
           /\ (Z \in PS') = (A' = 0)]_vars

(* SBC, as test-adc-sbc-instructions.txt:11 computes it: the accumulator   *)
(* minus the operand plus the carry, for every operand, the 0 and $80      *)
(* whose two's complements are themselves included, and with Z and N of    *)
(* that result.  Nothing is said of the new C and V: see the README.       *)
SubtractIsExact ==
  [][InInstruction /\ AddOp(opcode) /\ aaa = 7 =>
       /\ A' = U8(A - Value(BbbMode(bbb)) + BitOf(PS1, C))
       /\ (N \in PS') = (Signed(A') < 0)
       /\ (Z \in PS') = (A' = 0)]_vars
=============================================================================
