--------------------------- MODULE Cpu6502_proofs ---------------------------
(***************************************************************************)
(* Theorems about the CPU core, for every set of requests, every program   *)
(* ROM and both builds.                                                    *)
(***************************************************************************)
EXTENDS CpuProperties, Bus_proofs, TLAPS

-----------------------------------------------------------------------------
(* The status.                                                             *)

(* The flags of the CPU.                                                   *)
Flags == {C, Z, I, D, V, N}

(* They are bits of a status other than B and U.                           *)
LEMMA FlagsAreBits ==
  ASSUME NEW S \in SUBSET Flags PROVE S \subseteq BitNo /\ S \cap {B, U} = {}
<1>1. \A f \in Flags : f \in BitNo /\ f # B /\ f # U
  BY DEF Flags, BitNo, C, Z, I, D, B, U, V, N
<1> QED  BY <1>1

(* What a status byte is without B and U are flags.                        *)
LEMMA BitsAreFlags == \A b : PulledStatus(b) \subseteq Flags
<1>1. \A f \in BitNo : f # B /\ f # U => f \in Flags
  BY DEF Flags, BitNo, C, Z, I, D, B, U, V, N
<1> QED  BY <1>1, BitsType DEF PulledStatus

(* Setting or clearing a flag leaves a set of flags.                       *)
LEMMA SetFlagType ==
  \A ps \in SUBSET Flags : \A f \in Flags : \A on : SetFlag(ps, f, on) \subseteq Flags
  BY DEF SetFlag

(* update_flags_from_register does too.                                    *)
LEMMA ZNType ==
  ASSUME NEW ps \in SUBSET Flags, NEW r PROVE ZN(ps, r) \subseteq Flags
<1>1. Z \in Flags /\ N \in Flags  BY DEF Flags
<1>2. SetFlag(ps, Z, r = 0) \in SUBSET Flags  BY <1>1 DEF SetFlag
<1> QED  BY <1>1, <1>2 DEF ZN, SetFlag

-----------------------------------------------------------------------------
(* Stores.                                                                 *)

(* The stack page is RAM, and not a mirror of it.                          *)
LEMMA StackDecodes ==
  ASSUME NEW sp \in Int
  PROVE  /\ decode_address(StackAddress(sp)) = StackAddress(sp)
         /\ StackAddress(sp) \in \h100 .. \h1FF
<1> DEFINE a == StackAddress(sp)
<1>1. a \in \h100 .. \h1FF
  BY DEF StackAddress, STACK_BASE, U8
<1>2. a \div \h2000 = 0 /\ a % \h800 = a  BY <1>1
<1> QED
  BY <1>1, <1>2 DEF decode_address, CE, CE_CPU_RAM, CE_PPU, CE_EXPANSION, CE_SRAM,
                    chip_select_cpu_ram, M6502_RAM_SIZE

(* So a push never leaves data[].                                          *)
LEMMA PushType ==
  ASSUME NEW m, MemOK(m), NEW sp \in Int, NEW v \in Byte
  PROVE  MemOK(Pushed(m, sp, v))
<1> DEFINE a == StackAddress(sp)
<1>1. a \in \h100 .. \h1FF /\ decode_address(a) = a  BY StackDecodes
<1>2. a \in 0 .. TOTAL_MEMORY_SIZE - 1
  BY <1>1, BusAssumption
  DEF TOTAL_MEMORY_SIZE, M6502_RAM_SIZE, PPU_REGISTERS_SIZE, SRAM_SIZE
<1> QED  BY <1>1, <1>2, SetType DEF Pushed

(* Nothing was stored.                                                     *)
LEMMA NoStoreType ==
  ASSUME BusTypeOK, NoStore, past' \in Past, PROGMEM' = PROGMEM
  PROVE  BusTypeOK'
  BY DEF BusTypeOK, NoStore
-----------------------------------------------------------------------------
(* Addressing and costs.                                                   *)

(* PC behind the opcode, and the operand.                                  *)
LEMMA FetchType ==
  ASSUME TypeOK
  PROVE  /\ PC1 \in Word16 /\ opcode \in Byte
         /\ operand \in Byte /\ operand16 \in Word16
         /\ aaa \in 0 .. 7 /\ bbb \in 0 .. 7
<1>1. PC + 1 \in Int
  <2>1. PC \in Word16  BY DEF TypeOK
  <2> QED  BY <2>1, WordRange
<1>2. opcode \in Byte /\ operand \in Byte /\ operand16 \in Word16
  BY ReadType DEF opcode, operand, operand16, TypeOK
<1>3. opcode \in Int /\ 0 <= opcode /\ opcode <= 255  BY <1>2 DEF Byte
<1>4. opcode \div 32 \in 0 .. 7  BY <1>3
<1>5. (opcode \div 4) % 8 \in 0 .. 7  BY <1>3
<1> QED  BY <1>1, <1>2, <1>4, <1>5, Truncation DEF PC1, aaa, bbb, Aaa, Bbb

(* The addresses of an instruction, and the value it works on.             *)
LEMMA AddressType ==
  ASSUME TypeOK, NEW m
  PROVE  /\ EA(m) \in Word16 /\ Base(m) \in Word16
         /\ Value(m) \in Byte /\ After(m) \in Word16
<1>1. operand \in Byte /\ operand16 \in Word16 /\ PC1 \in Word16  BY FetchType
<1>2. \A a : bus_read_word(a) \in Word16 /\ bus_read_byte(a) \in Byte
  BY ReadType DEF TypeOK
<1>3. (\A b \in Byte : b \in Int /\ b \in Word16) /\ (\A w \in Word16 : w \in Int)
  BY ByteRange, WordRange
<1>4. A \in Byte /\ X \in Byte /\ Y \in Byte /\ PC \in Word16  BY DEF TypeOK
<1>5. Base(m) \in Word16  BY <1>1, <1>2, <1>3 DEF Base
<1>sums. /\ operand + X \in Int /\ operand + Y \in Int
      /\ operand16 + X \in Int /\ operand16 + Y \in Int
      /\ Base(m) + Y \in Int /\ PC + 3 \in Int /\ PC + 2 \in Int
  BY <1>1, <1>3, <1>4, <1>5
<1>6. /\ U8(operand + X) \in Byte /\ U8(operand + Y) \in Byte
      /\ U16(operand16 + X) \in Word16 /\ U16(operand16 + Y) \in Word16
      /\ U16(Base(m) + Y) \in Word16
      /\ U16(PC + 3) \in Word16 /\ U16(PC + 2) \in Word16
  BY <1>sums, Truncation
<1>7. EA(m) \in Word16  BY <1>2, <1>3, <1>5, <1>6 DEF EA
<1>8. Value(m) \in Byte  BY <1>1, <1>2, <1>4 DEF Value
<1>9. After(m) \in Word16  BY <1>1, <1>6 DEF After
<1> QED  BY <1>5, <1>7, <1>8, <1>9

(* No addressing mode makes an instruction cost more than six cycles       *)
(* besides its opcode's.                                                   *)
LEMMA CostBound ==
  ASSUME NEW m
  PROVE  /\ HelperCost(m) \in 0 .. 3
         /\ m # "INDY" => HelperCost(m) \in 0 .. 2
         /\ ReadCost(m) \in 0 .. 6 /\ LDACost(m) \in 0 .. 6
         /\ StoreCost(m) \in 0 .. 6 /\ BlockCost(m) \in 0 .. 6
<1>1. HelperCost(m) \in 0 .. 3 /\ (m # "INDY" => HelperCost(m) \in 0 .. 2)
  BY DEF HelperCost
<1>2. Penalty(m) \in 1 .. 2  BY DEF Penalty
<1>3. ReadCost(m) \in 0 .. 6  BY <1>1, <1>2 DEF ReadCost
<1> QED  BY <1>1, <1>3 DEF LDACost, StoreCost, BlockCost

-----------------------------------------------------------------------------
(* The inductive invariant.  A running call has not overrun its request by *)
(* more than one instruction: the loop starts one only with a cycle left,  *)
(* and none takes more than seven.                                         *)
Budget ==
  /\ call = "clock" => IF requested > 0 THEN cycles \in -6 .. requested
                                        ELSE cycles = requested
  /\ ClockContract

CountOK ==
  /\ PC \in Word16
  /\ call \in {"power_up", "idle", "clock"}
  /\ cycles \in Int /\ requested \in Int /\ consumed \in Int
  /\ Budget

(* The two reserved bits of the status are 0.                              *)
RegsOK ==
  /\ A \in Byte /\ X \in Byte /\ Y \in Byte /\ SP \in Byte
  /\ PS \subseteq Flags
  /\ I_nxt \in {0, 1}

LocalsOK == addr \in Word16 /\ fetched \in Byte

IInv == BusTypeOK /\ RegsOK /\ LocalsOK /\ CountOK

(* The invariant implies the properties that are to be proved.             *)
LEMMA IInvImplies == IInv => TypeOK /\ BreakFlagOnlyPushed /\ ClockContract
  BY FlagsAreBits
  DEF IInv, RegsOK, LocalsOK, CountOK, Budget, TypeOK, BreakFlagOnlyPushed

(* The locals of olc6502_clock start at 0, which is a byte and a word.      *)
LEMMA ZeroType == 0 \in Byte /\ 0 \in Word16
<1>1. 0 \in Byte  BY DEF Byte
<1> QED  BY <1>1, ByteRange

(* It holds in the power-up state.                                         *)
LEMMA InitIInv == Init => IInv
<1> SUFFICES ASSUME Init PROVE IInv  OBVIOUS
<1>1. BusTypeOK  BY CpuAssumption DEF Init, BusInit, BusTypeOK
<1>2. RegsOK
  BY DEF Init, RegsOK, Byte, Flags
<1>3. LocalsOK  BY ZeroType DEF Init, LocalsOK
<1>4. CountOK
  <2>1. RESET_VECTOR \in Word16  BY IsWord DEF RESET_VECTOR
  <2>2. Budget  BY DEF Init, Budget, ClockContract
  <2> QED  BY <2>1, <2>2 DEF Init, CountOK
<1> QED  BY <1>1, <1>2, <1>3, <1>4 DEF IInv

(* The delayed interrupt flag is a flag.                                   *)
LEMMA PS1Type == ASSUME RegsOK PROVE PS1 \subseteq Flags
  BY DEF RegsOK, PS1, SetFlag, Flags

(* The end of an iteration keeps the budget.                               *)
LEMMA RetireOK ==
  ASSUME IInv, InInstruction, NEW pc \in Word16, NEW cost \in 0 .. 6,
         Retire(pc, cost)
  PROVE  CountOK' /\ PROGMEM' = PROGMEM
<1>1. /\ cycles \in Int /\ requested \in Int /\ consumed \in Int
      /\ cycles > 0 /\ call = "clock" /\ Budget
  BY DEF IInv, CountOK, InInstruction, Running
<1>2. /\ PC' = pc /\ cycles' = cycles - 1 - cost /\ call' = call
      /\ requested' = requested /\ consumed' = consumed /\ PROGMEM' = PROGMEM
  BY DEF Retire
<1>3. requested > 0 /\ cycles <= requested  BY <1>1 DEF Budget
<1>4. cycles' \in -6 .. requested  BY <1>1, <1>2, <1>3
<1>5. Budget'  BY <1>1, <1>2, <1>3, <1>4 DEF Budget, ClockContract
<1> QED  BY <1>1, <1>2, <1>4, <1>5 DEF CountOK

-----------------------------------------------------------------------------
(* One lemma per kind of instruction.                                      *)

(* A register takes a byte, or none does.                                  *)
LEMMA LoadOK ==
  ASSUME RegsOK, NEW r \in Byte, NoStack,
         LoadA(r) \/ LoadX(r) \/ LoadY(r) \/ SameRegs
  PROVE  RegsOK'
<1>1. ZN(PS1, r) \subseteq Flags  BY PS1Type, ZNType
<1> QED
  BY <1>1, PS1Type
  DEF RegsOK, LoadA, LoadX, LoadY, SameRegs, NoStack, NoIndex

(* addr takes an effective address or stays.                               *)
LEMMA AddrOK ==
  ASSUME IInv, NEW modes, NEW m, AddrIn(modes, m), UNCHANGED fetched
  PROVE  LocalsOK'
<1>1. EA(m) \in Word16  BY AddressType, IInvImplies
<1> QED  BY <1>1 DEF IInv, LocalsOK, AddrIn

(* The access and bitwise instructions that read.                          *)
LEMMA ReadOK ==
  ASSUME IInv, InInstruction, past' \in Past,
         NEW m, NEW modes, NEW r \in Byte, NEW cost \in 0 .. 6,
         LoadA(r) \/ LoadX(r) \/ LoadY(r),
         AddrIn(modes, m), Retire(After(m), cost),
         NoStack, NoStore, UNCHANGED fetched
  PROVE  IInv'
<1>1. RegsOK'  BY LoadOK DEF IInv
<1>2. LocalsOK'  BY AddrOK
<1>3. After(m) \in Word16  BY AddressType, IInvImplies
<1>4. CountOK' /\ PROGMEM' = PROGMEM  BY <1>3, RetireOK
<1>5. BusTypeOK'  BY <1>4, NoStoreType DEF IInv
<1> QED  BY <1>1, <1>2, <1>4, <1>5 DEF IInv

(* LDA, LDX, LDY, AND, ORA and EOR.                                        *)
LEMMA LoadsOK ==
  ASSUME IInv, InInstruction, past' \in Past,
         LDA \/ LDX \/ LDY \/ AND \/ ORA \/ EOR
  PROVE  IInv'
<1>1. \A m : Value(m) \in Byte  BY AddressType, IInvImplies
<1>2. \A m : LDACost(m) \in 0 .. 6 /\ ReadCost(m) \in 0 .. 6  BY CostBound
<1>3. CASE LDA
  <2>1. PICK m : /\ LoadA(Value(m)) /\ AddrIn({"ZPX", "ABSX", "ABSY"}, m)
                 /\ Retire(After(m), LDACost(m))
                 /\ NoStack /\ NoStore /\ UNCHANGED fetched
    BY <1>3 DEF LDA
  <2> QED  BY <1>1, <1>2, <2>1, ReadOK
<1>4. CASE LDX
  <2>1. PICK m : /\ LoadX(Value(m)) /\ AddrIn({"ZPY", "ABSY"}, m)
                 /\ Retire(After(m), ReadCost(m))
                 /\ NoStack /\ NoStore /\ UNCHANGED fetched
    BY <1>4 DEF LDX
  <2> QED  BY <1>1, <1>2, <2>1, ReadOK
<1>5. CASE LDY
  <2>1. PICK m : /\ LoadY(Value(m)) /\ AddrIn({"ZPX", "ABSX"}, m)
                 /\ Retire(After(m), ReadCost(m))
                 /\ NoStack /\ NoStore /\ UNCHANGED fetched
    BY <1>5 DEF LDY
  <2> QED  BY <1>1, <1>2, <2>1, ReadOK
<1>6. \A m : And8(A, Value(m)) \in Byte /\ Or8(A, Value(m)) \in Byte
                /\ Xor8(A, Value(m)) \in Byte
  BY FromBitsType DEF And8, Or8, Xor8
<1> DEFINE modes == {"ZPX", "ABSX", "ABSY", "INDY"}
<1>7. ASSUME NEW m, NEW r \in Byte,
             LoadA(r), AddrIn(modes, m), Retire(After(m), ReadCost(m)),
             NoStack, NoStore, UNCHANGED fetched
      PROVE  IInv'
  BY <1>2, <1>7, ReadOK
<1>8. CASE AND  BY <1>6, <1>7, <1>8 DEF AND, Logic
<1>9. CASE ORA  BY <1>6, <1>7, <1>9 DEF ORA, Logic
<1>10. CASE EOR  BY <1>6, <1>7, <1>10 DEF EOR, Logic
<1> QED  BY <1>3, <1>4, <1>5, <1>8, <1>9, <1>10

(* BIT.                                                                    *)
LEMMA BITOK ==
  ASSUME IInv, InInstruction, past' \in Past, BIT PROVE IInv'
<1>1. PICK m :
        /\ fetched' = Value(m)
        /\ PS' = SetFlag(PS1, Z, And8(A, Value(m)) = 0)
                   \cup (Bits(Value(m)) \cap {N, V})
        /\ Retire(After(m), ReadCost(m))
        /\ NoStack /\ NoStore /\ UNCHANGED <<A, X, Y, addr>>
  BY DEF BIT
<1>2. Value(m) \in Byte /\ After(m) \in Word16  BY AddressType, IInvImplies
<1>3. PS1 \subseteq Flags  BY PS1Type DEF IInv
<1>4. PS' \subseteq Flags  BY <1>1, <1>3 DEF SetFlag, Flags
<1>5. RegsOK'  BY <1>1, <1>4 DEF IInv, RegsOK, NoStack
<1>6. LocalsOK'  BY <1>1, <1>2 DEF IInv, LocalsOK
<1>7. CountOK' /\ PROGMEM' = PROGMEM  BY <1>1, <1>2, CostBound, RetireOK
<1>8. BusTypeOK'  BY <1>1, <1>7, NoStoreType DEF IInv
<1> QED  BY <1>5, <1>6, <1>7, <1>8 DEF IInv

(* STA, STX and STY.                                                       *)
LEMMA StoreOK ==
  ASSUME IInv, InInstruction, past' \in Past,
         NEW m, NEW modes, NEW reg \in Byte,
         bus_write_byte(EA(m), reg), AddrIn(modes, m),
         Retire(After(m), StoreCost(m)), SameRegs, NoStack, UNCHANGED fetched
  PROVE  IInv'
<1>1. EA(m) \in Word16 /\ After(m) \in Word16  BY AddressType, IInvImplies
<1>2. RegsOK'  BY LoadOK DEF IInv
<1>3. LocalsOK'  BY AddrOK
<1>4. CountOK' /\ PROGMEM' = PROGMEM  BY <1>1, CostBound, RetireOK
<1>5. BusTypeOK'  BY <1>1, <1>4, WriteType DEF IInv
<1> QED  BY <1>2, <1>3, <1>4, <1>5 DEF IInv

(* The same for the three of them.                                         *)
LEMMA StoresOK ==
  ASSUME IInv, InInstruction, past' \in Past, STA \/ STX \/ STY PROVE IInv'
<1>1. A \in Byte /\ X \in Byte /\ Y \in Byte  BY DEF IInv, RegsOK
<1>2. CASE STA  BY <1>1, <1>2, StoreOK DEF STA, Store
<1>3. CASE STX  BY <1>1, <1>3, StoreOK DEF STX, Store
<1>4. CASE STY  BY <1>1, <1>4, StoreOK DEF STY, Store
<1> QED  BY <1>2, <1>3, <1>4

(* Transfers, index arithmetic and NOP.                                    *)
LEMMA TransferOK ==
  ASSUME IInv, InInstruction, past' \in Past, Transfer PROVE IInv'
<1>1. A \in Byte /\ X \in Byte /\ Y \in Byte  BY DEF IInv, RegsOK
<1>2. X + 1 \in Int /\ X - 1 \in Int /\ Y + 1 \in Int /\ Y - 1 \in Int
  BY <1>1, ByteRange
<1>3. U8(X + 1) \in Byte /\ U8(X - 1) \in Byte /\ U8(Y + 1) \in Byte /\ U8(Y - 1) \in Byte
  BY <1>2, Truncation
<1>4. PICK r \in Byte : LoadA(r) \/ LoadX(r) \/ LoadY(r) \/ SameRegs
  BY <1>1, <1>3 DEF Transfer
<1>5. RegsOK'  BY <1>4, LoadOK DEF Transfer, Implied, IInv
<1>6. LocalsOK'  BY DEF Transfer, Implied, NoLocals, IInv, LocalsOK
<1>7. PC1 \in Word16  BY FetchType, IInvImplies
<1>8. CountOK' /\ PROGMEM' = PROGMEM  BY <1>7, RetireOK DEF Transfer, Implied
<1>9. BusTypeOK'  BY <1>8, NoStoreType DEF Transfer, Implied, IInv
<1> QED  BY <1>5, <1>6, <1>8, <1>9 DEF IInv

-----------------------------------------------------------------------------
(* The stack.                                                              *)

(* Pulled bytes and words, and the stack pointer behind a push or a pull.  *)
LEMMA StackType ==
  ASSUME IInv
  PROVE  /\ SP \in Int
         /\ \A n \in Int : U8(SP + n) \in Byte /\ U8(SP - n) \in Byte
         /\ \A sp : Pulled(sp) \in Byte /\ PulledWord(sp) \in Word16
<1>1. SP \in Int  BY ByteRange DEF IInv, RegsOK
<1>2. \A n \in Int : SP + n \in Int /\ SP - n \in Int  BY <1>1
<1>3. \A sp : Pulled(sp) \in Byte  BY ReadType DEF Pulled, IInv
<1>4. \A sp : PulledWord(sp) \in Word16  BY <1>3, WordType DEF PulledWord
<1> QED  BY <1>1, <1>2, <1>3, <1>4, Truncation

(* An array with pushed bytes or words is well-formed.                     *)
LEMMA PushesType ==
  ASSUME IInv
  PROVE  /\ \A v \in Byte : MemOK(Pushed(mem, SP, v))
         /\ \A w \in Word16 : MemOK(PushedWord(mem, SP, w))
         /\ \A w \in Word16, v \in Byte :
              MemOK(Pushed(PushedWord(mem, SP, w), SP - 2, v))
<1>1. MemOK(mem)  BY DEF IInv, BusTypeOK, MemOK
<1>2. SP \in Int /\ SP - 1 \in Int /\ SP - 2 \in Int  BY StackType
<1>3. \A v \in Byte : MemOK(Pushed(mem, SP, v))  BY <1>1, <1>2, PushType
<1>4. \A w \in Word16 : MemOK(PushedWord(mem, SP, w))
  <2> TAKE w \in Word16
  <2>1. Lo(w) \in Byte /\ Page(w) \in Byte  BY SplitWord
  <2>2. MemOK(Pushed(mem, SP, Page(w)))  BY <1>3, <2>1
  <2> QED  BY <1>2, <2>1, <2>2, PushType DEF PushedWord
<1>5. \A w \in Word16, v \in Byte :
        MemOK(Pushed(PushedWord(mem, SP, w), SP - 2, v))
  BY <1>2, <1>4, PushType
<1> QED  BY <1>3, <1>4, <1>5

(* The array is well-formed and nothing was stored outside.                *)
LEMMA MemType ==
  ASSUME BusTypeOK, MemOK(mem'), wild' = wild, past' \in Past, PROGMEM' = PROGMEM
  PROVE  BusTypeOK'
  BY DEF BusTypeOK, MemOK

(* PHA, PHP and TXS push a byte; TXS leaves the pointer where it is.       *)
LEMMA PushByteOK ==
  ASSUME IInv, InInstruction, past' \in Past, PHA \/ PHP \/ TXS PROVE IInv'
<1>1. PICK v \in Byte, cost \in 0 .. 6 :
        /\ mem' = Pushed(mem, SP, v)
        /\ Retire(PC1, cost)
        /\ SameRegs /\ NoLocals /\ UNCHANGED <<wild, I_nxt>>
        /\ SP' \in {SP, U8(SP - 1)}
  <2>1. A \in Byte /\ X \in Byte /\ PushedStatus(PS1) \in Byte
    BY FromBitsType DEF IInv, RegsOK, PushedStatus
  <2>2. 1 \in 0 .. 6 /\ 2 \in 0 .. 6  OBVIOUS
  <2>3. CASE PHA  BY <2>1, <2>2, <2>3 DEF PHA
  <2>4. CASE PHP  BY <2>1, <2>2, <2>4 DEF PHP
  <2>5. CASE TXS  BY <2>1, <2>2, <2>5 DEF TXS, NoStack
  <2> QED  BY <2>3, <2>4, <2>5
<1>2. RegsOK'
  BY <1>1, PS1Type, StackType DEF IInv, RegsOK, SameRegs
<1>3. LocalsOK'  BY <1>1 DEF IInv, LocalsOK, NoLocals
<1>4. PC1 \in Word16  BY FetchType, IInvImplies
<1>5. CountOK' /\ PROGMEM' = PROGMEM  BY <1>1, <1>4, RetireOK
<1>6. BusTypeOK'  BY <1>1, <1>5, PushesType, MemType DEF IInv
<1> QED  BY <1>2, <1>3, <1>5, <1>6 DEF IInv

(* PLA and TSX load a byte of the stack page.                              *)
LEMMA PullByteOK ==
  ASSUME IInv, InInstruction, past' \in Past, PLA \/ TSX PROVE IInv'
<1>1. \A sp : Pulled(sp) \in Byte  BY StackType
<1>2. U8(SP + 1) \in Byte  BY StackType
<1>3. PC1 \in Word16  BY FetchType, IInvImplies
<1>4. \A r \in Byte : ZN(PS1, r) \subseteq Flags  BY PS1Type, ZNType DEF IInv
<1>5. RegsOK'
  BY <1>1, <1>2, <1>4
  DEF PLA, TSX, IInv, RegsOK, LoadA, LoadX, NoIndex, Implied, NoStack
<1>6. LocalsOK'  BY DEF PLA, TSX, IInv, LocalsOK, NoLocals, Implied
<1>7. CountOK' /\ PROGMEM' = PROGMEM
  BY <1>3, RetireOK DEF PLA, TSX, Implied
<1>8. BusTypeOK'  BY <1>7, NoStoreType DEF PLA, TSX, Implied, IInv
<1> QED  BY <1>5, <1>6, <1>7, <1>8 DEF IInv

(* PLP.                                                                    *)
LEMMA PLPOK ==
  ASSUME IInv, InInstruction, past' \in Past, PLP PROVE IInv'
<1>1. PS1 \subseteq Flags  BY PS1Type DEF IInv
<1>2. PulledStatus(Pulled(SP)) \subseteq Flags  BY BitsAreFlags
<1>3. U8(SP + 1) \in Byte  BY StackType
<1>4. PC1 \in Word16  BY FetchType, IInvImplies
<1>5. RegsOK'  BY <1>1, <1>2, <1>3 DEF PLP, IInv, RegsOK
<1>6. LocalsOK'  BY FromBitsType DEF PLP, IInv, LocalsOK
<1>7. CountOK' /\ PROGMEM' = PROGMEM  BY <1>4, RetireOK DEF PLP
<1>8. BusTypeOK'  BY <1>7, NoStoreType DEF PLP, IInv
<1> QED  BY <1>5, <1>6, <1>7, <1>8 DEF IInv

-----------------------------------------------------------------------------
(* Jumps, calls and returns.                                               *)

(* JMP, absolute and indirect.                                             *)
LEMMA JumpsOK ==
  ASSUME IInv, InInstruction, past' \in Past, JMP_ABS \/ JMP_IND PROVE IInv'
<1>1. operand16 \in Word16  BY FetchType, IInvImplies
<1>2. \A a, b : Word(bus_read_byte(a), bus_read_byte(b)) \in Word16
  BY ReadType, WordType DEF IInv
<1>3. HelperCost("ABS") = 2  BY DEF HelperCost, Absolute
<1>4. PICK pc \in Word16, cost \in 0 .. 6 :
        /\ Retire(pc, cost)
        /\ SameRegs /\ NoStack /\ NoStore /\ UNCHANGED fetched
        /\ addr' \in {addr, operand16}
  <2>1. CASE JMP_ABS  BY <1>1, <1>3, <2>1 DEF JMP_ABS, NoLocals
  <2>2. CASE JMP_IND  BY <1>2, <1>3, <2>2 DEF JMP_IND
  <2> QED  BY <2>1, <2>2
<1>5. RegsOK'  BY <1>4, PS1Type DEF IInv, RegsOK, SameRegs, NoStack
<1>6. LocalsOK'  BY <1>1, <1>4 DEF IInv, LocalsOK
<1>7. CountOK' /\ PROGMEM' = PROGMEM  BY <1>4, RetireOK
<1>8. BusTypeOK'  BY <1>4, <1>7, NoStoreType DEF IInv
<1> QED  BY <1>5, <1>6, <1>7, <1>8 DEF IInv

(* JSR.                                                                    *)
LEMMA JSROK ==
  ASSUME IInv, InInstruction, past' \in Past, JSR PROVE IInv'
<1>1. operand16 \in Word16  BY FetchType, IInvImplies
<1>2. PC + 2 \in Int  BY WordRange DEF IInv, CountOK
<1>3. U16(PC + 2) \in Word16  BY <1>2, Truncation
<1>4. U8(SP - 2) \in Byte  BY StackType
<1>5. HelperCost("ABS") = 2  BY DEF HelperCost, Absolute
<1>6. RegsOK'  BY <1>4, PS1Type DEF JSR, IInv, RegsOK, SameRegs
<1>7. LocalsOK'  BY <1>1 DEF JSR, IInv, LocalsOK
<1>8. CountOK' /\ PROGMEM' = PROGMEM  BY <1>1, <1>5, RetireOK DEF JSR
<1>9. BusTypeOK'  BY <1>3, <1>8, PushesType, MemType DEF JSR, IInv
<1> QED  BY <1>6, <1>7, <1>8, <1>9 DEF IInv

(* RTS.                                                                    *)
LEMMA RTSOK ==
  ASSUME IInv, InInstruction, past' \in Past, RTS PROVE IInv'
<1>1. PulledWord(SP) + 1 \in Int  BY StackType, WordRange
<1>2. U16(PulledWord(SP) + 1) \in Word16  BY <1>1, Truncation
<1>3. U8(SP + 2) \in Byte  BY StackType
<1>4. RegsOK'  BY <1>3, PS1Type DEF RTS, IInv, RegsOK, SameRegs
<1>5. LocalsOK'  BY DEF RTS, IInv, LocalsOK, NoLocals
<1>6. CountOK' /\ PROGMEM' = PROGMEM  BY <1>2, RetireOK DEF RTS
<1>7. BusTypeOK'  BY <1>6, NoStoreType DEF RTS, IInv
<1> QED  BY <1>4, <1>5, <1>6, <1>7 DEF IInv

(* BRK.                                                                    *)
LEMMA BRKOK ==
  ASSUME IInv, InInstruction, past' \in Past, BRK PROVE IInv'
<1>1. PC + 2 \in Int  BY WordRange DEF IInv, CountOK
<1>2. U16(PC + 2) \in Word16 /\ PushedStatus(PS1) \in Byte
  BY <1>1, Truncation, FromBitsType DEF PushedStatus
<1>3. bus_read_word(IRQ_VECTOR) \in Word16  BY ReadType DEF IInv
<1>4. U8(SP - 3) \in Byte  BY StackType
<1>5. PS1 \cup {I} \subseteq Flags  BY PS1Type DEF IInv, Flags
<1>6. HelperCost("ABS") = 2  BY DEF HelperCost, Absolute
<1>7. RegsOK'  BY <1>4, <1>5 DEF BRK, IInv, RegsOK
<1>8. LocalsOK'  BY DEF BRK, IInv, LocalsOK, NoLocals
<1>9. CountOK' /\ PROGMEM' = PROGMEM  BY <1>3, <1>6, RetireOK DEF BRK
<1>10. BusTypeOK'  BY <1>2, <1>9, PushesType, MemType DEF BRK, IInv
<1> QED  BY <1>7, <1>8, <1>9, <1>10 DEF IInv

(* RTI.                                                                    *)
LEMMA RTIOK ==
  ASSUME IInv, InInstruction, past' \in Past, RTI PROVE IInv'
<1>1. PS1 \cup PulledStatus(Pulled(SP)) \subseteq Flags
  BY PS1Type, BitsAreFlags DEF IInv
<1>2. U8(SP + 3) \in Byte  BY StackType
<1>3. Pulled(SP) \in Byte /\ PulledWord(SP + 1) \in Word16  BY StackType
<1>4. RegsOK'  BY <1>1, <1>2 DEF RTI, IInv, RegsOK
<1>5. LocalsOK'  BY <1>3 DEF RTI, LocalsOK
<1>6. CountOK' /\ PROGMEM' = PROGMEM  BY <1>3, RetireOK DEF RTI
<1>7. BusTypeOK'  BY <1>6, NoStoreType DEF RTI, IInv
<1> QED  BY <1>4, <1>5, <1>6, <1>7 DEF IInv

-----------------------------------------------------------------------------
(* The blocks behind the switch.                                           *)

(* The set and clear flag instructions.                                    *)
LEMMA FLAGOK ==
  ASSUME IInv, InInstruction, past' \in Past, FLAG PROVE IInv'
<1>1. PS1 \subseteq Flags  BY PS1Type DEF IInv
<1>2. C \in Flags /\ V \in Flags /\ D \in Flags  BY DEF Flags
<1>3. PS' \subseteq Flags  BY <1>1, <1>2, SetFlagType DEF FLAG
<1>4. aaa % 2 \in {0, 1}  BY FetchType, IInvImplies
<1>5. I_nxt' \in {0, 1}  BY <1>4 DEF FLAG, IInv, RegsOK
<1>6. RegsOK'  BY <1>3, <1>5 DEF FLAG, IInv, RegsOK
<1>7. LocalsOK'  BY DEF FLAG, IInv, LocalsOK, NoLocals
<1>8. PC1 \in Word16  BY FetchType, IInvImplies
<1>9. CountOK' /\ PROGMEM' = PROGMEM  BY <1>8, RetireOK DEF FLAG
<1>10. BusTypeOK'  BY <1>9, NoStoreType DEF FLAG, IInv
<1> QED  BY <1>6, <1>7, <1>9, <1>10 DEF IInv

(* A shifted byte is a byte.                                               *)
LEMMA ShiftType == ASSUME NEW f \in Byte PROVE ShiftResult(f) \in Byte
<1>1. f \in Int /\ 0 <= f /\ f <= 255  BY DEF Byte
<1>2. BitOf(PS1, C) \in 0 .. 1  BY DEF BitOf
<1>3. 2 * f \in Int /\ 2 * f + BitOf(PS1, C) \in Int  BY <1>1, <1>2
<1>4. f \div 2 \in 0 .. 127  BY <1>1
<1>5. f \div 2 + 128 * BitOf(PS1, C) \in 0 .. 255  BY <1>2, <1>4
<1> QED  BY <1>3, <1>4, <1>5, Truncation DEF ShiftResult, Byte

(* The shifts and rotates, documented or not.                              *)
LEMMA SHIFTOK ==
  ASSUME IInv, InInstruction, past' \in Past, SHIFT PROVE IInv'
<1> DEFINE m == ShiftMode(bbb)
           f == IF m = "NONE" THEN fetched ELSE Value(m)
           r == ShiftResult(f)
           a == IF m = "NONE" THEN addr ELSE EA(m)
           cost == IF bbb < 4 THEN 3 ELSE 4
<1>1. Value(m) \in Byte /\ EA(m) \in Word16 /\ After(m) \in Word16
  BY AddressType, IInvImplies
<1>2. f \in Byte /\ a \in Word16  BY <1>1 DEF IInv, LocalsOK
<1>3. r \in Byte  BY <1>2, ShiftType
<1>4. /\ fetched' = r
      /\ PS' = ZN(SetFlag(PS1, C, ShiftCarry(f)), r)
      /\ \/ /\ m = "ACC" /\ A' = r /\ Retire(After(m), 1)
            /\ NoStore /\ UNCHANGED addr
         \/ /\ bus_write_byte(a, r) /\ addr' = a
            /\ Retire(After(m), HelperCost(m) + cost)
            /\ UNCHANGED A
      /\ NoIndex /\ NoStack
  BY DEF SHIFT
<1>5. PS' \subseteq Flags
  <2>1. C \in Flags  BY DEF Flags
  <2>2. SetFlag(PS1, C, ShiftCarry(f)) \subseteq Flags
    BY <2>1, PS1Type, SetFlagType DEF IInv
  <2> QED  BY <1>4, <2>2, ZNType
<1>6. RegsOK'  BY <1>3, <1>4, <1>5 DEF IInv, RegsOK, NoIndex, NoStack
<1>7. LocalsOK'  BY <1>2, <1>3, <1>4 DEF IInv, LocalsOK
<1>8. m # "INDY"  BY DEF ShiftMode
<1>9. HelperCost(m) + cost \in 0 .. 6
  <2>1. HelperCost(m) \in 0 .. 2  BY <1>8, CostBound
  <2> HIDE DEF m
  <2> QED  BY <2>1
<1>10. CountOK' /\ PROGMEM' = PROGMEM
  <2>1. 1 \in 0 .. 6  OBVIOUS
  <2> HIDE DEF m, cost, a, r
  <2> QED  BY <1>1, <1>4, <1>9, <2>1, RetireOK
<1>11. BusTypeOK'
  <2> HIDE DEF m, cost, a, r
  <2> QED  BY <1>2, <1>3, <1>4, <1>10, NoStoreType, WriteType DEF IInv
<1> QED  BY <1>6, <1>7, <1>10, <1>11 DEF IInv

(* ADC, SBC and the comparisons: flags, one byte and one address.          *)
LEMMA ArithmeticOK ==
  ASSUME IInv, InInstruction, past' \in Past, ADC_SBC \/ CMP PROVE IInv'
<1> DEFINE m == BbbMode(bbb)
           f == Value(m)
<1>1. f \in Byte /\ EA(m) \in Word16 /\ After(m) \in Word16
  BY AddressType, IInvImplies
<1>2. BlockCost(m) \in 0 .. 6  BY CostBound
<1>3. /\ fetched' = f
      /\ addr' \in {addr, EA(m)}
      /\ Retire(After(m), BlockCost(m))
      /\ NoStack /\ NoStore /\ NoIndex
  BY DEF ADC_SBC, CMP, NoIndex
<1>4. A' \in Byte
  <2>1. CASE ADC_SBC
    <3>1. A' = U8(Sum(f))  BY <2>1 DEF ADC_SBC
    <3>2. Addend(f) \in Int
      <4>1. 65536 - f \in Int /\ f \in Int  BY <1>1, ByteRange
      <4> QED  BY <4>1 DEF Addend, U16
    <3>3. BitOf(PS1, C) \in Int  BY DEF BitOf
    <3>4. A \in Int  BY ByteRange DEF IInv, RegsOK
    <3>5. A + Addend(f) + BitOf(PS1, C) \in Int  BY <3>2, <3>3, <3>4
    <3>6. Sum(f) \in Int  BY <3>5, Truncation, WordRange DEF Sum
    <3> QED  BY <3>1, <3>6, Truncation
  <2>2. CASE CMP  BY <2>2 DEF CMP, IInv, RegsOK
  <2> QED  BY <2>1, <2>2
<1>5. PS' \subseteq Flags
  <2>1. C \in Flags /\ V \in Flags  BY DEF Flags
  <2>2. \A on : SetFlag(PS1, C, on) \subseteq Flags
    BY <2>1, PS1Type, SetFlagType DEF IInv
  <2>3. \A on, v : SetFlag(SetFlag(PS1, V, v), C, on) \subseteq Flags
    BY <2>1, PS1Type, SetFlagType DEF IInv
  <2>4. CASE ADC_SBC  BY <2>3, <2>4, ZNType DEF ADC_SBC
  <2>5. CASE CMP  BY <2>2, <2>5, ZNType DEF CMP
  <2> QED  BY <2>4, <2>5
<1>6. RegsOK'  BY <1>3, <1>4, <1>5 DEF IInv, RegsOK, NoStack, NoIndex
<1>7. LocalsOK'  BY <1>1, <1>3 DEF IInv, LocalsOK
<1>8. CountOK' /\ PROGMEM' = PROGMEM  BY <1>1, <1>2, <1>3, RetireOK
<1>9. BusTypeOK'  BY <1>3, <1>8, NoStoreType DEF IInv
<1> QED  BY <1>6, <1>7, <1>8, <1>9 DEF IInv

(* INC and DEC, documented or not.                                         *)
LEMMA INC_DECOK ==
  ASSUME IInv, InInstruction, past' \in Past, INC_DEC PROVE IInv'
<1> DEFINE m    == IncDecMode(bbb)
           a    == IF m = "NONE" THEN addr ELSE EA(m)
           temp == IF aaa = 7 THEN U8(A + 1) ELSE U8(A - 1)
           cost == CASE m \in {"ZP", "ABS"} -> 3 [] m = "NONE" -> 0 [] OTHER -> 4
<1>1. EA(m) \in Word16 /\ After(m) \in Word16  BY AddressType, IInvImplies
<1>2. a \in Word16  BY <1>1 DEF IInv, LocalsOK
<1>3. temp \in Byte
  <2>1. A + 1 \in Int /\ A - 1 \in Int  BY ByteRange DEF IInv, RegsOK
  <2> QED  BY <2>1, Truncation
<1>4. /\ PS' = ZN(PS1, temp) /\ addr' = a /\ bus_write_byte(a, temp)
      /\ Retire(After(m), HelperCost(m) + cost)
      /\ NoStack /\ UNCHANGED <<A, X, Y, fetched>>
  BY DEF INC_DEC
<1>5. PS' \subseteq Flags  BY <1>4, PS1Type, ZNType DEF IInv
<1>6. RegsOK'  BY <1>4, <1>5 DEF IInv, RegsOK, NoStack
<1>7. LocalsOK'  BY <1>2, <1>4 DEF IInv, LocalsOK
<1>8. HelperCost(m) + cost \in 0 .. 6
  <2>1. m # "INDY"  BY DEF IncDecMode
  <2>2. HelperCost(m) \in 0 .. 2  BY <2>1, CostBound
  <2>3. cost \in 0 .. 4  OBVIOUS
  <2> HIDE DEF m, cost
  <2> QED  BY <2>2, <2>3
<1>9. CountOK' /\ PROGMEM' = PROGMEM
  <2> HIDE DEF m, cost, a, temp
  <2> QED  BY <1>1, <1>4, <1>8, RetireOK
<1>10. BusTypeOK'
  <2> HIDE DEF a, temp
  <2> QED  BY <1>2, <1>3, <1>4, <1>9, WriteType DEF IInv
<1> QED  BY <1>6, <1>7, <1>9, <1>10 DEF IInv

(* The branches, taken or not.                                             *)
LEMMA BRANCHOK ==
  ASSUME IInv, InInstruction, past' \in Past, BRANCH PROVE IInv'
<1> DEFINE next   == U16(PC + 2)
           target == U16(next + Signed(operand))
           crossing == IF Page(PC1) # Page(target) THEN 2 ELSE 1
<1>1. operand \in Byte  BY FetchType, IInvImplies
<1>2. next \in Word16
  <2>1. PC + 2 \in Int  BY WordRange DEF IInv, CountOK
  <2> QED  BY <2>1, Truncation
<1>3. target \in Word16
  <2>1. Signed(operand) \in Int  BY <1>1, ByteRange DEF Signed
  <2>2. next + Signed(operand) \in Int  BY <1>2, <2>1, WordRange
  <2> HIDE DEF next
  <2> QED  BY <2>2, Truncation
<1>4. /\ fetched' = operand
      /\ Retire(target, 1 + crossing) \/ Retire(next, 1)
      /\ SameRegs /\ NoStack /\ NoStore /\ UNCHANGED addr
  BY DEF BRANCH
<1>5. RegsOK'  BY <1>4, PS1Type DEF IInv, RegsOK, SameRegs, NoStack
<1>6. LocalsOK'  BY <1>1, <1>4 DEF IInv, LocalsOK
<1>7. CountOK' /\ PROGMEM' = PROGMEM
  <2>1. 1 + crossing \in 0 .. 6 /\ 1 \in 0 .. 6  OBVIOUS
  <2> HIDE DEF next, target, crossing
  <2> QED  BY <1>2, <1>3, <1>4, <2>1, RetireOK
<1>8. BusTypeOK'  BY <1>4, <1>7, NoStoreType DEF IInv
<1> QED  BY <1>5, <1>6, <1>7, <1>8 DEF IInv

(* The opcodes without a case.                                             *)
LEMMA UNDEFINEDOK ==
  ASSUME IInv, InInstruction, past' \in Past, UNDEFINED PROVE IInv'
<1>1. RegsOK'  BY PS1Type DEF UNDEFINED, IInv, RegsOK, SameRegs, NoStack
<1>2. LocalsOK'  BY DEF UNDEFINED, IInv, LocalsOK, NoLocals
<1>3. PC1 \in Word16  BY FetchType, IInvImplies
<1>4. CountOK' /\ PROGMEM' = PROGMEM  BY <1>3, RetireOK DEF UNDEFINED
<1>5. BusTypeOK'  BY <1>4, NoStoreType DEF UNDEFINED, IInv
<1> QED  BY <1>1, <1>2, <1>4, <1>5 DEF IInv

-----------------------------------------------------------------------------
(* The calls, and the theorems.                                            *)

(* Every instruction keeps the invariant.                                  *)
LEMMA ExecuteOK ==
  ASSUME IInv, past' \in Past, Instruction PROVE IInv'
<1>1. InInstruction  BY DEF Instruction, InInstruction
<1>2. CASE LDA \/ LDX \/ LDY \/ AND \/ ORA \/ EOR  BY <1>1, <1>2, LoadsOK
<1>3. CASE STA \/ STX \/ STY  BY <1>1, <1>3, StoresOK
<1>4. CASE BIT  BY <1>1, <1>4, BITOK
<1>5. CASE Transfer  BY <1>1, <1>5, TransferOK
<1>6. CASE PHA \/ PHP \/ TXS  BY <1>1, <1>6, PushByteOK
<1>7. CASE PLA \/ TSX  BY <1>1, <1>7, PullByteOK
<1>8. CASE PLP  BY <1>1, <1>8, PLPOK
<1>9. CASE JMP_ABS \/ JMP_IND  BY <1>1, <1>9, JumpsOK
<1>10. CASE JSR  BY <1>1, <1>10, JSROK
<1>11. CASE RTS  BY <1>1, <1>11, RTSOK
<1>12. CASE BRK  BY <1>1, <1>12, BRKOK
<1>13. CASE RTI  BY <1>1, <1>13, RTIOK
<1>14. CASE FLAG  BY <1>1, <1>14, FLAGOK
<1>15. CASE SHIFT  BY <1>1, <1>15, SHIFTOK
<1>16. CASE ADC_SBC \/ CMP  BY <1>1, <1>16, ArithmeticOK
<1>17. CASE INC_DEC  BY <1>1, <1>17, INC_DECOK
<1>18. CASE BRANCH  BY <1>1, <1>18, BRANCHOK
<1>19. CASE UNDEFINED  BY <1>1, <1>19, UNDEFINEDOK
<1> QED
  BY <1>2, <1>3, <1>4, <1>5, <1>6, <1>7, <1>8, <1>9, <1>10, <1>11, <1>12,
     <1>13, <1>14, <1>15, <1>16, <1>17, <1>18, <1>19
  DEF Instruction, Execute

(* The exit of the loop: what was consumed is what was asked for and the   *)
(* overrun.                                                                *)
LEMMA ReturnOK ==
  ASSUME IInv, past' \in Past, ClockReturn PROVE IInv'
<1>1. RegsOK'  BY DEF ClockReturn, registers, IInv, RegsOK
<1>2. LocalsOK'  BY ZeroType DEF ClockReturn, LocalsOK
<1>3. /\ call = "clock" /\ cycles <= 0 /\ call' = "idle"
      /\ consumed' = requested - cycles /\ requested' = requested
      /\ cycles' = 0 /\ PC' = PC
      /\ cycles \in Int /\ requested \in Int /\ Budget
  BY DEF ClockReturn, Running, registers, IInv, CountOK
<1>4. Budget'
  BY <1>3 DEF Budget, ClockContract
<1>5. CountOK'  BY <1>3, <1>4 DEF CountOK, IInv
<1>6. BusTypeOK'  BY NoStoreType DEF ClockReturn, NoStore, IInv
<1> QED  BY <1>1, <1>2, <1>5, <1>6 DEF IInv

(* A new call has its whole request left.                                  *)
LEMMA CallOK ==
  ASSUME IInv, past' \in Past, NEW n \in Int, ClockCall(n) PROVE IInv'
<1>1. RegsOK'  BY DEF ClockCall, registers, IInv, RegsOK
<1>2. LocalsOK'  BY ZeroType DEF ClockCall, LocalsOK
<1>3. CountOK'
  BY DEF ClockCall, registers, IInv, CountOK, Budget, ClockContract
<1>4. BusTypeOK'  BY NoStoreType DEF ClockCall, NoStore, IInv
<1> QED  BY <1>1, <1>2, <1>3, <1>4 DEF IInv

(* Reset.                                                                  *)
LEMMA ResetOK ==
  ASSUME IInv, past' \in Past, Reset PROVE IInv'
<1>1. RegsOK'  BY DEF Reset, IInv, RegsOK, Flags, Byte
<1>2. LocalsOK'  BY DEF Reset, IInv, LocalsOK
<1>3. bus_read_word(RESET_VECTOR) \in Word16  BY ReadType DEF IInv
<1>4. CountOK'  BY <1>3 DEF Reset, IInv, CountOK, Budget, ClockContract
<1>5. BusTypeOK'  BY NoStoreType DEF Reset, NoStore, IInv
<1> QED  BY <1>1, <1>2, <1>4, <1>5 DEF IInv

(* Every step keeps the invariant.                                         *)
LEMMA NextIInv == IInv /\ [Next]_vars => IInv'
<1> SUFFICES ASSUME IInv, [Next]_vars PROVE IInv'  OBVIOUS
<1>1. CASE Step  BY <1>1, ExecuteOK, ReturnOK DEF Step
<1>2. CASE Caller
  <2>1. \A n \in Requests : n \in Int  BY CpuAssumption
  <2> QED  BY <1>2, <2>1, ResetOK, CallOK DEF Caller
<1>3. CASE UNCHANGED vars
  <2>1. UNCHANGED <<mem, PROGMEM, past, wild>>  BY <1>3 DEF vars
  <2>2. BusTypeOK'  BY <2>1 DEF IInv, BusTypeOK
  <2>3. RegsOK' /\ LocalsOK' /\ CountOK'
    BY <1>3 DEF vars, registers, locals, IInv, RegsOK, LocalsOK, CountOK,
                Budget, ClockContract
  <2> QED  BY <2>2, <2>3 DEF IInv
<1> QED  BY <1>1, <1>2, <1>3 DEF Next

(* The invariant holds in every reachable state.                           *)
LEMMA Invariance == Spec => []IInv
  BY InitIInv, NextIInv, PTL DEF Spec

(* Registers, locals, memory and ROM keep the ranges of their C types,     *)
(* under every sequence of calls and for every program.                    *)
THEOREM TypeCorrect == Spec => []TypeOK
  BY Invariance, IInvImplies, PTL

(* A call of olc6502_clock consumes what was asked for and at most six     *)
(* cycles more, whatever it executes, documented opcodes or not.           *)
THEOREM ClockKeepsContract == Spec => []ClockContract
  BY Invariance, IInvImplies, PTL

(* No instruction brings B from a pushed status byte into PS.              *)
THEOREM BreakFlagStaysOut == Spec => []BreakFlagOnlyPushed
  BY Invariance, IInvImplies, PTL

-----------------------------------------------------------------------------
(* The dispatch.                                                           *)

(* The guards of the blocks exclude each other: they differ in cc, or in   *)
(* aaa, or in bbb.                                                         *)
LEMMA BlocksExclude ==
  ASSUME NEW op \in Byte, NEW b \in Blocks(op), NEW c \in Blocks(op)
  PROVE  b = c
<1> DEFINE x == Aaa(op)
           y == Bbb(op)
           z == Cc(op)
<1>1. op \in Int /\ 0 <= op /\ op <= 255  BY DEF Byte
<1>2. x \in 0 .. 7 /\ y \in 0 .. 7 /\ z \in 0 .. 3  BY <1>1 DEF Aaa, Bbb, Cc
<1>3. \/ b = 1 /\ x # 4 /\ y = 6 /\ z = 0
      \/ b = 2 /\ x < 4 /\ z = 2
      \/ b = 3 /\ x \in {3, 7} /\ z = 1
      \/ b = 4 /\ z = 1 /\ x = 6
      \/ b = 4 /\ z = 0 /\ x > 5 /\ y < 4
      \/ b = 5 /\ z = 2 /\ x > 5
      \/ b = 6 /\ z = 0 /\ y = 4
  BY DEF Blocks, FlagOp, ShiftOp, AddOp, CompareOp, IncDecOp, BranchOp
<1>4. \/ c = 1 /\ x # 4 /\ y = 6 /\ z = 0
      \/ c = 2 /\ x < 4 /\ z = 2
      \/ c = 3 /\ x \in {3, 7} /\ z = 1
      \/ c = 4 /\ z = 1 /\ x = 6
      \/ c = 4 /\ z = 0 /\ x > 5 /\ y < 4
      \/ c = 5 /\ z = 2 /\ x > 5
      \/ c = 6 /\ z = 0 /\ y = 4
  BY DEF Blocks, FlagOp, ShiftOp, AddOp, CompareOp, IncDecOp, BranchOp
<1> HIDE DEF x, y, z
<1> QED  BY <1>2, <1>3, <1>4

(* The fields of an opcode that the switch handles alone fit no block.     *)
LEMMA SwitchExcludes == \A op \in SwitchOps : Blocks(op) = {}
<1> DEFINE Free(op) == ~ (FlagOp(op) \/ ShiftOp(op) \/ AddOp(op) \/ CompareOp(op)
                            \/ IncDecOp(op) \/ BranchOp(op))
<1>1. \A op \in Codes(INS_LDA) : Free(op)
  BY DEF Codes, INS_LDA, FlagOp, ShiftOp, AddOp, CompareOp, IncDecOp, BranchOp, Aaa, Bbb, Cc
<1>2. \A op \in Codes(INS_LDX) : Free(op)
  BY DEF Codes, INS_LDX, FlagOp, ShiftOp, AddOp, CompareOp, IncDecOp, BranchOp, Aaa, Bbb, Cc
<1>3. \A op \in Codes(INS_LDY) : Free(op)
  BY DEF Codes, INS_LDY, FlagOp, ShiftOp, AddOp, CompareOp, IncDecOp, BranchOp, Aaa, Bbb, Cc
<1>4. \A op \in Codes(INS_STA) : Free(op)
  BY DEF Codes, INS_STA, FlagOp, ShiftOp, AddOp, CompareOp, IncDecOp, BranchOp, Aaa, Bbb, Cc
<1>5. \A op \in Codes(INS_STX) : Free(op)
  BY DEF Codes, INS_STX, FlagOp, ShiftOp, AddOp, CompareOp, IncDecOp, BranchOp, Aaa, Bbb, Cc
<1>6. \A op \in Codes(INS_STY) : Free(op)
  BY DEF Codes, INS_STY, FlagOp, ShiftOp, AddOp, CompareOp, IncDecOp, BranchOp, Aaa, Bbb, Cc
<1>7. \A op \in Codes(INS_AND) : Free(op)
  BY DEF Codes, INS_AND, FlagOp, ShiftOp, AddOp, CompareOp, IncDecOp, BranchOp, Aaa, Bbb, Cc
<1>8. \A op \in Codes(INS_ORA) : Free(op)
  BY DEF Codes, INS_ORA, FlagOp, ShiftOp, AddOp, CompareOp, IncDecOp, BranchOp, Aaa, Bbb, Cc
<1>9. \A op \in Codes(INS_EOR) : Free(op)
  BY DEF Codes, INS_EOR, FlagOp, ShiftOp, AddOp, CompareOp, IncDecOp, BranchOp, Aaa, Bbb, Cc
<1>10. \A op \in Codes(INS_BIT) : Free(op)
  BY DEF Codes, INS_BIT, FlagOp, ShiftOp, AddOp, CompareOp, IncDecOp, BranchOp, Aaa, Bbb, Cc
<1>11. \A op \in {INS_TAX, INS_TAY, INS_TXA, INS_TYA, INS_INX, INS_INY, INS_DEX, INS_DEY,
                INS_TSX, INS_TXS, INS_PHA, INS_PLA, INS_PHP, INS_PLP, INS_JSR, INS_RTS,
                INS_BRK, INS_RTI, INS_JMP_ABS, INS_JMP_IND, INS_NOP} : Free(op)
  BY DEF INS_TAX, INS_TAY, INS_TXA, INS_TYA, INS_INX, INS_INY, INS_DEX, INS_DEY,
     INS_TSX, INS_TXS, INS_PHA, INS_PLA, INS_PHP, INS_PLP, INS_JSR, INS_RTS,
     INS_BRK, INS_RTI, INS_JMP_ABS, INS_JMP_IND, INS_NOP,
     FlagOp, ShiftOp, AddOp, CompareOp, IncDecOp, BranchOp, Aaa, Bbb, Cc
<1> HIDE DEF Free
<1>12. \A op \in SwitchOps : Free(op)
  BY <1>1, <1>2, <1>3, <1>4, <1>5, <1>6, <1>7, <1>8, <1>9, <1>10, <1>11 DEF SwitchOps
<1> QED  BY <1>12 DEF Blocks, Free

(* A byte that the switch fetches for the shift block gets there.          *)
LEMMA FetchedShifts == \A op \in ShiftFetchOps : ShiftOp(op)
  BY DEF ShiftFetchOps, Codes, INS_ASL, INS_ROL, INS_LSR, INS_ROR, ShiftOp, Aaa, Cc

(* No opcode is executed twice in one iteration, whatever the program.     *)
THEOREM Dispatch == Spec => []OneBodyPerOpcode
<1>1. TypeOK => OneBodyPerOpcode
  <2> SUFFICES ASSUME TypeOK PROVE OneBodyPerOpcode  OBVIOUS
  <2>1. opcode \in Byte  BY FetchType
  <2> QED  BY <2>1, BlocksExclude, SwitchExcludes, FetchedShifts DEF OneBodyPerOpcode
<1> QED  BY <1>1, TypeCorrect, PTL

-----------------------------------------------------------------------------
(* What an iteration takes off the count.                                  *)

(* An iteration of the clock loop takes one to seven cycles off.           *)
LEMMA ExecuteCharges ==
  ASSUME Execute PROVE \E pc : \E cost \in 0 .. 6 : Retire(pc, cost)
<1>1. \A m : /\ HelperCost(m) \in 0 .. 3
             /\ m # "INDY" => HelperCost(m) \in 0 .. 2
             /\ ReadCost(m) \in 0 .. 6 /\ LDACost(m) \in 0 .. 6
             /\ StoreCost(m) \in 0 .. 6 /\ BlockCost(m) \in 0 .. 6
  BY CostBound
<1>2. HelperCost("ABS") = 2  BY DEF HelperCost, Absolute
<1>3. CASE LDA \/ LDX \/ LDY \/ BIT  BY <1>1, <1>3 DEF LDA, LDX, LDY, BIT
<1>4. CASE AND \/ ORA \/ EOR  BY <1>1, <1>4 DEF AND, ORA, EOR, Logic
<1>5. CASE STA \/ STX \/ STY  BY <1>1, <1>5 DEF STA, STX, STY, Store
<1>6. CASE Transfer \/ TSX  BY <1>6 DEF Transfer, TSX, Implied
<1>7. CASE PHA \/ PHP \/ PLA \/ PLP \/ TXS  BY <1>7 DEF PHA, PHP, PLA, PLP, TXS
<1>8. CASE JMP_ABS \/ JMP_IND \/ JSR \/ BRK
  BY <1>2, <1>8 DEF JMP_ABS, JMP_IND, JSR, BRK
<1>9. CASE RTS \/ RTI \/ FLAG \/ UNDEFINED  BY <1>9 DEF RTS, RTI, FLAG, UNDEFINED
<1>10. CASE ADC_SBC \/ CMP  BY <1>1, <1>10 DEF ADC_SBC, CMP
<1>11. CASE BRANCH
  <2> DEFINE next     == U16(PC + 2)
             target   == U16(next + Signed(operand))
             crossing == IF Page(PC1) # Page(target) THEN 2 ELSE 1
  <2>1. Retire(target, 1 + crossing) \/ Retire(next, 1)  BY <1>11 DEF BRANCH
  <2>2. 1 + crossing \in 0 .. 6  OBVIOUS
  <2> HIDE DEF next, target, crossing
  <2> QED  BY <2>1, <2>2
<1>12. CASE SHIFT
  <2> DEFINE m    == ShiftMode(bbb)
             cost == IF bbb < 4 THEN 3 ELSE 4
  <2>1. Retire(After(m), 1) \/ Retire(After(m), HelperCost(m) + cost)
    BY <1>12 DEF SHIFT
  <2>2. m # "INDY"  BY DEF ShiftMode
  <2>3. cost \in 3 .. 4  OBVIOUS
  <2> HIDE DEF m, cost
  <2>4. HelperCost(m) \in 0 .. 2  BY <1>1, <2>2
  <2>5. HelperCost(m) + cost \in 0 .. 6  BY <2>3, <2>4
  <2> QED  BY <2>1, <2>5
<1>13. CASE INC_DEC
  <2> DEFINE m    == IncDecMode(bbb)
             cost == CASE m \in {"ZP", "ABS"} -> 3 [] m = "NONE" -> 0 [] OTHER -> 4
  <2>1. Retire(After(m), HelperCost(m) + cost)  BY <1>13 DEF INC_DEC
  <2>2. m # "INDY"  BY DEF IncDecMode
  <2>3. cost \in 0 .. 4  OBVIOUS
  <2> HIDE DEF m, cost
  <2>4. HelperCost(m) \in 0 .. 2  BY <1>1, <2>2
  <2>5. HelperCost(m) + cost \in 0 .. 6  BY <2>3, <2>4
  <2> QED  BY <2>1, <2>5
<1> QED
  BY <1>3, <1>4, <1>5, <1>6, <1>7, <1>8, <1>9, <1>10, <1>11, <1>12, <1>13 DEF Execute

(* The half of the termination of olc6502_clock that is safety: whatever   *)
(* the opcode, and whatever the program and the state, an iteration takes  *)
(* one to seven cycles off the count, so that a call that asks for n       *)
(* cycles makes at most n iterations.                                      *)
THEOREM ClockRunsDown ==
  Spec => [][InInstruction => cycles' < cycles /\ cycles' >= cycles - 7]_vars
<1>1. IInv /\ [Next]_vars
        => [InInstruction => cycles' < cycles /\ cycles' >= cycles - 7]_vars
  <2> SUFFICES ASSUME IInv, Next, InInstruction
               PROVE  cycles' < cycles /\ cycles' >= cycles - 7
    OBVIOUS
  <2>1. Execute
    BY DEF Next, Step, Caller, Instruction, ClockReturn, Reset, ClockCall, InInstruction
  <2>2. PICK cost \in 0 .. 6 : \E pc : Retire(pc, cost)  BY <2>1, ExecuteCharges
  <2>3. cycles' = cycles - 1 - cost /\ cycles \in Int
    BY <2>2 DEF Retire, IInv, CountOK
  <2> QED  BY <2>3
<1> QED  BY <1>1, Invariance, PTL DEF Spec
=============================================================================
