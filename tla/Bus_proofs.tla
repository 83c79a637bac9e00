----------------------------- MODULE Bus_proofs -----------------------------
(***************************************************************************)
(* Lemmas about bytes and about the bus, for every address and both builds *)
(***************************************************************************)
EXTENDS Bus, TLAPS

-----------------------------------------------------------------------------
(* Bytes, words and bits.                                                  *)

(* The byte with a given set of 1 bits is a byte.                          *)
LEMMA FromBitsType == \A S : FromBits(S) \in Byte
  BY DEF FromBits, At, Byte

(* The bits of anything are bit numbers.                                   *)
LEMMA BitsType == \A b : Bits(b) \subseteq BitNo
  BY DEF Bits, BitNo

(* A word is a number of 16 bits, and such a number is a word.             *)
LEMMA WordRange == ASSUME NEW w \in Word16 PROVE w \in Int /\ 0 <= w /\ w <= 65535
<1>1. w \in Int /\ 0 <= w /\ w <= UINT16_MAX  BY DEF Word16
<1> QED  BY <1>1 DEF UINT16_MAX

(* The other way round.                                                    *)
LEMMA IsWord == ASSUME NEW n \in Int, 0 <= n, n <= 65535 PROVE n \in Word16
<1>1. n <= UINT16_MAX  BY DEF UINT16_MAX
<1> QED  BY <1>1 DEF Word16

(* A byte is a word, and both are integers.                                *)
LEMMA ByteRange == \A b \in Byte : b \in Int /\ b \in Word16
<1> SUFFICES ASSUME NEW b \in Byte PROVE b \in Int /\ b \in Word16  OBVIOUS
<1>1. b \in Int /\ 0 <= b /\ b <= 65535  BY DEF Byte
<1> QED  BY <1>1, IsWord

(* Truncation to a byte or a word is a byte or a word.                     *)
LEMMA Truncation == \A n \in Int : U8(n) \in Byte /\ U16(n) \in Word16
<1> SUFFICES ASSUME NEW n \in Int PROVE U8(n) \in Byte /\ U16(n) \in Word16
  OBVIOUS
<1>1. n % 256 \in Byte  BY DEF Byte
<1>2. n % 65536 \in Word16  BY IsWord
<1> QED  BY <1>1, <1>2 DEF U8, U16

(* Two bytes make a word.                                                  *)
LEMMA WordType == \A lo, hi \in Byte : Word(lo, hi) \in Word16
<1> SUFFICES ASSUME NEW lo \in Byte, NEW hi \in Byte PROVE Word(lo, hi) \in Word16
  OBVIOUS
<1>1. lo \in Int /\ 0 <= lo /\ lo <= 255  BY DEF Byte
<1>2. hi \in Int /\ 0 <= hi /\ hi <= 255  BY DEF Byte
<1>3. lo + 256 * hi \in Int /\ 0 <= lo + 256 * hi /\ lo + 256 * hi <= 65535
  BY <1>1, <1>2
<1>4. lo + 256 * hi \in Word16  BY <1>3, IsWord
<1> QED  BY <1>4 DEF Word

(* A word's two bytes are bytes.                                           *)
LEMMA SplitWord == ASSUME NEW w \in Word16 PROVE Lo(w) \in Byte /\ Page(w) \in Byte
<1>1. w \in Int /\ 0 <= w /\ w <= 65535  BY WordRange
<1>2. w \div 256 >= 0 /\ w \div 256 <= 255 /\ w \div 256 \in Int  BY <1>1
<1>3. w % 256 \in Byte /\ w \div 256 \in Byte  BY <1>1, <1>2 DEF Byte
<1> QED  BY <1>3 DEF Lo, Page

(* An address that is not in the program ROM is below it.                  *)
LEMMA BelowRom ==
  ASSUME NEW a \in Word16, ~(a >= PRG_ROM_START)
  PROVE  a \in Int /\ 0 <= a /\ a <= \h7FFF
<1>1. a \in Int /\ 0 <= a  BY WordRange
<1>2. PRG_ROM_START = \h8000  BY DEF PRG_ROM_START
<1> QED  BY <1>1, <1>2

-----------------------------------------------------------------------------
(* The bus.                                                                *)

(* Whatever the address, what is read is a byte or a word.                 *)
LEMMA ReadType ==
  ASSUME BusTypeOK, NEW a
  PROVE  bus_read_byte(a) \in Byte /\ bus_read_word(a) \in Word16
<1>1. past \in Byte  BY BusAssumption DEF BusTypeOK
<1>2. \A h : memory_get(h) \in Byte
  BY <1>1 DEF BusTypeOK, memory_get, Byte
<1>3. \A o : progmem_get(o) \in Byte
  BY <1>1 DEF BusTypeOK, progmem_get, Byte
<1> QED  BY <1>2, <1>3, WordType DEF bus_read_byte, bus_read_word

(* An address decodes to an offset that is not negative.                   *)
LEMMA DecodeNat == ASSUME NEW a \in Word16 PROVE decode_address(a) \in Nat
<1>1. a \in Int /\ 0 <= a /\ a <= 65535  BY WordRange
<1>2. EXPANSION_ROM_SIZE \in Nat  BY BusAssumption
<1>3. a \div \h2000 \in Int  BY <1>1
<1>4. a < \h4000 => a \div \h2000 \in {0, 1}
  <2>1. a < \h2000 => a \div \h2000 = 0  BY <1>1, SMT
  <2>2. \h2000 <= a /\ a < \h4000 => a \div \h2000 = 1  BY <1>1, SMT
  <2> QED  BY <1>1, <2>1, <2>2
<1>5. \h4000 <= a /\ a < \h6000 => a \div \h2000 = 2  BY <1>1, SMT
<1>6. \h6000 <= a /\ a < \h8000 => a \div \h2000 = 3  BY <1>1, SMT
<1>7. a % \h800 \in Nat /\ a % \h8 \in Nat  BY <1>1
<1> QED
  BY <1>1, <1>2, <1>3, <1>4, <1>5, <1>6, <1>7
  DEF decode_address, CE, CE_CPU_RAM, CE_PPU, CE_EXPANSION, CE_SRAM,
      chip_select_cpu_ram, chip_select_ppu, chip_select_expansion_rom,
      chip_select_sram, chip_select_prg_rom, M6502_RAM_SIZE, PPU_REGISTERS_SIZE,
      PRG_ROM_START

MemOK(m) == \A h \in DOMAIN m : h \in 0 .. TOTAL_MEMORY_SIZE - 1 /\ m[h] \in Byte

(* Storing a byte inside data[] keeps the array well-formed.               *)
LEMMA SetType ==
  ASSUME NEW m, MemOK(m), NEW h \in 0 .. TOTAL_MEMORY_SIZE - 1, NEW v \in Byte
  PROVE  MemOK(memory_set(m, h, v))
  BY DEF MemOK, memory_set

(* A store through the decoder keeps it too, wherever it goes.             *)
LEMMA WriteType ==
  ASSUME BusTypeOK, NEW a \in Word16, NEW v \in Byte,
         bus_write_byte(a, v), past' \in Past, PROGMEM' = PROGMEM
  PROVE  BusTypeOK'
<1> DEFINE h == decode_address(a)
<1>1. h \in Nat  BY DecodeNat
<1>2. TOTAL_MEMORY_SIZE \in Nat
  BY BusAssumption DEF TOTAL_MEMORY_SIZE, M6502_RAM_SIZE, PPU_REGISTERS_SIZE, SRAM_SIZE
<1>3. MemOK(mem)  BY DEF BusTypeOK, MemOK
<1>4. MemOK(mem')
  <2>1. CASE h < TOTAL_MEMORY_SIZE /\ mem' = memory_set(mem, h, v)
    BY <1>1, <1>2, <1>3, <2>1, SetType
  <2>2. CASE mem' = mem  BY <1>3, <2>2 DEF MemOK
  <2> QED  BY <2>1, <2>2 DEF bus_write_byte
<1>5. wild' \in BOOLEAN  BY DEF bus_write_byte, BusTypeOK
<1> QED  BY <1>4, <1>5 DEF BusTypeOK, MemOK

(* A store of a word does, too.                                            *)
LEMMA WriteWordType ==
  ASSUME BusTypeOK, NEW a \in Word16, NEW w \in Word16,
         bus_write_word(a, w), past' \in Past, PROGMEM' = PROGMEM
  PROVE  BusTypeOK'
<1> DEFINE h == decode_address(a)
<1>1. h \in Nat  BY DecodeNat
<1>2. TOTAL_MEMORY_SIZE \in Nat
  BY BusAssumption DEF TOTAL_MEMORY_SIZE, M6502_RAM_SIZE, PPU_REGISTERS_SIZE, SRAM_SIZE
<1>3. MemOK(mem)  BY DEF BusTypeOK, MemOK
<1>4. MemOK(mem')
  <2>1. CASE /\ h + 1 < TOTAL_MEMORY_SIZE
             /\ mem' = memory_set(memory_set(mem, h, Lo(w)), h + 1, Page(w))
    <3>1. Lo(w) \in Byte /\ Page(w) \in Byte  BY SplitWord
    <3>2. h \in 0 .. TOTAL_MEMORY_SIZE - 1 /\ h + 1 \in 0 .. TOTAL_MEMORY_SIZE - 1
      BY <1>1, <1>2, <2>1
    <3> HIDE DEF h
    <3> QED  BY <1>3, <2>1, <3>1, <3>2, SetType
  <2>2. CASE mem' = mem  BY <1>3, <2>2 DEF MemOK
  <2> QED  BY <2>1, <2>2 DEF bus_write_word
<1>5. wild' \in BOOLEAN  BY DEF bus_write_word, BusTypeOK
<1> QED  BY <1>4, <1>5 DEF BusTypeOK, MemOK

-----------------------------------------------------------------------------
(* Where an address below the program ROM decodes to, one window each.     *)
LEMMA DecodeWindows ==
  ASSUME NEW a \in Int, 0 <= a, a <= \h7FFF
  PROVE  /\ a < \h2000 => decode_address(a) = a % \h800
         /\ \h2000 <= a /\ a < \h4000 => decode_address(a) = \h800 + (a % 8)
         /\ \h4000 <= a /\ a < \h6000 => decode_address(a) = \h808 + (a - \h4000)
         /\ \h6000 <= a => decode_address(a) = \h808 + EXPANSION_ROM_SIZE + (a - \h6000)
<1>1. a < \h2000 => a \div \h2000 = 0  BY SMT
<1>2. \h2000 <= a /\ a < \h4000 => a \div \h2000 = 1  BY SMT
<1>3. \h4000 <= a /\ a < \h6000 => a \div \h2000 = 2  BY SMT
<1>4. \h6000 <= a => a \div \h2000 = 3  BY SMT
<1>5. EXPANSION_ROM_SIZE \in Nat  BY BusAssumption
<1>6. a \in Int /\ a % \h800 \in Int /\ a % 8 \in Int  BY SMT
<1> USE DEF decode_address, CE, CE_CPU_RAM, CE_PPU, CE_EXPANSION, CE_SRAM,
            chip_select_cpu_ram, chip_select_ppu, chip_select_expansion_rom,
            chip_select_sram, M6502_RAM_SIZE, PPU_REGISTERS_SIZE
<1>7. ASSUME a < \h2000 PROVE decode_address(a) = a % \h800
  BY <1>1, <1>7
<1>8. ASSUME \h2000 <= a, a < \h4000 PROVE decode_address(a) = \h800 + (a % 8)
  <2>1. decode_address(a) = (a % 8) + \h800  BY <1>2, <1>8
  <2> QED  BY <1>6, <2>1
<1>9. ASSUME \h4000 <= a, a < \h6000 PROVE decode_address(a) = \h808 + (a - \h4000)
  <2>1. decode_address(a) = a - \h4000 + \h800 + 8  BY <1>3, <1>9
  <2> QED  BY <1>6, <2>1
<1>10. ASSUME \h6000 <= a
       PROVE  decode_address(a) = \h808 + EXPANSION_ROM_SIZE + (a - \h6000)
  <2>1. decode_address(a) = a - \h6000 + \h800 + 8 + EXPANSION_ROM_SIZE  BY <1>4, <1>10
  <2> QED  BY <1>5, <1>6, <2>1
<1> QED  BY <1>7, <1>8, <1>9, <1>10

(* Below the program ROM every address decodes into data[], and only the   *)
(* last address of two windows can decode to its last byte.                *)
LEMMA DecodeInside ==
  ASSUME NEW a \in Int, 0 <= a, a <= \h7FFF
  PROVE  /\ decode_address(a) \in 0 .. TOTAL_MEMORY_SIZE - 1
         /\ a \notin {\h5FFF, \h7FFF} => decode_address(a) + 1 < TOTAL_MEMORY_SIZE
<1>1. EXPANSION_ROM_SIZE \in {0, \h2000}  BY BusAssumption
<1>2. TOTAL_MEMORY_SIZE = \h2808 + EXPANSION_ROM_SIZE
  BY <1>1 DEF TOTAL_MEMORY_SIZE, M6502_RAM_SIZE, PPU_REGISTERS_SIZE, SRAM_SIZE
<1>3. a % \h800 \in 0 .. \h7FF /\ a % 8 \in 0 .. 7  BY SMT
<1>4. CASE a < \h2000
  <2>1. decode_address(a) = a % \h800  BY <1>4, DecodeWindows
  <2> QED  BY <1>1, <1>2, <1>3, <2>1
<1>5. CASE \h2000 <= a /\ a < \h4000
  <2>1. decode_address(a) = \h800 + (a % 8)  BY <1>5, DecodeWindows
  <2> QED  BY <1>1, <1>2, <1>3, <2>1
<1>6. CASE \h4000 <= a /\ a < \h6000
  <2>1. decode_address(a) = \h808 + (a - \h4000)  BY <1>6, DecodeWindows
  <2> QED  BY <1>1, <1>2, <1>6, <2>1
<1>7. CASE \h6000 <= a
  <2>1. decode_address(a) = \h808 + EXPANSION_ROM_SIZE + (a - \h6000)
    BY <1>7, DecodeWindows
  <2> QED  BY <1>1, <1>2, <1>7, <2>1
<1> QED  BY <1>4, <1>5, <1>6, <1>7
=============================================================================
