-------------------------- MODULE BusClient_proofs --------------------------
(***************************************************************************)
(* The bus under an arbitrary client, for every set of addresses, values   *)
(* and program ROMs.                                                       *)
(***************************************************************************)
EXTENDS BusClient, Bus_proofs

(* The bytes a client writes as a word are one.                            *)
LEMMA ValuesMakeWords == \A lo, hi \in Values : Word(lo, hi) \in Word16
  BY ClientAssumption, WordType

(* Bytes, words and addresses stay in range from step to step.             *)
LEMMA ClientType == TypeOK /\ [Next]_vars => TypeOK'
<1> SUFFICES ASSUME TypeOK, [Next]_vars PROVE TypeOK'  OBVIOUS
<1>1. ASSUME past' \in Past, NEW a \in ByteAddrs, NEW v \in Values, WriteByte(a, v)
      PROVE  TypeOK'
  <2>1. a \in Word16 /\ v \in Byte  BY ClientAssumption
  <2> QED  BY <1>1, <2>1, WriteType DEF TypeOK, WriteByte
<1>2. ASSUME past' \in Past, NEW a \in WordAddrs, NEW lo \in Values, NEW hi \in Values,
             WriteWord(a, lo, hi)
      PROVE  TypeOK'
  <2>1. a \in Word16 /\ Word(lo, hi) \in Word16  BY ClientAssumption, ValuesMakeWords
  <2> QED  BY <1>2, <2>1, WriteWordType DEF TypeOK, WriteWord
<1>3. ASSUME past' \in Past, NEW a, ReadByte(a) \/ ReadWord(a) PROVE TypeOK'
  <2>1. out' = bus_read_byte(a) \/ out' = bus_read_word(a)  BY <1>3 DEF ReadByte, ReadWord
  <2>2. out' \in Word16  BY <2>1, ReadType, ByteRange DEF TypeOK
  <2> QED  BY <1>3, <2>2 DEF TypeOK, BusTypeOK, ReadByte, ReadWord
<1>4. CASE UNCHANGED vars  BY <1>4 DEF vars, TypeOK, BusTypeOK
<1> QED  BY <1>1, <1>2, <1>3, <1>4 DEF Next, Client

(* The array holds bytes inside its bounds, and every read returns a value *)
(* of its type.                                                            *)
THEOREM BusTypeCorrect == Spec => []TypeOK
<1>1. ASSUME Init PROVE TypeOK
  <2>1. DOMAIN mem = {}  BY <1>1 DEF Init, BusInit
  <2>2. \A o \in DOMAIN PROGMEM : PROGMEM[o] \in Byte
    BY <1>1, ClientAssumption DEF Init
  <2>3. past \in Past /\ wild = FALSE /\ out = 0  BY <1>1 DEF Init, BusInit
  <2>4. out \in Word16  BY <2>3, IsWord
  <2>5. BusTypeOK  BY <2>1, <2>2, <2>3 DEF BusTypeOK
  <2> QED  BY <2>4, <2>5 DEF TypeOK
<1> QED  BY <1>1, ClientType, PTL DEF Spec

(* A store below the program ROM is a store inside data[].                  *)
LEMMA ByteInside ==
  ASSUME ~wild, NEW a \in ByteAddrs, NEW v, WriteByte(a, v), a < PRG_ROM_START
  PROVE  ~wild'
<1>1. TOTAL_MEMORY_SIZE \in Int
  BY BusAssumption DEF TOTAL_MEMORY_SIZE, M6502_RAM_SIZE, PPU_REGISTERS_SIZE, SRAM_SIZE
<1>2. a \in Word16  BY ClientAssumption
<1>3. a \in Int /\ 0 <= a /\ a <= \h7FFF
  <2>1. ~(a >= PRG_ROM_START)  BY <1>2, WordRange DEF PRG_ROM_START
  <2> QED  BY <1>2, <2>1, BelowRom
<1>4. decode_address(a) < TOTAL_MEMORY_SIZE /\ decode_address(a) \in Int
  BY <1>1, <1>3, DecodeInside
<1>5. ~(decode_address(a) >= TOTAL_MEMORY_SIZE)  BY <1>1, <1>4
<1> QED  BY <1>5 DEF WriteByte, bus_write_byte

(* So is a store of a word, except at the ends of two windows.             *)
LEMMA WordInside ==
  ASSUME ~wild, NEW a \in WordAddrs, NEW lo, NEW hi, WriteWord(a, lo, hi),
         a < PRG_ROM_START, a \notin {\h5FFF, \h7FFF}
  PROVE  ~wild'
<1>1. TOTAL_MEMORY_SIZE \in Int
  BY BusAssumption DEF TOTAL_MEMORY_SIZE, M6502_RAM_SIZE, PPU_REGISTERS_SIZE, SRAM_SIZE
<1>2. a \in Word16  BY ClientAssumption
<1>3. a \in Int /\ 0 <= a /\ a <= \h7FFF
  <2>1. ~(a >= PRG_ROM_START)  BY <1>2, WordRange DEF PRG_ROM_START
  <2> QED  BY <1>2, <2>1, BelowRom
<1>4. decode_address(a) + 1 < TOTAL_MEMORY_SIZE /\ decode_address(a) \in Int
  BY <1>1, <1>3, DecodeInside
<1>5. ~(decode_address(a) + 1 >= TOTAL_MEMORY_SIZE)  BY <1>1, <1>4
<1> QED  BY <1>5 DEF WriteWord, bus_write_word

-----------------------------------------------------------------------------
(* No store of a client leaves data[], but for the ROM window and for a    *)
(* word at the last address of the expansion or the SRAM window.           *)
THEOREM StoresStayInside == Spec => OnlyRomStoresEscape
<1>1. Next => ~wild  BY DEF Next
<1>2. [Next]_vars =>
        [/\ \A a \in ByteAddrs, v \in Values :
              WriteByte(a, v) /\ a < PRG_ROM_START => ~wild'
         /\ \A a \in WordAddrs, lo, hi \in Values :
              WriteWord(a, lo, hi) /\ a < PRG_ROM_START /\ a \notin {\h5FFF, \h7FFF}
                => ~wild']_vars
  BY <1>1, ByteInside, WordInside
<1> QED  BY <1>2, PTL DEF Spec, OnlyRomStoresEscape

(* A client that keeps below the program ROM, and whose words keep off the *)
(* ends of the expansion and the SRAM window, never stores outside data[], *)
(* in both builds.                                                         *)
THEOREM TameClientStaysInside ==
  ASSUME \A a \in ByteAddrs : a < PRG_ROM_START,
         \A a \in WordAddrs : a < PRG_ROM_START /\ a \notin {\h5FFF, \h7FFF}
  PROVE  Spec => []StaysInArray
<1>1. Init => StaysInArray  BY DEF Init, BusInit, StaysInArray
<1>2. StaysInArray /\ [Next]_vars => StaysInArray'
  <2> SUFFICES ASSUME ~wild, [Next]_vars PROVE ~wild'  BY DEF StaysInArray
  <2>1. CASE Client
    <3>1. ASSUME NEW a \in ByteAddrs, NEW v \in Values, WriteByte(a, v) PROVE ~wild'
      BY <3>1, ByteInside
    <3>2. ASSUME NEW a \in WordAddrs, NEW lo \in Values, NEW hi \in Values,
                 WriteWord(a, lo, hi)
          PROVE  ~wild'
      BY <3>2, WordInside
    <3> QED  BY <2>1, <3>1, <3>2 DEF Client, ReadByte, ReadWord
  <2>2. CASE UNCHANGED vars  BY <2>2 DEF vars
  <2> QED  BY <2>1, <2>2 DEF Next
<1> QED  BY <1>1, <1>2, PTL DEF Spec

-----------------------------------------------------------------------------
(* The memory map.  It is implemented by the build with the expansion ROM, *)
(* for clients that stay below the program ROM and read and write no word  *)
(* at the end of a mirror of the RAM or of the PPU registers: its second   *)
(* byte would be the next device's first.                                  *)
EndsMirror(a) == \/ a < \h1FFF /\ a % \h800 = \h7FF
                 \/ \h2000 <= a /\ a < \h3FFF /\ a % 8 = 7

WithExpansion ==
  /\ EXPANSION_ROM_SIZE = \h2000
  /\ \A a \in ByteAddrs : a < \h8000
  /\ \A a \in WordAddrs : a < \h7FFF /\ ~EndsMirror(a)

Mapped(a) == a \in Int /\ 0 <= a /\ a <= \h7FFF

(* The registers of each device, and where data[] has them.                *)
IsCell(c) ==
  /\ c = <<c[1], c[2]>>
  /\ c[2] \in Int /\ 0 <= c[2]
  /\ \/ c[1] = "RAM" /\ c[2] < \h800
     \/ c[1] = "PPU" /\ c[2] < 8
     \/ c[1] = "EXPANSION" /\ c[2] < \h2000
     \/ c[1] = "SRAM" /\ c[2] < \h2000

Offset(c) == IF c[1] = "RAM" THEN c[2]
             ELSE IF c[1] = "PPU" THEN \h800 + c[2]
             ELSE IF c[1] = "EXPANSION" THEN \h808 + c[2]
             ELSE \h2808 + c[2]

(* The register of a mapped address, one window each.                      *)
LEMMA CellWindows ==
  ASSUME NEW a, Mapped(a)
  PROVE  /\ a < \h2000 => Cell(a) = <<"RAM", a % \h800>>
         /\ \h2000 <= a /\ a < \h4000 => Cell(a) = <<"PPU", a % 8>>
         /\ \h4000 <= a /\ a < \h6000 => Cell(a) = <<"EXPANSION", a - \h4000>>
         /\ \h6000 <= a => Cell(a) = <<"SRAM", a - \h6000>>
<1>0. a \in Int /\ 0 <= a /\ a <= \h7FFF  BY DEF Mapped
<1> DEFINE ram == a \in 0 .. \h1FFF
           ppu == a \in \h2000 .. \h3FFF
           exp == a \in \h4000 .. \h5FFF
<1>1. /\ ram <=> a < \h2000
      /\ ppu <=> \h2000 <= a /\ a < \h4000
      /\ exp <=> \h4000 <= a /\ a < \h6000
  BY <1>0
<1>2. Cell(a) = CASE ram -> <<"RAM", a % \h800>> [] ppu -> <<"PPU", a % 8>>
                  [] exp -> <<"EXPANSION", a - \h4000>> [] OTHER -> <<"SRAM", a - \h6000>>
  BY DEF Cell
<1> HIDE DEF ram, ppu, exp
<1>3. ASSUME a < \h2000 PROVE Cell(a) = <<"RAM", a % \h800>>
  <2>1. ram /\ ~ppu /\ ~exp  BY <1>0, <1>1, <1>3
  <2> QED  BY <1>2, <2>1
<1>4. ASSUME \h2000 <= a, a < \h4000 PROVE Cell(a) = <<"PPU", a % 8>>
  <2>1. ~ram /\ ppu /\ ~exp  BY <1>0, <1>1, <1>4
  <2> QED  BY <1>2, <2>1
<1>5. ASSUME \h4000 <= a, a < \h6000 PROVE Cell(a) = <<"EXPANSION", a - \h4000>>
  <2>1. ~ram /\ ~ppu /\ exp  BY <1>0, <1>1, <1>5
  <2> QED  BY <1>2, <2>1
<1>6. ASSUME \h6000 <= a PROVE Cell(a) = <<"SRAM", a - \h6000>>
  <2>1. ~ram /\ ~ppu /\ ~exp  BY <1>0, <1>1, <1>6
  <2> QED  BY <1>2, <2>1
<1> QED  BY <1>3, <1>4, <1>5, <1>6

(* A mapped address has a register, and the decoder sends it to the byte   *)
(* of that register.                                                       *)
LEMMA DecodeIsOffset ==
  ASSUME EXPANSION_ROM_SIZE = \h2000, NEW a, Mapped(a)
  PROVE  IsCell(Cell(a)) /\ decode_address(a) = Offset(Cell(a))
<1>1. CASE a < \h2000
  <2>1. PICK r \in Int : r = a % \h800 /\ 0 <= r /\ r < \h800  BY DEF Mapped
  <2>2. Cell(a) = <<"RAM", r>>  BY <1>1, <2>1, CellWindows
  <2>3. decode_address(a) = r  BY <1>1, <2>1, DecodeWindows DEF Mapped
  <2> QED  BY <2>1, <2>2, <2>3 DEF Offset, IsCell
<1>2. CASE \h2000 <= a /\ a < \h4000
  <2>1. PICK r \in Int : r = a % 8 /\ 0 <= r /\ r < 8  BY DEF Mapped
  <2>2. Cell(a) = <<"PPU", r>>  BY <1>2, <2>1, CellWindows
  <2>3. decode_address(a) = \h800 + r  BY <1>2, <2>1, DecodeWindows DEF Mapped
  <2> QED  BY <2>1, <2>2, <2>3 DEF Offset, IsCell
<1>3. CASE \h4000 <= a /\ a < \h6000
  <2>1. PICK r \in Int : r = a - \h4000 /\ 0 <= r /\ r < \h2000  BY <1>3 DEF Mapped
  <2>2. Cell(a) = <<"EXPANSION", r>>  BY <1>3, <2>1, CellWindows
  <2>3. decode_address(a) = \h808 + r  BY <1>3, <2>1, DecodeWindows DEF Mapped
  <2> QED  BY <2>1, <2>2, <2>3 DEF Offset, IsCell
<1>4. CASE \h6000 <= a
  <2>1. PICK r \in Int : r = a - \h6000 /\ 0 <= r /\ r < \h2000  BY <1>4 DEF Mapped
  <2>2. Cell(a) = <<"SRAM", r>>  BY <1>4, <2>1, CellWindows
  <2>3. decode_address(a) = \h2808 + r  BY <1>4, <2>1, DecodeWindows DEF Mapped
  <2> QED  BY <2>1, <2>2, <2>3 DEF Offset, IsCell
<1> QED  BY <1>1, <1>2, <1>3, <1>4 DEF Mapped

(* No two registers share a byte.                                          *)
LEMMA OffsetInjective ==
  ASSUME NEW c, IsCell(c), NEW d, IsCell(d), Offset(c) = Offset(d)
  PROVE  c = d
<1>1. c[1] = d[1] /\ c[2] = d[2]  BY DEF IsCell, Offset
<1> QED  BY <1>1 DEF IsCell

(* The lowest address of a register is one of its addresses.               *)
LEMMA AddressOfCell ==
  ASSUME NEW c, IsCell(c) PROVE Mapped(Address(c)) /\ Cell(Address(c)) = c
<1> DEFINE r == c[2]
<1>0. r \in Int /\ 0 <= r /\ c = <<c[1], r>>  BY DEF IsCell
<1>1. CASE c[1] = "RAM"
  <2>1. Address(c) = r /\ r < \h800  BY <1>0, <1>1 DEF Address, IsCell
  <2> HIDE DEF r
  <2>2. r % \h800 = r /\ Mapped(r)  BY <1>0, <2>1 DEF Mapped
  <2>3. Cell(r) = <<"RAM", r % \h800>>  BY <1>0, <2>1, <2>2, CellWindows
  <2> QED  BY <1>0, <1>1, <2>1, <2>2, <2>3
<1>2. CASE c[1] = "PPU"
  <2>1. Address(c) = r + \h2000 /\ r < 8  BY <1>0, <1>2 DEF Address, IsCell
  <2> HIDE DEF r
  <2>2. (r + \h2000) % 8 = r /\ Mapped(r + \h2000)  BY <1>0, <2>1 DEF Mapped
  <2>3. Cell(r + \h2000) = <<"PPU", r>>  BY <1>0, <2>1, <2>2, CellWindows
  <2> QED  BY <1>0, <1>2, <2>1, <2>2, <2>3
<1>3. CASE c[1] = "EXPANSION"
  <2>1. Address(c) = r + \h4000 /\ r < \h2000  BY <1>0, <1>3 DEF Address, IsCell
  <2> HIDE DEF r
  <2>2. r + \h4000 - \h4000 = r /\ Mapped(r + \h4000)  BY <1>0, <2>1 DEF Mapped
  <2>3. Cell(r + \h4000) = <<"EXPANSION", r>>  BY <1>0, <2>1, <2>2, CellWindows
  <2> QED  BY <1>0, <1>3, <2>1, <2>2, <2>3
<1>4. CASE c[1] = "SRAM"
  <2>1. Address(c) = r + \h6000 /\ r < \h2000  BY <1>0, <1>4 DEF Address, IsCell
  <2> HIDE DEF r
  <2>2. r + \h6000 - \h6000 = r /\ Mapped(r + \h6000)  BY <1>0, <2>1 DEF Mapped
  <2>3. Cell(r + \h6000) = <<"SRAM", r>>  BY <1>0, <2>1, <2>2, CellWindows
  <2> QED  BY <1>0, <1>4, <2>1, <2>2, <2>3
<1> QED  BY <1>1, <1>2, <1>3, <1>4 DEF IsCell

(* The two bytes of a word that the assumption allows are neighbours in    *)
(* data[]: within a mirror, and where one window ends and the next begins. *)
LEMMA WordCells ==
  ASSUME WithExpansion, NEW a \in WordAddrs
  PROVE  /\ Mapped(a) /\ Mapped(a + 1)
         /\ decode_address(a + 1) = decode_address(a) + 1
<1>1. a \in Word16  BY ClientAssumption
<1>2. a \in Int /\ 0 <= a /\ a < \h7FFF /\ ~EndsMirror(a)
  BY <1>1, WordRange DEF WithExpansion
<1>3. Mapped(a) /\ Mapped(a + 1)  BY <1>2 DEF Mapped
<1>4. EXPANSION_ROM_SIZE = \h2000  BY DEF WithExpansion
<1>5. CASE a < \h1FFF
  <2>1. a % \h800 # \h7FF  BY <1>2, <1>5 DEF EndsMirror
  <2>2. (a + 1) % \h800 = (a % \h800) + 1  BY <1>2, <2>1
  <2>3. decode_address(a) = a % \h800  BY <1>2, <1>5, DecodeWindows
  <2>4. decode_address(a + 1) = (a + 1) % \h800  BY <1>2, <1>5, DecodeWindows
  <2> QED  BY <1>3, <2>2, <2>3, <2>4
<1>6. CASE a = \h1FFF
  <2>1. decode_address(\h1FFF) = \h1FFF % \h800  BY DecodeWindows
  <2>2. decode_address(\h2000) = \h800 + (\h2000 % 8)  BY DecodeWindows
  <2> QED  BY <1>3, <1>6, <2>1, <2>2
<1>7. CASE \h2000 <= a /\ a < \h3FFF
  <2>1. a % 8 # 7  BY <1>2, <1>7 DEF EndsMirror
  <2>2. (a + 1) % 8 = (a % 8) + 1 /\ a % 8 \in Int  BY <1>2, <2>1
  <2>3. decode_address(a) = \h800 + (a % 8)  BY <1>2, <1>7, DecodeWindows
  <2>4. decode_address(a + 1) = \h800 + ((a + 1) % 8)  BY <1>2, <1>7, DecodeWindows
  <2> QED  BY <1>3, <2>2, <2>3, <2>4
<1>8. CASE a = \h3FFF
  <2>1. decode_address(\h3FFF) = \h800 + (\h3FFF % 8)  BY DecodeWindows
  <2>2. decode_address(\h4000) = \h808 + (\h4000 - \h4000)  BY DecodeWindows
  <2> QED  BY <1>3, <1>8, <2>1, <2>2
<1>9. CASE \h4000 <= a /\ a < \h5FFF
  <2>1. decode_address(a) = \h808 + (a - \h4000)  BY <1>2, <1>9, DecodeWindows
  <2>2. decode_address(a + 1) = \h808 + (a + 1 - \h4000)  BY <1>2, <1>9, DecodeWindows
  <2> QED  BY <1>2, <1>3, <2>1, <2>2
<1>10. CASE a = \h5FFF
  <2>1. decode_address(\h5FFF) = \h808 + (\h5FFF - \h4000)  BY DecodeWindows
  <2>2. decode_address(\h6000) = \h808 + \h2000 + (\h6000 - \h6000)
    BY <1>4, DecodeWindows
  <2> QED  BY <1>3, <1>10, <2>1, <2>2
<1>11. CASE \h6000 <= a
  <2>1. decode_address(a) = \h808 + \h2000 + (a - \h6000)
    BY <1>2, <1>4, <1>11, DecodeWindows
  <2>2. decode_address(a + 1) = \h808 + \h2000 + (a + 1 - \h6000)
    BY <1>2, <1>4, <1>11, DecodeWindows
  <2> QED  BY <1>2, <1>3, <2>1, <2>2
<1> QED  BY <1>2, <1>5, <1>6, <1>7, <1>8, <1>9, <1>10, <1>11

(* Every register in use is one, and its content is at its offset.         *)
LEMMA RegisterType ==
  ASSUME WithExpansion
  PROVE  /\ \A a \in ByteAddrs : Mapped(a)
         /\ \A c \in Registers :
              IsCell(c) /\ decode_address(Address(c)) = Offset(c)
<1>1. EXPANSION_ROM_SIZE = \h2000  BY DEF WithExpansion
<1>2. ASSUME NEW a \in ByteAddrs PROVE Mapped(a)
  <2>1. a \in Word16 /\ a < \h8000  BY ClientAssumption DEF WithExpansion
  <2> QED  BY <2>1, WordRange DEF Mapped
<1>3. ASSUME NEW c \in Registers
      PROVE  IsCell(c) /\ decode_address(Address(c)) = Offset(c)
  <2>1. \E a : Mapped(a) /\ c = Cell(a)  BY <1>2, <1>3, WordCells DEF Registers
  <2>2. IsCell(c)  BY <1>1, <2>1, DecodeIsOffset
  <2>3. Mapped(Address(c)) /\ Cell(Address(c)) = c  BY <2>2, AddressOfCell
  <2> QED  BY <1>1, <2>2, <2>3, DecodeIsOffset
<1> QED  BY <1>2, <1>3

(* A register's offset lies inside data[], whatever lies behind it.        *)
LEMMA OffsetInside ==
  ASSUME EXPANSION_ROM_SIZE = \h2000, NEW c, IsCell(c)
  PROVE  /\ Offset(c) \in Int /\ Offset(c) >= 0
         /\ Offset(c) < TOTAL_MEMORY_SIZE
<1>1. TOTAL_MEMORY_SIZE = \h4808
  BY DEF TOTAL_MEMORY_SIZE, M6502_RAM_SIZE, PPU_REGISTERS_SIZE, SRAM_SIZE
<1> QED  BY <1>1 DEF IsCell, Offset

Content(c) == memory_get(Offset(c))

(* What is read of data[] is the array's byte or 0.                        *)
LEMMA GetInside ==
  ASSUME EXPANSION_ROM_SIZE = \h2000, NEW c, IsCell(c)
  PROVE  /\ Content(c) = IF Offset(c) \in DOMAIN mem THEN mem[Offset(c)] ELSE 0
         /\ Content(c)' = IF Offset(c) \in DOMAIN mem' THEN mem'[Offset(c)] ELSE 0
<1>1. ~(Offset(c) >= TOTAL_MEMORY_SIZE)
  <2>1. TOTAL_MEMORY_SIZE \in Int
    BY DEF TOTAL_MEMORY_SIZE, M6502_RAM_SIZE, PPU_REGISTERS_SIZE, SRAM_SIZE
  <2> QED  BY <2>1, OffsetInside
<1> QED  BY <1>1 DEF Content, memory_get

(* A store through an address changes the register of that address and no  *)
(* other.                                                                  *)
LEMMA StoreChangesOne ==
  ASSUME EXPANSION_ROM_SIZE = \h2000, NEW d, IsCell(d), NEW v,
         mem' = memory_set(mem, Offset(d), v), NEW c, IsCell(c)
  PROVE  Content(c)' = IF c = d THEN v ELSE Content(c)
<1>1. CASE c = d  BY <1>1, GetInside DEF memory_set
<1>2. CASE c # d
  <2>1. Offset(c) # Offset(d)  BY <1>2, OffsetInjective
  <2> QED  BY <1>2, <2>1, GetInside DEF memory_set
<1> QED  BY <1>1, <1>2

(* A store of a word, those of its two addresses.                          *)
LEMMA StoreChangesTwo ==
  ASSUME EXPANSION_ROM_SIZE = \h2000, NEW d, IsCell(d), NEW e, IsCell(e),
         NEW v, NEW w, Offset(d) # Offset(e),
         mem' = memory_set(memory_set(mem, Offset(d), v), Offset(e), w),
         NEW c, IsCell(c)
  PROVE  Content(c)' = IF c = e THEN w ELSE IF c = d THEN v ELSE Content(c)
<1> DEFINE once == memory_set(mem, Offset(d), v)
<1>1. /\ DOMAIN once = DOMAIN mem \cup {Offset(d)}
      /\ \A h \in DOMAIN once : once[h] = IF h = Offset(d) THEN v ELSE mem[h]
  BY DEF memory_set
<1>2. mem' = memory_set(once, Offset(e), w)  OBVIOUS
<1> HIDE DEF once
<1>3. /\ DOMAIN mem' = DOMAIN once \cup {Offset(e)}
      /\ \A h \in DOMAIN mem' : mem'[h] = IF h = Offset(e) THEN w ELSE once[h]
  BY <1>2 DEF memory_set
<1>4. /\ Content(c) = IF Offset(c) \in DOMAIN mem THEN mem[Offset(c)] ELSE 0
      /\ Content(c)' = IF Offset(c) \in DOMAIN mem' THEN mem'[Offset(c)] ELSE 0
  BY GetInside
<1>5. CASE c = e  BY <1>3, <1>4, <1>5
<1>6. CASE c = d /\ c # e  BY <1>1, <1>3, <1>4, <1>6
<1>7. CASE c # d /\ c # e
  <2>1. Offset(c) # Offset(d) /\ Offset(c) # Offset(e)  BY <1>7, OffsetInjective
  <2> QED  BY <1>1, <1>3, <1>4, <1>7, <2>1
<1> QED  BY <1>5, <1>6, <1>7
-----------------------------------------------------------------------------
(* The array of registers the refinement mapping shows.                    *)
Shown == [c \in Registers |-> memory_get(decode_address(Address(c)))]

(* What is shown is the contents of the registers.                         *)
LEMMA ShownIsContent ==
  ASSUME WithExpansion
  PROVE  /\ Shown = [c \in Registers |-> Content(c)]
         /\ Shown' = [c \in Registers |-> Content(c)']
<1>1. \A c \in Registers : decode_address(Address(c)) = Offset(c)  BY RegisterType
<1> QED  BY <1>1 DEF Shown, Content

(* The registers keep their contents when the array does, whatever lies    *)
(* behind it.                                                              *)
LEMMA ShownUnchanged ==
  ASSUME WithExpansion, mem' = mem PROVE Shown' = Shown
<1>1. ASSUME NEW c \in Registers PROVE Content(c)' = Content(c)
  <2>1. IsCell(c)  BY RegisterType
  <2> QED  BY <2>1, GetInside DEF WithExpansion
<1> QED  BY <1>1, ShownIsContent

(* The registers of the addresses in use.                                  *)
LEMMA RegistersOfAddresses ==
  /\ \A a \in ByteAddrs : Cell(a) \in Registers
  /\ \A a \in WordAddrs : Cell(a) \in Registers /\ Cell(a + 1) \in Registers
BY DEF Registers

(* bus_write_byte changes the register of its address, and no other.       *)
LEMMA ByteStore ==
  ASSUME WithExpansion, NEW a \in ByteAddrs, NEW v, bus_write_byte(a, v)
  PROVE  Shown' = [Shown EXCEPT ![Cell(a)] = v]
<1>1. EXPANSION_ROM_SIZE = \h2000  BY DEF WithExpansion
<1>2. Mapped(a)  BY RegisterType
<1>3. IsCell(Cell(a)) /\ decode_address(a) = Offset(Cell(a))
  BY <1>1, <1>2, DecodeIsOffset
<1>4. TOTAL_MEMORY_SIZE \in Int
  BY <1>1 DEF TOTAL_MEMORY_SIZE, M6502_RAM_SIZE, PPU_REGISTERS_SIZE, SRAM_SIZE
<1>5. ~(decode_address(a) >= TOTAL_MEMORY_SIZE)  BY <1>1, <1>3, <1>4, OffsetInside
<1>6. mem' = memory_set(mem, Offset(Cell(a)), v)  BY <1>3, <1>5 DEF bus_write_byte
<1>7. ASSUME NEW c \in Registers
      PROVE  Content(c)' = IF c = Cell(a) THEN v ELSE Content(c)
  <2>1. IsCell(c)  BY RegisterType
  <2> QED  BY <1>1, <1>3, <1>6, <2>1, StoreChangesOne
<1> QED  BY <1>7, ShownIsContent, RegistersOfAddresses

(* bus_write_word changes two neighbouring registers, and no other.        *)
LEMMA WordStore ==
  ASSUME WithExpansion, NEW a \in WordAddrs, NEW lo \in Byte, NEW hi \in Byte,
         bus_write_word(a, Word(lo, hi))
  PROVE  Shown' = [Shown EXCEPT ![Cell(a)] = lo, ![Cell(a + 1)] = hi]
<1>1. EXPANSION_ROM_SIZE = \h2000  BY DEF WithExpansion
<1>2. Mapped(a) /\ Mapped(a + 1) /\ decode_address(a + 1) = decode_address(a) + 1
  BY WordCells
<1>3. IsCell(Cell(a)) /\ decode_address(a) = Offset(Cell(a))
  BY <1>1, <1>2, DecodeIsOffset
<1>4. IsCell(Cell(a + 1)) /\ decode_address(a) + 1 = Offset(Cell(a + 1))
  BY <1>1, <1>2, DecodeIsOffset
<1>5. TOTAL_MEMORY_SIZE \in Int
  BY <1>1 DEF TOTAL_MEMORY_SIZE, M6502_RAM_SIZE, PPU_REGISTERS_SIZE, SRAM_SIZE
<1>6. ~(decode_address(a) + 1 >= TOTAL_MEMORY_SIZE)
  BY <1>1, <1>4, <1>5, OffsetInside
<1>7. Lo(Word(lo, hi)) = lo /\ Page(Word(lo, hi)) = hi
  BY DEF Word, Lo, Page, Byte
<1>8. mem' = memory_set(memory_set(mem, Offset(Cell(a)), lo), Offset(Cell(a + 1)), hi)
  BY <1>3, <1>4, <1>6, <1>7 DEF bus_write_word
<1>9. Offset(Cell(a)) # Offset(Cell(a + 1))  BY <1>1, <1>3, <1>4, OffsetInside
<1>10. ASSUME NEW c \in Registers
       PROVE  Content(c)' = IF c = Cell(a + 1) THEN hi
                            ELSE IF c = Cell(a) THEN lo ELSE Content(c)
  <2>1. IsCell(c)  BY RegisterType
  <2> QED  BY <1>1, <1>3, <1>4, <1>8, <1>9, <2>1, StoreChangesTwo
<1> QED  BY <1>9, <1>10, ShownIsContent, RegistersOfAddresses

(* bus_read_byte returns what the register of its address holds.           *)
LEMMA ByteRead ==
  ASSUME WithExpansion, NEW a \in ByteAddrs PROVE bus_read_byte(a) = Shown[Cell(a)]
<1>1. Mapped(a)  BY RegisterType
<1>2. decode_address(a) = Offset(Cell(a))  BY <1>1, DecodeIsOffset DEF WithExpansion
<1>3. ~(a >= PRG_ROM_START)  BY <1>1 DEF Mapped, PRG_ROM_START
<1> QED  BY <1>2, <1>3, ShownIsContent, RegistersOfAddresses DEF bus_read_byte, Content

(* bus_read_word returns what two neighbouring registers hold.             *)
LEMMA WordRead ==
  ASSUME WithExpansion, NEW a \in WordAddrs
  PROVE  bus_read_word(a) = Word(Shown[Cell(a)], Shown[Cell(a + 1)])
<1>1. Mapped(a) /\ Mapped(a + 1) /\ decode_address(a + 1) = decode_address(a) + 1
  BY WordCells
<1>2. /\ decode_address(a) = Offset(Cell(a))
      /\ decode_address(a) + 1 = Offset(Cell(a + 1))
  BY <1>1, DecodeIsOffset DEF WithExpansion
<1>3. ~(a >= PRG_ROM_START)  BY <1>1 DEF Mapped, PRG_ROM_START
<1> QED  BY <1>2, <1>3, ShownIsContent, RegistersOfAddresses DEF bus_read_word, Content

-----------------------------------------------------------------------------
(* The decoder and the array implement the memory map of ti74ls138.h for   *)
(* every set of addresses below the program ROM, every program ROM and     *)
(* every sequence of reads and writes, in the build with the expansion ROM.*)
THEOREM MapIsImplemented ==
  ASSUME WithExpansion PROVE Spec => ImplementsMemoryMap
<1>a. \A a : Map!Cell(a) = Cell(a)  BY DEF Map!Cell, Cell
<1>b. Map!Cells = Registers
  BY <1>a, Zenon DEF Map!Cells, Registers
<1>1. ASSUME Init PROVE Map!Init
  <2>1. DOMAIN mem = {} /\ out = 0  BY <1>1 DEF Init, BusInit
  <2>2. ASSUME NEW c \in Registers PROVE Content(c) = 0
    <3>1. IsCell(c)  BY RegisterType
    <3> QED  BY <2>1, <3>1, GetInside DEF WithExpansion
  <2>3. Shown = [c \in Registers |-> 0]  BY <2>2, ShownIsContent
  <2> QED  BY <1>b, <2>1, <2>3 DEF Map!Init, Shown
<1>2. ASSUME NEW a \in ByteAddrs, NEW v \in Values, WriteByte(a, v)
      PROVE  Map!Next
  <2>1. Shown' = [Shown EXCEPT ![Cell(a)] = v] /\ out' = out
    BY <1>2, ByteStore DEF WriteByte
  <2>2. Map!WriteByte(a, v)  BY <1>a, <2>1 DEF Map!WriteByte, Shown
  <2> QED  BY <2>2 DEF Map!Next
<1>3. ASSUME NEW a \in WordAddrs, NEW lo \in Values, NEW hi \in Values,
             WriteWord(a, lo, hi)
      PROVE  Map!Next
  <2>1. lo \in Byte /\ hi \in Byte  BY ClientAssumption
  <2>2. /\ Shown' = [Shown EXCEPT ![Cell(a)] = lo, ![Cell(a + 1)] = hi]
        /\ out' = out
    BY <1>3, <2>1, WordStore DEF WriteWord
  <2>3. Map!WriteWord(a, lo, hi)  BY <1>a, <2>2 DEF Map!WriteWord, Shown
  <2> QED  BY <2>3 DEF Map!Next
<1>4. ASSUME NEW a \in ByteAddrs, ReadByte(a) PROVE Map!Next
  <2>1. out' = Shown[Cell(a)] /\ Shown' = Shown
    BY <1>4, ByteRead, ShownUnchanged DEF ReadByte
  <2>2. Map!ReadByte(a)  BY <1>a, <2>1 DEF Map!ReadByte, Shown
  <2> QED  BY <2>2 DEF Map!Next
<1>5. ASSUME NEW a \in WordAddrs, ReadWord(a) PROVE Map!Next
  <2>1. out' = Word(Shown[Cell(a)], Shown[Cell(a + 1)]) /\ Shown' = Shown
    BY <1>5, WordRead, ShownUnchanged DEF ReadWord
  <2>2. Map!ReadWord(a)  BY <1>a, <2>1 DEF Map!ReadWord, Map!Word, Word, Shown
  <2> QED  BY <2>2 DEF Map!Next
<1>6. ASSUME UNCHANGED vars PROVE UNCHANGED Map!vars
  <2>1. Shown' = Shown /\ out' = out  BY <1>6, ShownUnchanged DEF vars
  <2> QED  BY <2>1 DEF Map!vars, Shown
<1>7. [Next]_vars => [Map!Next]_Map!vars
  BY <1>2, <1>3, <1>4, <1>5, <1>6 DEF Next, Client
<1> QED  BY <1>1, <1>7, PTL DEF Spec, ImplementsMemoryMap, Map!Spec
=============================================================================
