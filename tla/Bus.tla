-------------------------------- MODULE Bus --------------------------------
(***************************************************************************)
(* The CPU bus: the 74LS138 decoder (ti74ls138.c), the memory array behind *)
(* it (memory.c) and the program ROM (program.h).                          *)
(*                                                                         *)
(* mem is the array memory_t.data.  memory_init fills it with zeros, so it *)
(* is kept as the function of the bytes stored since: a byte outside its   *)
(* domain is 0.  PROGMEM is the constant array of program.h, kept the same *)
(* way; a build has one, and the specifications that use this module       *)
(* choose it in their initial states.                                      *)
(*                                                                         *)
(* The chip-enable field dev->CE is not a variable: decode_address assigns *)
(* it before its switch reads it and nothing else reads it, so it is the   *)
(* operator CE of the address.                                             *)
(*                                                                         *)
(* Out of bounds.  A read one past the end of data[] or of PROGMEM[]       *)
(* returns the byte the build happened to put there: past, which may       *)
(* change at any step.  A store outside data[] overwrites an object this   *)
(* module does not know; wild becomes TRUE and nothing is said of what     *)
(* follows.                                                                *)
(***************************************************************************)
EXTENDS Bytes

CONSTANTS EXPANSION_ROM_SIZE,  \* 0, or 8 KB with NES_USE_EXPANSION_ROM
          Past                 \* what may lie behind an array

ASSUME BusAssumption == /\ EXPANSION_ROM_SIZE \in {0, \h2000}
                        /\ Past \subseteq Byte
                        /\ Past # {}

VARIABLES mem, PROGMEM, past, wild

M6502_RAM_SIZE     == \h800
PPU_REGISTERS_SIZE == \h8
SRAM_SIZE          == \h2000
TOTAL_MEMORY_SIZE  ==
  M6502_RAM_SIZE + PPU_REGISTERS_SIZE + EXPANSION_ROM_SIZE + SRAM_SIZE

PRG_ROM_START == \h8000
PRG_ROM_SIZE  == \h8000        \* "array size is 32768" (program.h)
RESET_VECTOR  == \hFFFC
IRQ_VECTOR    == \hFFFE
STACK_BASE    == \h100

-----------------------------------------------------------------------------
(* decode_address: A15-A13 select the device, the device maps the rest.    *)

CE_CPU_RAM   == 0
CE_PPU       == 1
CE_EXPANSION == 2
CE_SRAM      == 3

CE(a) == a \div \h2000

chip_select_cpu_ram(a)       == a % M6502_RAM_SIZE
chip_select_ppu(a)           == a % PPU_REGISTERS_SIZE
chip_select_expansion_rom(a) == a - \h4000
chip_select_sram_flat(a)     == a             \* mutant: base not subtracted
chip_select_sram(a)          == a - \h6000
chip_select_prg_rom(a)       == a - PRG_ROM_START

(* Mutant: SRAM placed as if there were no expansion ROM.                  *)
decode_address_overlap(a) ==
  CASE CE(a) = CE_CPU_RAM -> chip_select_cpu_ram(a)
    [] CE(a) = CE_PPU     -> chip_select_ppu(a) + M6502_RAM_SIZE
    [] CE(a) \in {CE_EXPANSION, CE_SRAM} ->
         (a % \h2000) + M6502_RAM_SIZE + PPU_REGISTERS_SIZE
    [] OTHER              -> chip_select_prg_rom(a)

decode_address(a) ==
  CASE CE(a) = CE_CPU_RAM   -> chip_select_cpu_ram(a)
    [] CE(a) = CE_PPU       -> chip_select_ppu(a) + M6502_RAM_SIZE
    [] CE(a) = CE_EXPANSION -> chip_select_expansion_rom(a)
                                 + M6502_RAM_SIZE + PPU_REGISTERS_SIZE
    [] CE(a) = CE_SRAM      -> chip_select_sram(a) + M6502_RAM_SIZE
                                 + PPU_REGISTERS_SIZE + EXPANSION_ROM_SIZE
    [] OTHER                -> chip_select_prg_rom(a)

-----------------------------------------------------------------------------
(* memory.c, PROGMEM[] and the reads of the bus.                           *)

memory_get(h) == IF h >= TOTAL_MEMORY_SIZE THEN past
                 ELSE IF h \in DOMAIN mem THEN mem[h] ELSE 0

memory_set_char(m, h, v) ==                 \* mutant: char data[]
  [x \in DOMAIN m \cup {h} |-> IF x = h THEN Signed(v) ELSE m[x]]
memory_set(m, h, v) == [x \in DOMAIN m \cup {h} |-> IF x = h THEN v ELSE m[x]]

progmem_get(o) == IF o >= PRG_ROM_SIZE THEN past
                  ELSE IF o \in DOMAIN PROGMEM THEN PROGMEM[o] ELSE 0

bus_read_byte(a) ==
  IF a >= PRG_ROM_START THEN progmem_get(decode_address(a))
                        ELSE memory_get(decode_address(a))

(* The word is read at the decoded address and the one behind it: the      *)
(* second address is not decoded.                                          *)
bus_read_word(a) ==
  LET h == decode_address(a)
  IN  IF a >= PRG_ROM_START THEN Word(progmem_get(h), progmem_get(h + 1))
                            ELSE Word(memory_get(h), memory_get(h + 1))

(* A store always goes to data[], the ROM window's stores too.             *)
bus_write_byte(a, v) ==
  LET h == decode_address(a)
  IN  \/ /\ h < TOTAL_MEMORY_SIZE
         /\ mem' = memory_set(mem, h, v)
         /\ UNCHANGED wild
      \/ /\ h >= TOTAL_MEMORY_SIZE
         /\ wild' = TRUE
         /\ UNCHANGED mem

bus_write_word(a, w) ==
  LET h == decode_address(a)
  IN  \/ /\ h + 1 < TOTAL_MEMORY_SIZE
         /\ mem' = memory_set(memory_set(mem, h, Lo(w)), h + 1, Page(w))
         /\ UNCHANGED wild
      \/ /\ h + 1 >= TOTAL_MEMORY_SIZE
         /\ wild' = TRUE
         /\ UNCHANGED mem

(* memory_init, and the arrays' ranges.                                    *)
BusInit == /\ mem = [h \in {} |-> 0]
           /\ past \in Past
           /\ wild = FALSE

BusTypeOK == /\ \A h \in DOMAIN mem : /\ h \in 0 .. TOTAL_MEMORY_SIZE - 1
                                      /\ mem[h] \in Byte
             /\ \A o \in DOMAIN PROGMEM : PROGMEM[o] \in Byte
             /\ past \in Past
             /\ wild \in BOOLEAN
=============================================================================
