----------------------------- MODULE BusClient -----------------------------
(***************************************************************************)
(* The bus under an arbitrary client: any sequence of bus_read_byte,       *)
(* bus_write_byte, bus_read_word and bus_write_word calls.  The CPU, the   *)
(* shell commands and the PRG loader are such clients.                     *)
(***************************************************************************)
EXTENDS Bus, MemoryMap

CONSTANTS ByteAddrs, WordAddrs,  \* the addresses the client uses
          Values,                \* the bytes it writes
          Images                 \* the program ROMs of the builds considered

ASSUME ClientAssumption == /\ ByteAddrs \cup WordAddrs \subseteq Word16
                           /\ Values \subseteq Byte
                           /\ \A p \in Images :
                                \A o \in DOMAIN p : p[o] \in Byte

VARIABLE out                     \* what the last bus_read_* returned

vars == <<mem, PROGMEM, past, wild, out>>

Init == /\ BusInit
        /\ PROGMEM \in Images
        /\ out = 0

WriteByte(a, v) == /\ bus_write_byte(a, v)
                   /\ UNCHANGED <<out, PROGMEM>>

WriteWord(a, lo, hi) == /\ bus_write_word(a, Word(lo, hi))
                        /\ UNCHANGED <<out, PROGMEM>>

ReadByte(a) == /\ out' = bus_read_byte(a)
               /\ UNCHANGED <<mem, wild, PROGMEM>>

ReadWord(a) == /\ out' = bus_read_word(a)
               /\ UNCHANGED <<mem, wild, PROGMEM>>

Client == \/ \E a \in ByteAddrs, v \in Values : WriteByte(a, v)
          \/ \E a \in ByteAddrs : ReadByte(a)
          \/ \E a \in WordAddrs, lo, hi \in Values : WriteWord(a, lo, hi)
          \/ \E a \in WordAddrs : ReadWord(a)

Next == ~wild /\ Client /\ past' \in Past

Spec == Init /\ [][Next]_vars

(* Every byte of the array, of the ROM and every value read is in range.   *)
TypeOK == /\ BusTypeOK
          /\ out \in Word16

-----------------------------------------------------------------------------
(* The bus implements the memory map of ti74ls138.h: registers of two      *)
(* devices never share storage, mirrors of one always do, a word is its    *)
(* two bytes, and no write disturbs another register.  The content of a    *)
(* register is the byte stored where its lowest address decodes to.        *)
Registers == {Cell(a) : a \in ByteAddrs \cup WordAddrs}
               \cup {Cell(a + 1) : a \in WordAddrs}

Map == INSTANCE DeviceSpace WITH
         cells <- [c \in Registers |-> memory_get(decode_address(Address(c)))]

ImplementsMemoryMap == Map!Spec

(* A write through the decoder stays inside data[]; the hardware address   *)
(* of a word's second byte, which is not decoded, does too.                *)
StaysInArray == ~wild

(* A store can leave data[] in the ROM window only, or as the second byte  *)
(* of a word that begins at the last address of the expansion or the SRAM  *)
(* window, which is not decoded again: in the default build both windows   *)
(* end with data[].                                                        *)
OnlyRomStoresEscape ==
  [][/\ \A a \in ByteAddrs, v \in Values :
          WriteByte(a, v) /\ a < PRG_ROM_START => ~wild'
     /\ \A a \in WordAddrs, lo, hi \in Values :
          WriteWord(a, lo, hi) /\ a < PRG_ROM_START /\ a \notin {\h5FFF, \h7FFF}
            => ~wild']_vars

(* test-ti74ls138.c:53-54: a byte written at an address reads back there,  *)
(* at the program ROM's addresses as at any other.                         *)
WrittenByteReadsBack ==
  [][\A a \in ByteAddrs, v \in Values :
       WriteByte(a, v) => bus_read_byte(a)' = v]_vars
=============================================================================
