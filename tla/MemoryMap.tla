----------------------------- MODULE MemoryMap -----------------------------
(***************************************************************************)
(* The memory map below the program ROM as the comments of ti74ls138.h     *)
(* give it: the RAM and its mirrors, the PPU registers repeated every      *)
(* eight bytes, the APU and expansion window and the SRAM.                 *)
(***************************************************************************)
EXTENDS Bytes

(* The register behind an address: a device and an offset in it.           *)
Cell(a) == CASE a \in 0 .. \h1FFF      -> <<"RAM",       a % \h800>>
             [] a \in \h2000 .. \h3FFF -> <<"PPU",       a % 8>>
             [] a \in \h4000 .. \h5FFF -> <<"EXPANSION", a - \h4000>>
             [] OTHER                  -> <<"SRAM",      a - \h6000>>

(* The lowest address of a register.                                       *)
Address(c) == c[2] + CASE c[1] = "RAM"       -> 0
                       [] c[1] = "PPU"       -> \h2000
                       [] c[1] = "EXPANSION" -> \h4000
                       [] OTHER              -> \h6000
=============================================================================
