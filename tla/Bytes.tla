------------------------------- MODULE Bytes -------------------------------
(***************************************************************************)
(* The integer types of the emulator.  A uint8_t is a member of Byte and a *)
(* uint16_t a member of Word16; every C expression that is stored in one   *)
(* of them is reduced with % where it can leave the range.  A byte that    *)
(* is used as a vector of bits (a mask, the processor status) is handled   *)
(* as the set of its bit numbers, so that &, | and ^ are the set           *)
(* operations.                                                             *)
(***************************************************************************)
EXTENDS Integers

UINT16_MAX == \hFFFF

Byte   == 0 .. \hFF
Word16 == 0 .. UINT16_MAX
BitNo  == 0 .. 7

(* The bits that are 1 in byte b, and the byte whose 1 bits are S.         *)
Bits(b) == {i \in BitNo : (b \div 2^i) % 2 = 1}

At(S, i, w) == IF i \in S THEN w ELSE 0
FromBits(S) ==
  At(S, 0, 1)  + At(S, 1, 2)  + At(S, 2, 4)  + At(S, 3, 8)
+ At(S, 4, 16) + At(S, 5, 32) + At(S, 6, 64) + At(S, 7, 128)

And8(a, b) == FromBits(Bits(a) \cap Bits(b))
Or8(a, b)  == FromBits(Bits(a) \cup Bits(b))
Xor8(a, b) == FromBits((Bits(a) \ Bits(b)) \cup (Bits(b) \ Bits(a)))

(* A 16-bit word from its bytes, its bytes, and its page (its high byte).  *)
Word(lo, hi) == lo + 256 * hi
Lo(w)   == w % 256
Page(w) == w \div 256

(* Truncation to uint8_t and uint16_t, and the value of a byte as int8_t.  *)
U8(n)  == n % 256
U16(n) == n % 65536
Signed(b) == IF b < 128 THEN b ELSE b - 256
=============================================================================
