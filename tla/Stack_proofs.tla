---------------------------- MODULE Stack_proofs ----------------------------
(***************************************************************************)
(* The page that SP points into is the stack of CallStack: every step of   *)
(* the CPU core is a step of CallStack, for programs that keep their other *)
(* stores off the bytes on the stack.                                      *)
(*                                                                         *)
(* Slot(i) is the place of the i-th byte pushed.  The sequence of the      *)
(* bytes on the stack is taken apart from the variables, as a function of  *)
(* an array and of a depth, so that a step compares two of them.           *)
(***************************************************************************)
EXTENDS CpuSteps_proofs, SequenceTheorems

Slot(i) == StackAddress(\hFE - i)

MemAt(m, h) == IF h \in DOMAIN m THEN m[h] ELSE 0

OnStack(m, n) == [i \in 1 .. n |-> MemAt(m, Slot(i))]

-----------------------------------------------------------------------------
(* Places and depths.                                                      *)

(* Truncation of what is a byte already, and of what is one byte too low.  *)
LEMMA SmallU8 ==
  ASSUME NEW n \in Int
  PROVE  /\ 0 <= n /\ n <= 255 => U8(n) = n
         /\ -256 <= n /\ n < 0 => U8(n) = n + 256
         /\ 256 <= n /\ n <= 511 => U8(n) = n - 256
  BY DEF U8

(* No two bytes on the stack share a place.                                *)
LEMMA SlotsDiffer ==
  ASSUME NEW i \in Int, 1 <= i, i <= 256, NEW j \in Int, 1 <= j, j <= 256, i # j
  PROVE  Slot(i) # Slot(j)
<1>1. ASSUME NEW n \in Int, 1 <= n, n <= 256
      PROVE  U8(\hFE - n) = IF n <= \hFE THEN \hFE - n ELSE \h1FE - n
  <2> DEFINE k == \hFE - n
  <2>1. k \in Int /\ -2 <= k /\ k <= 253 /\ (n <= \hFE <=> 0 <= k)
        /\ \h1FE - n = k + 256
    BY <1>1
  <2> HIDE DEF k
  <2>2. U8(k) = IF 0 <= k THEN k ELSE k + 256  BY <2>1, SmallU8
  <2> QED  BY <2>1, <2>2 DEF k
<1>2. U8(\hFE - i) # U8(\hFE - j) /\ U8(\hFE - i) \in Int /\ U8(\hFE - j) \in Int
  BY <1>1
<1> QED  BY <1>2 DEF Slot, StackAddress, STACK_BASE

(* How deep the stack is, and which place lies k above or below SP.        *)
LEMMA DepthType ==
  ASSUME SP \in Byte
  PROVE  /\ StackDepth \in Int /\ 0 <= StackDepth /\ StackDepth <= 255
         /\ \A k \in Int : StackAddress(SP + k) = Slot(StackDepth + 1 - k)
<1>1. SP \in Int /\ 0 <= SP /\ SP <= 255  BY DEF Byte
<1>2. StackDepth = IF SP <= \hFD THEN \hFD - SP ELSE \h1FD - SP
  BY <1>1 DEF StackDepth, U8
<1>3. StackDepth \in Int /\ 0 <= StackDepth /\ StackDepth <= 255  BY <1>1, <1>2
<1>4. ASSUME NEW k \in Int
      PROVE  StackAddress(SP + k) = Slot(StackDepth + 1 - k)
  <2>1. \/ SP + k = \hFE - (StackDepth + 1 - k)
        \/ SP + k = \hFE - (StackDepth + 1 - k) + 256
    BY <1>1, <1>2, <1>4
  <2>2. \A n \in Int : U8(n + 256) = U8(n)  BY DEF U8
  <2>3. \hFE - (StackDepth + 1 - k) \in Int  BY <1>3, <1>4
  <2>4. U8(U8(SP + k)) = U8(U8(\hFE - (StackDepth + 1 - k)))
    BY <2>1, <2>2, <2>3
  <2>5. U8(SP + k) = U8(\hFE - (StackDepth + 1 - k))  BY <2>1, <2>2, <2>3
  <2> QED  BY <2>5 DEF Slot, StackAddress
<1> QED  BY <1>3, <1>4

(* Moving SP down by k makes the stack deeper by k.                        *)
LEMMA DepthMoves ==
  ASSUME SP \in Byte, NEW k \in -3 .. 3, SP' = U8(SP - k),
         0 <= StackDepth + k, StackDepth + k <= 255
  PROVE  StackDepth' = StackDepth + k
<1>1. SP \in Int /\ 0 <= SP /\ SP <= 255  BY DEF Byte
<1>2. StackDepth = IF SP <= \hFD THEN \hFD - SP ELSE \h1FD - SP
  BY <1>1 DEF StackDepth, U8
<1>3. SP' = CASE SP - k < 0   -> SP - k + 256
             [] SP - k > 255 -> SP - k - 256
             [] OTHER        -> SP - k
  BY <1>1 DEF U8
<1>4. SP' \in Int /\ 0 <= SP' /\ SP' <= 255  BY <1>1, <1>3
<1>5. StackDepth' = IF SP' <= \hFD THEN \hFD - SP' ELSE \h1FD - SP'
  BY <1>4 DEF StackDepth, U8
<1> QED  BY <1>1, <1>2, <1>3, <1>5

-----------------------------------------------------------------------------
(* The bytes.                                                              *)

(* The stack page is read as it is stored, over the bus, too.              *)
LEMMA ReadSlot ==
  ASSUME NEW k \in Int
  PROVE  /\ memory_get(StackAddress(k)) = MemAt(mem, StackAddress(k))
         /\ memory_get(StackAddress(k))' = MemAt(mem', StackAddress(k))
         /\ bus_read_byte(StackAddress(k)) = MemAt(mem, StackAddress(k))
<1> DEFINE a == StackAddress(k)
<1>1. decode_address(a) = a /\ a \in Int /\ a <= \h1FF  BY StackDecodes
<1> HIDE DEF a
<1>2. ~(a >= TOTAL_MEMORY_SIZE)
  BY <1>1, BusAssumption
  DEF TOTAL_MEMORY_SIZE, M6502_RAM_SIZE, PPU_REGISTERS_SIZE, SRAM_SIZE
<1>3. ~(a >= PRG_ROM_START)  BY <1>1 DEF PRG_ROM_START
<1>4. memory_get(a) = MemAt(mem, a)  BY <1>2 DEF memory_get, MemAt
<1>5. TOTAL_MEMORY_SIZE' = TOTAL_MEMORY_SIZE  BY DEF TOTAL_MEMORY_SIZE
<1>6. (IF a >= TOTAL_MEMORY_SIZE THEN past'
       ELSE IF a \in DOMAIN mem' THEN mem'[a] ELSE 0) = MemAt(mem', a)
  BY <1>2 DEF MemAt
<1>7. bus_read_byte(a) = MemAt(mem, a)  BY <1>1, <1>3, <1>4 DEF bus_read_byte
<1> QED  BY <1>4, <1>6, <1>7 DEF memory_get, a, StackAddress, STACK_BASE, TOTAL_MEMORY_SIZE

(* The sequence that stands for the stack, in a state and in the next.     *)
LEMMA StackIsOnStack ==
  /\ StackBytes = OnStack(mem, StackDepth)
  /\ StackBytes' = OnStack(mem', StackDepth')
<1>1. \A i \in 1 .. StackDepth : memory_get(StackAddress(\hFE - i)) = MemAt(mem, Slot(i))
  BY ReadSlot DEF Slot
<1>2. \A i \in 1 .. StackDepth' : memory_get(StackAddress(\hFE - i))' = MemAt(mem', Slot(i))
  BY ReadSlot DEF Slot
<1>3. StackBytes' = [i \in 1 .. StackDepth' |-> memory_get(StackAddress(\hFE - i))']
  BY DEF StackBytes
<1> QED  BY <1>1, <1>2, <1>3 DEF StackBytes, OnStack

(* It is a sequence of bytes.                                              *)
LEMMA OnStackType ==
  ASSUME NEW m, MemOK(m), NEW n \in Nat
  PROVE  /\ OnStack(m, n) \in Seq(Byte) /\ Len(OnStack(m, n)) = n
         /\ \A i \in 1 .. n : OnStack(m, n)[i] = MemAt(m, Slot(i))
<1>1. 0 \in Byte  BY ZeroType
<1>2. \A h : MemAt(m, h) \in Byte  BY <1>1 DEF MemAt, MemOK
<1>3. OnStack(m, n) \in [1 .. n -> Byte]  BY <1>2 DEF OnStack
<1>4. OnStack(m, n) \in Seq(Byte)  BY <1>3, SeqDef
<1>5. DOMAIN OnStack(m, n) = 1 .. n  BY DEF OnStack
<1>6. Len(OnStack(m, n)) = n  BY <1>4, <1>5, LenProperties
<1> QED  BY <1>4, <1>6 DEF OnStack

(* The array matters only where the bytes are.                             *)
LEMMA SameOnStack ==
  ASSUME NEW m1, NEW m2, NEW n,
         \A i \in 1 .. n : MemAt(m2, Slot(i)) = MemAt(m1, Slot(i))
  PROVE  OnStack(m2, n) = OnStack(m1, n)
  BY DEF OnStack

(* The bytes below the top.                                                *)
LEMMA BelowTop ==
  ASSUME NEW m, MemOK(m), NEW n \in Nat, NEW k \in Nat, k <= n
  PROVE  SubSeq(OnStack(m, n), 1, k) = OnStack(m, k)
<1> DEFINE s == OnStack(m, n)
           t == OnStack(m, k)
           u == SubSeq(s, 1, k)
<1>1. s \in Seq(Byte) /\ \A i \in 1 .. n : s[i] = MemAt(m, Slot(i))
  BY OnStackType
<1>2. t \in Seq(Byte) /\ Len(t) = k /\ \A i \in 1 .. k : t[i] = MemAt(m, Slot(i))
  BY OnStackType
<1>3. \A i \in 1 .. n : s[i] \in Byte  BY OnStackType, ElementOfSeq
<1> HIDE DEF s, t
<1>4. \A i \in 1 .. k : s[i] \in Byte  BY <1>3
<1>5. /\ u \in Seq(Byte) /\ Len(u) = IF 1 <= k THEN k - 1 + 1 ELSE 0
      /\ \A i \in 1 .. k - 1 + 1 : u[i] = s[1 + i - 1]
  BY <1>4, SubSeqProperties
<1> HIDE DEF u
<1>6. Len(u) = k /\ \A i \in 1 .. k : u[i] = s[i]
  <2>1. k - 1 + 1 = k  OBVIOUS
  <2>2. \A i \in 1 .. k : 1 + i - 1 = i  OBVIOUS
  <2> QED  BY <1>5, <2>1, <2>2
<1>7. \A i \in 1 .. k : u[i] = t[i]  BY <1>1, <1>2, <1>6
<1>8. u = t  BY <1>2, <1>5, <1>6, <1>7, SeqEqual
<1> QED  BY <1>8 DEF s, t, u

-----------------------------------------------------------------------------
(* The instructions that move SP.  d is the depth before them.             *)

(* A push in the array.                                                    *)
LEMMA PushedAt ==
  ASSUME NEW m, NEW sp \in Int, NEW v, NEW h
  PROVE  MemAt(Pushed(m, sp, v), h) = IF h = StackAddress(sp) THEN v ELSE MemAt(m, h)
<1> DEFINE a == StackAddress(sp)
<1>1. decode_address(a) = a  BY StackDecodes
<1> HIDE DEF a
<1>2. MemAt(memory_set(m, a, v), h) = IF h = a THEN v ELSE MemAt(m, h)
  BY DEF memory_set, MemAt
<1> QED  BY <1>1, <1>2 DEF Pushed, a

(* What the proofs below need of a state.                                  *)
LEMMA StackState ==
  ASSUME IInv
  PROVE  /\ SP \in Byte /\ SP \in Int /\ MemOK(mem)
         /\ StackDepth \in Nat /\ StackDepth <= 255
         /\ StackAddress(SP) = Slot(StackDepth + 1)
         /\ StackAddress(SP - 1) = Slot(StackDepth + 2)
         /\ StackAddress(SP - 2) = Slot(StackDepth + 3)
         /\ Pulled(SP) = MemAt(mem, Slot(StackDepth))
         /\ Pulled(SP + 1) = MemAt(mem, Slot(StackDepth - 1))
         /\ Pulled(SP + 2) = MemAt(mem, Slot(StackDepth - 2))
<1> DEFINE d == StackDepth
<1>1. SP \in Byte /\ MemOK(mem)  BY DEF IInv, RegsOK, BusTypeOK, MemOK
<1>2. SP \in Int  BY <1>1, ByteRange
<1>3. /\ d \in Int /\ 0 <= d /\ d <= 255
      /\ \A k \in Int : StackAddress(SP + k) = Slot(d + 1 - k)
  BY <1>1, DepthType
<1> HIDE DEF d
<1>4. /\ SP + 0 = SP /\ SP + (-1) = SP - 1 /\ SP + (-2) = SP - 2
      /\ SP + 1 + 1 = SP + 2 /\ SP + 2 + 1 = SP + 3
      /\ d + 1 - 0 = d + 1 /\ d + 1 - (-1) = d + 2 /\ d + 1 - (-2) = d + 3
      /\ d + 1 - 1 = d /\ d + 1 - 2 = d - 1 /\ d + 1 - 3 = d - 2
  BY <1>2, <1>3
<1>5. /\ StackAddress(SP) = Slot(d + 1) /\ StackAddress(SP - 1) = Slot(d + 2)
      /\ StackAddress(SP - 2) = Slot(d + 3)
  <2>1. 0 \in Int /\ -1 \in Int /\ -2 \in Int  OBVIOUS
  <2>2. /\ StackAddress(SP + 0) = Slot(d + 1 - 0)
        /\ StackAddress(SP + (-1)) = Slot(d + 1 - (-1))
        /\ StackAddress(SP + (-2)) = Slot(d + 1 - (-2))
    BY <1>3, <2>1
  <2> QED  BY <1>4, <2>2
<1>6. /\ StackAddress(SP + 1) = Slot(d) /\ StackAddress(SP + 2) = Slot(d - 1)
      /\ StackAddress(SP + 3) = Slot(d - 2)
  <2>1. 1 \in Int /\ 2 \in Int /\ 3 \in Int  OBVIOUS
  <2>2. /\ StackAddress(SP + 1) = Slot(d + 1 - 1)
        /\ StackAddress(SP + 2) = Slot(d + 1 - 2)
        /\ StackAddress(SP + 3) = Slot(d + 1 - 3)
    BY <1>3, <2>1
  <2> QED  BY <1>4, <2>2
<1>7. \A k \in Int : Pulled(SP + k) = MemAt(mem, StackAddress(SP + k + 1))
  <2> TAKE k \in Int
  <2>1. SP + k + 1 \in Int  BY <1>2
  <2> QED  BY <2>1, ReadSlot DEF Pulled
<1>8. Pulled(SP) = MemAt(mem, StackAddress(SP + 1))
  <2>1. SP + 1 \in Int  BY <1>2
  <2> QED  BY <2>1, ReadSlot DEF Pulled
<1>9. /\ Pulled(SP + 1) = MemAt(mem, StackAddress(SP + 2))
      /\ Pulled(SP + 2) = MemAt(mem, StackAddress(SP + 3))
  BY <1>4, <1>7
<1> QED  BY <1>1, <1>2, <1>3, <1>5, <1>6, <1>8, <1>9 DEF d

(* One byte on top of the n bytes of an array.                             *)
LEMMA PushOne ==
  ASSUME NEW m, NEW n \in Nat, n <= 255, NEW sp \in Int, StackAddress(sp) = Slot(n + 1),
         NEW v
  PROVE  /\ \A i \in 1 .. n : MemAt(Pushed(m, sp, v), Slot(i)) = MemAt(m, Slot(i))
         /\ MemAt(Pushed(m, sp, v), Slot(n + 1)) = v
<1>1. ASSUME NEW i \in 1 .. n
      PROVE  MemAt(Pushed(m, sp, v), Slot(i)) = MemAt(m, Slot(i))
  <2>1. /\ i \in Int /\ 1 <= i /\ i <= 256
        /\ n + 1 \in Int /\ 1 <= n + 1 /\ n + 1 <= 256 /\ i # n + 1
    OBVIOUS
  <2>2. Slot(i) # Slot(n + 1)  BY <2>1, SlotsDiffer
  <2> QED  BY <2>2, PushedAt
<1>2. MemAt(Pushed(m, sp, v), Slot(n + 1)) = v  BY PushedAt
<1> QED  BY <1>1, <1>2

(* Two bytes on top of a sequence.                                         *)
LEMMA AppendTwo ==
  ASSUME NEW d \in Nat, NEW s \in Seq(Byte), Len(s) = d,
         NEW u \in Seq(Byte), Len(u) = d + 2,
         NEW p \in Byte, NEW l \in Byte,
         \A i \in 1 .. d : u[i] = s[i],
         u[d + 1] = p, u[d + 2] = l
  PROVE  u = s \o <<p, l>>
<1> DEFINE t == <<p, l>>
<1>1. t \in Seq(Byte) /\ Len(t) = 2 /\ t[1] = p /\ t[2] = l  OBVIOUS
<1> HIDE DEF t
<1>2. /\ s \o t \in Seq(Byte) /\ Len(s \o t) = Len(s) + Len(t)
      /\ \A i \in 1 .. Len(s) + Len(t) :
           (s \o t)[i] = IF i <= Len(s) THEN s[i] ELSE t[i - Len(s)]
  BY <1>1, ConcatProperties
<1>3. /\ Len(s \o t) = d + 2
      /\ \A i \in 1 .. d + 2 : (s \o t)[i] = IF i <= d THEN s[i] ELSE t[i - d]
  BY <1>1, <1>2
<1>4. ASSUME NEW i \in 1 .. d + 2 PROVE u[i] = (s \o t)[i]
  <2>1. i \in 1 .. d \/ i = d + 1 \/ i = d + 2  OBVIOUS
  <2>2. CASE i \in 1 .. d
    <3>1. i <= d  BY <2>2
    <3> QED  BY <1>3, <2>2, <3>1
  <2>3. CASE i = d + 1
    <3>1. ~(i <= d) /\ i - d = 1  BY <2>3
    <3> QED  BY <1>1, <1>3, <2>3, <3>1
  <2>4. CASE i = d + 2
    <3>1. ~(i <= d) /\ i - d = 2  BY <2>4
    <3> QED  BY <1>1, <1>3, <2>4, <3>1
  <2> QED  BY <2>1, <2>2, <2>3, <2>4
<1>5. u = s \o t  BY <1>2, <1>3, <1>4, SeqEqual
<1> QED  BY <1>5 DEF t

(* Two bytes on top of the stack.                                          *)
LEMMA PushTwo ==
  ASSUME IInv, StackDepth + 2 <= 255, NEW w \in Word16
  PROVE  /\ MemOK(PushedWord(mem, SP, w))
         /\ OnStack(PushedWord(mem, SP, w), StackDepth + 2)
              = OnStack(mem, StackDepth) \o <<Page(w), Lo(w)>>
<1> DEFINE d  == StackDepth
           m1 == Pushed(mem, SP, Page(w))
           m2 == Pushed(m1, SP - 1, Lo(w))
<1>1. /\ SP \in Int /\ SP - 1 \in Int /\ MemOK(mem) /\ d \in Nat /\ d + 2 <= 255
      /\ StackAddress(SP) = Slot(d + 1) /\ StackAddress(SP - 1) = Slot(d + 2)
  BY StackState
<1>2. Page(w) \in Byte /\ Lo(w) \in Byte  BY SplitWord
<1>3. MemOK(m1)  BY <1>1, <1>2, PushType
<1>4. MemOK(m2)
  <2> HIDE DEF m1
  <2> QED  BY <1>1, <1>2, <1>3, PushType
<1> HIDE DEF d
<1>5. /\ d <= 255 /\ d + 1 <= 255 /\ d + 1 \in Nat /\ d + 2 \in Nat /\ d + 1 + 1 = d + 2
  BY <1>1
<1>6. /\ \A i \in 1 .. d : MemAt(m1, Slot(i)) = MemAt(mem, Slot(i))
      /\ MemAt(m1, Slot(d + 1)) = Page(w)
  BY <1>1, <1>5, PushOne
<1>7. /\ \A i \in 1 .. d + 1 : MemAt(m2, Slot(i)) = MemAt(m1, Slot(i))
      /\ MemAt(m2, Slot(d + 2)) = Lo(w)
  <2> DEFINE n == d + 1
  <2>1. n \in Nat /\ n <= 255 /\ n + 1 = d + 2  BY <1>1
  <2>2. StackAddress(SP - 1) = Slot(n + 1)  BY <1>1, <2>1
  <2> HIDE DEF m1, n
  <2>3. /\ \A i \in 1 .. n : MemAt(m2, Slot(i)) = MemAt(m1, Slot(i))
        /\ MemAt(m2, Slot(n + 1)) = Lo(w)
    BY <1>1, <2>1, <2>2, PushOne
  <2> QED  BY <2>1, <2>3 DEF n
<1> HIDE DEF m1, m2
<1>8. /\ \A i \in 1 .. d : MemAt(m2, Slot(i)) = MemAt(mem, Slot(i))
      /\ MemAt(m2, Slot(d + 1)) = Page(w) /\ MemAt(m2, Slot(d + 2)) = Lo(w)
  <2>1. d + 1 \in 1 .. d + 1 /\ \A i \in 1 .. d : i \in 1 .. d + 1  BY <1>1
  <2> QED  BY <1>6, <1>7, <2>1
<1> DEFINE s == OnStack(mem, d)
           u == OnStack(m2, d + 2)
<1>9. s \in Seq(Byte) /\ Len(s) = d /\ \A i \in 1 .. d : s[i] = MemAt(mem, Slot(i))
  BY <1>1, OnStackType
<1>10. /\ u \in Seq(Byte) /\ Len(u) = d + 2
       /\ \A i \in 1 .. d + 2 : u[i] = MemAt(m2, Slot(i))
  BY <1>4, <1>5, OnStackType
<1> HIDE DEF s, u
<1>11. /\ d + 1 \in 1 .. d + 2 /\ d + 2 \in 1 .. d + 2
       /\ \A i \in 1 .. d : i \in 1 .. d + 2
  BY <1>1
<1>12. (\A i \in 1 .. d : u[i] = s[i]) /\ u[d + 1] = Page(w) /\ u[d + 2] = Lo(w)
  BY <1>8, <1>9, <1>10, <1>11
<1>13. u = s \o <<Page(w), Lo(w)>>  BY <1>1, <1>2, <1>9, <1>10, <1>12, AppendTwo
<1> QED  BY <1>4, <1>13 DEF PushedWord, d, m1, m2, s, u

-----------------------------------------------------------------------------
(* The steps.                                                              *)

(* The stack of CallStack: its bytes, its depth and its top.               *)
LEMMA StackView ==
  ASSUME IInv
  PROVE  /\ StackBytes \in Seq(Byte) /\ Stack!Depth = StackDepth
         /\ StackBytes = OnStack(mem, StackDepth)
         /\ \A i \in 1 .. StackDepth : StackBytes[i] = MemAt(mem, Slot(i))
         /\ 1 <= StackDepth => Stack!Top(0) = Pulled(SP)
         /\ 2 <= StackDepth => Stack!Top(1) = Pulled(SP + 1)
         /\ 3 <= StackDepth => Stack!Top(2) = Pulled(SP + 2)
<1> DEFINE d == StackDepth
<1>1. /\ MemOK(mem) /\ d \in Nat
      /\ Pulled(SP) = MemAt(mem, Slot(d))
      /\ Pulled(SP + 1) = MemAt(mem, Slot(d - 1))
      /\ Pulled(SP + 2) = MemAt(mem, Slot(d - 2))
  BY StackState
<1>2. StackBytes = OnStack(mem, d)  BY StackIsOnStack
<1> HIDE DEF d
<1>3. /\ StackBytes \in Seq(Byte) /\ Len(StackBytes) = d
      /\ \A i \in 1 .. d : StackBytes[i] = MemAt(mem, Slot(i))
  BY <1>1, <1>2, OnStackType
<1>4. Stack!Depth = d  BY <1>3 DEF Stack!Depth
<1>5. 1 <= d => d - 0 = d /\ d \in 1 .. d  BY <1>1
<1>6. 2 <= d => d - 1 \in 1 .. d  BY <1>1
<1>7. 3 <= d => d - 2 \in 1 .. d  BY <1>1
<1> QED  BY <1>1, <1>2, <1>3, <1>4, <1>5, <1>6, <1>7 DEF Stack!Top, d

(* One byte is pushed.                                                     *)
LEMMA PushStep ==
  ASSUME IInv, IInv', StackDepth + 1 <= 255, NEW v,
         mem' = Pushed(mem, SP, v), SP' = U8(SP - 1)
  PROVE  /\ Len(StackBytes') = Stack!Depth + 1
         /\ SubSeq(StackBytes', 1, Stack!Depth) = StackBytes
<1> DEFINE d == StackDepth
<1>1. SP \in Byte /\ SP \in Int /\ d \in Nat /\ StackAddress(SP) = Slot(d + 1)
  BY StackState
<1>2. StackDepth' = d + 1
  <2>1. 1 \in -3 .. 3 /\ 0 <= d + 1 /\ d + 1 <= 255  BY <1>1
  <2> QED  BY <1>1, <2>1, DepthMoves
<1>3. MemOK(mem')  BY DEF IInv, BusTypeOK, MemOK, TOTAL_MEMORY_SIZE
<1>4. Stack!Depth = d /\ StackBytes = OnStack(mem, d)  BY StackView
<1>5. StackBytes' = OnStack(mem', d + 1)  BY <1>2, StackIsOnStack
<1> HIDE DEF d
<1>6. d <= 255 /\ d + 1 \in Nat /\ d <= d + 1  BY <1>1, <1>2 DEF d
<1>7. \A i \in 1 .. d : MemAt(mem', Slot(i)) = MemAt(mem, Slot(i))
  <2>1. d \in Nat /\ d <= 255 /\ SP \in Int /\ StackAddress(SP) = Slot(d + 1)
    BY <1>1, <1>6
  <2>2. /\ \A i \in 1 .. d : MemAt(Pushed(mem, SP, v), Slot(i)) = MemAt(mem, Slot(i))
        /\ MemAt(Pushed(mem, SP, v), Slot(d + 1)) = v
    BY <2>1, PushOne
  <2> QED  BY <2>2
<1>8. OnStack(mem', d) = OnStack(mem, d)  BY <1>7, SameOnStack
<1>9. SubSeq(OnStack(mem', d + 1), 1, d) = OnStack(mem', d)
  BY <1>1, <1>3, <1>6, BelowTop
<1>10. Len(OnStack(mem', d + 1)) = d + 1  BY <1>3, <1>6, OnStackType
<1> QED  BY <1>4, <1>5, <1>8, <1>9, <1>10

(* k bytes are pulled.                                                     *)
LEMMA PullStep ==
  ASSUME IInv, NEW k \in {1, 2, 3}, k <= StackDepth, mem' = mem, SP' = U8(SP + k)
  PROVE  Stack!Depth >= k /\ StackBytes' = Stack!Below(k)
<1> DEFINE d == StackDepth
<1>1. SP \in Byte /\ SP \in Int /\ d \in Nat /\ d <= 255 /\ MemOK(mem)
  BY StackState
<1>2. StackDepth' = d - k
  <2>1. -k \in -3 .. 3 /\ SP - (-k) = SP + k /\ d + (-k) = d - k
    BY <1>1
  <2>2. SP' = U8(SP - (-k)) /\ 0 <= d + (-k) /\ d + (-k) <= 255  BY <1>1, <2>1
  <2> QED  BY <1>1, <2>1, <2>2, DepthMoves
<1>3. Stack!Depth = d /\ StackBytes = OnStack(mem, d)  BY StackView
<1>4. StackBytes' = OnStack(mem, d - k)  BY <1>2, StackIsOnStack
<1>5. k <= d  OBVIOUS
<1> HIDE DEF d
<1>6. d - k \in Nat /\ d - k <= d /\ d >= k  BY <1>1, <1>5
<1>7. SubSeq(OnStack(mem, d), 1, d - k) = OnStack(mem, d - k)
  BY <1>1, <1>6, BelowTop
<1> QED  BY <1>3, <1>4, <1>6, <1>7 DEF Stack!Below

(* An instruction that leaves SP alone leaves the stack.                   *)
LEMMA OtherStep ==
  ASSUME IInv, Execute, SP' = SP, InInstruction, LeavesStackAlone
  PROVE  StackBytes' = StackBytes
<1> DEFINE d == StackDepth
<1>1. SP \in Byte /\ SP \in Int /\ d \in Nat /\ d <= 255 /\ d + Pushes <= 255
      /\ \A i \in 1 .. d : Slot(i) \notin NamedCells \cup StrayCells
  BY StackState DEF LeavesStackAlone, Slot
<1>2. \A k \in Int : StackAddress(SP + k) = Slot(d + 1 - k)  BY <1>1, DepthType
<1>3. Pushes \in {0, 1, 2, 3}  BY DEF Pushes
<1>4. d' = d  BY DEF StackDepth
<1> HIDE DEF d
<1>5. ASSUME NEW i \in 1 .. d PROVE Slot(i) \notin StackCells
  <2> SUFFICES ASSUME NEW j \in 0 .. Pushes - 1, Slot(i) = StackAddress(SP - j)
               PROVE  FALSE
    BY DEF StackCells
  <2>1. /\ j \in Int /\ -j \in Int /\ SP + (-j) = SP - j /\ d + 1 - (-j) = d + 1 + j
        /\ 0 <= j /\ j < 3 /\ d + 1 + j <= 255
    BY <1>1, <1>3
  <2>2. StackAddress(SP - j) = Slot(d + 1 + j)  BY <1>2, <2>1
  <2>3. /\ i \in Int /\ 1 <= i /\ i <= 256 /\ i # d + 1 + j
        /\ d + 1 + j \in Int /\ 1 <= d + 1 + j /\ d + 1 + j <= 256
    BY <1>1, <2>1
  <2> QED  BY <2>2, <2>3, SlotsDiffer
<1>6. OnlyIn(mem, mem', Targets)  BY ExecuteStores
<1>7. \A h : h \notin Targets => MemAt(mem', h) = MemAt(mem, h)
  BY <1>6 DEF OnlyIn, MemAt
<1>8. \A i \in 1 .. d : MemAt(mem', Slot(i)) = MemAt(mem, Slot(i))
  BY <1>1, <1>5, <1>7 DEF Targets
<1>9. OnStack(mem', d) = OnStack(mem, d)  BY <1>8, SameOnStack
<1> QED  BY <1>4, <1>9, StackIsOnStack DEF d

(* The other instructions leave SP alone.                                  *)
LEMMA SPStays ==
  ASSUME Execute
  PROVE  SP' = SP \/ PHA \/ PHP \/ PLA \/ PLP \/ JSR \/ RTS \/ BRK \/ RTI
<1>1. NoStack => SP' = SP  BY DEF NoStack
<1>2. CASE LDA \/ LDX \/ LDY  BY <1>1, <1>2 DEF LDA, LDX, LDY
<1>3. CASE AND \/ ORA \/ EOR \/ BIT  BY <1>1, <1>3 DEF AND, ORA, EOR, BIT, Logic
<1>4. CASE STA \/ STX \/ STY  BY <1>1, <1>4 DEF STA, STX, STY, Store
<1>5. CASE Transfer \/ TSX \/ TXS  BY <1>1, <1>5 DEF Transfer, TSX, TXS, Implied
<1>6. CASE JMP_ABS \/ JMP_IND  BY <1>1, <1>6 DEF JMP_ABS, JMP_IND
<1>7. CASE FLAG  BY <1>7 DEF FLAG
<1>8. CASE SHIFT \/ ADC_SBC  BY <1>1, <1>8 DEF SHIFT, ADC_SBC
<1>9. CASE CMP \/ INC_DEC  BY <1>1, <1>9 DEF CMP, INC_DEC
<1>10. CASE BRANCH \/ UNDEFINED  BY <1>1, <1>10 DEF BRANCH, UNDEFINED
<1> QED  BY <1>2, <1>3, <1>4, <1>5, <1>6, <1>7, <1>8, <1>9, <1>10 DEF Execute

(* CallStack's integers are those of the CPU core.                         *)
LEMMA SameIntegers ==
  /\ Stack!Word16 = Word16 /\ Stack!Address2 = U16(PC + 2)
  /\ \A n : Stack!U16(n) = U16(n) /\ Stack!Page(n) = Page(n) /\ Stack!Lo(n) = Lo(n)
  /\ \A p, l : Stack!Word(p, l) = Word(p, l)
  BY DEF Stack!Word16, Word16, Stack!UINT16_MAX, UINT16_MAX, Stack!Address2,
         Stack!U16, U16, Stack!Page, Page, Stack!Lo, Lo, Stack!Word, Word

(* A stack of depth 0.                                                     *)
LEMMA EmptyStack == ASSUME NEW m, MemOK(m) PROVE OnStack(m, 0) = <<>>
<1> DEFINE s == OnStack(m, 0)
<1>1. s \in Seq(Byte) /\ Len(s) = 0  BY OnStackType
<1> HIDE DEF s
<1>2. s = <<>>  BY <1>1, EmptySeq
<1> QED  BY <1>2 DEF s

(* Each instruction is a step of CallStack.                                *)
LEMMA InstructionIsStackStep ==
  ASSUME IInv, IInv', LeavesStackAlone, InInstruction, Execute
  PROVE  Stack!Next
<1>1. /\ SP \in Byte /\ SP \in Int /\ StackDepth \in Nat /\ StackDepth <= 255
      /\ MemOK(mem)
  BY StackState
<1>2. Pulls <= StackDepth /\ StackDepth + Pushes <= 255  BY DEF LeavesStackAlone
<1>3. /\ Stack!Depth = StackDepth /\ StackBytes = OnStack(mem, StackDepth)
      /\ 1 <= StackDepth => Stack!Top(0) = Pulled(SP)
      /\ 2 <= StackDepth => Stack!Top(1) = Pulled(SP + 1)
      /\ 3 <= StackDepth => Stack!Top(2) = Pulled(SP + 2)
  BY StackView
<1>4. U16(PC + 2) \in Word16
  <2>1. PC \in Word16  BY DEF IInv, CountOK
  <2>2. PC + 2 \in Int  BY <2>1, WordRange
  <2> QED  BY <2>2, Truncation
<1>5. CASE PHA \/ PHP
  <2>1. Pushes = 1
    BY <1>5 DEF PHA, PHP, Pushes, INS_PHA, INS_PHP, INS_TXS, INS_JSR, INS_BRK
  <2>2. StackDepth + 1 <= 255  BY <1>2, <2>1
  <2>3. PICK v : mem' = Pushed(mem, SP, v)  BY <1>5 DEF PHA, PHP
  <2>4. SP' = U8(SP - 1) /\ PC' = U16(PC + 1)
    BY <1>5 DEF PHA, PHP, Retire, PC1
  <2>5. /\ Len(StackBytes') = Stack!Depth + 1
        /\ SubSeq(StackBytes', 1, Stack!Depth) = StackBytes
    BY <2>2, <2>3, <2>4, PushStep
  <2> QED  BY <2>4, <2>5, SameIntegers DEF Stack!Next, Stack!Push
<1>6. CASE PLA \/ PLP
  <2>1. Pulls = 1
    BY <1>6 DEF PLA, PLP, Pulls, INS_PLA, INS_PLP, INS_RTS, INS_RTI
  <2>2. mem' = mem /\ SP' = U8(SP + 1) /\ PC' = U16(PC + 1)
    BY <1>6 DEF PLA, PLP, Retire, PC1, NoStore
  <2>3. Stack!Depth >= 1 /\ StackBytes' = Stack!Below(1)
    BY <1>2, <2>1, <2>2, PullStep
  <2> QED  BY <2>2, <2>3, SameIntegers DEF Stack!Next, Stack!Pull
<1>7. CASE JSR
  <2>1. Pushes = 2
    BY <1>7 DEF JSR, Pushes, INS_JSR, INS_BRK, INS_PHA, INS_PHP, INS_TXS
  <2>2. StackDepth + 2 <= 255  BY <1>2, <2>1
  <2> DEFINE w == U16(PC + 2)
  <2>3. mem' = PushedWord(mem, SP, w) /\ SP' = U8(SP - 2)  BY <1>7 DEF JSR
  <2>4. StackDepth' = StackDepth + 2
    <3>1. 2 \in -3 .. 3 /\ 0 <= StackDepth + 2  BY <1>1
    <3> QED  BY <1>1, <2>2, <2>3, <3>1, DepthMoves
  <2>5. w \in Word16  BY <1>4
  <2>6. StackBytes' = OnStack(mem', StackDepth + 2)  BY <2>4, StackIsOnStack
  <2> HIDE DEF w
  <2>7. StackBytes' = StackBytes \o <<Page(w), Lo(w)>>
    BY <1>3, <2>2, <2>3, <2>5, <2>6, PushTwo
  <2>8. w = Stack!Address2  BY SameIntegers DEF w
  <2> QED  BY <2>7, <2>8, SameIntegers DEF Stack!Next, Stack!Call
<1>8. CASE RTS
  <2>1. Pulls = 2
    BY <1>8 DEF RTS, Pulls, INS_RTS, INS_RTI, INS_PLA, INS_PLP
  <2>2. mem' = mem /\ SP' = U8(SP + 2) /\ PC' = U16(PulledWord(SP) + 1)
    BY <1>8 DEF RTS, Retire, NoStore
  <2>3. 2 <= StackDepth  BY <1>2, <2>1
  <2>4. Stack!Depth >= 2 /\ StackBytes' = Stack!Below(2)
    BY <2>2, <2>3, PullStep
  <2>5. PulledWord(SP) = Word(Stack!Top(0), Stack!Top(1))
    <3>1. 1 <= StackDepth  BY <1>1, <2>3
    <3> QED  BY <1>3, <2>3, <3>1 DEF PulledWord
  <2> QED  BY <2>2, <2>4, <2>5, SameIntegers DEF Stack!Next, Stack!Return
<1>9. CASE BRK
  <2>1. Pushes = 3
    BY <1>9 DEF BRK, Pushes, INS_BRK, INS_JSR, INS_PHA, INS_PHP, INS_TXS
  <2>2. StackDepth + 3 <= 255  BY <1>2, <2>1
  <2> DEFINE w  == U16(PC + 2)
             d  == StackDepth
             m2 == PushedWord(mem, SP, w)
  <2>3. mem' = Pushed(m2, SP - 2, PushedStatus(PS1)) /\ SP' = U8(SP - 3)
    BY <1>9 DEF BRK
  <2>4. StackDepth' = d + 3
    <3>1. 3 \in -3 .. 3 /\ 0 <= StackDepth + 3  BY <1>1
    <3> QED  BY <1>1, <2>2, <2>3, <3>1, DepthMoves
  <2>5. w \in Word16  BY <1>4
  <2>6. StackBytes' = OnStack(mem', d + 3)  BY <2>4, StackIsOnStack
  <2>7. OnStack(m2, d + 2) = StackBytes \o <<Page(w), Lo(w)>>
    <3>1. StackDepth + 2 <= 255  BY <1>1, <2>2
    <3> HIDE DEF w
    <3> QED  BY <1>3, <2>5, <3>1, PushTwo
  <2>8. SP - 2 \in Int /\ StackAddress(SP - 2) = Slot(d + 3)
    BY <1>1, StackState
  <2>9. w = Stack!Address2  BY SameIntegers
  <2>10. Stack!Depth = d /\ d + 3 <= 255 /\ d \in Nat  BY <1>1, <1>3, <2>2
  <2>11. MemOK(mem')  BY DEF IInv, BusTypeOK, MemOK, TOTAL_MEMORY_SIZE
  <2> HIDE DEF w, d, m2
  <2>12. OnStack(mem', d + 2) = OnStack(m2, d + 2)
    <3> DEFINE n == d + 2
               v == PushedStatus(PS1)
    <3>1. n \in Nat /\ n <= 255 /\ n + 1 = d + 3  BY <2>10
    <3>2. StackAddress(SP - 2) = Slot(n + 1)  BY <2>8, <3>1
    <3> HIDE DEF n, v
    <3>3. /\ \A i \in 1 .. n : MemAt(Pushed(m2, SP - 2, v), Slot(i)) = MemAt(m2, Slot(i))
          /\ MemAt(Pushed(m2, SP - 2, v), Slot(n + 1)) = v
      BY <2>8, <3>1, <3>2, PushOne
    <3>4. mem' = Pushed(m2, SP - 2, v)  BY <2>3 DEF v
    <3>5. OnStack(mem', n) = OnStack(m2, n)  BY <3>3, <3>4, SameOnStack
    <3> QED  BY <3>5 DEF n
  <2>13. d + 3 \in Nat /\ d + 2 \in Nat /\ d + 2 <= d + 3  BY <2>10
  <2>14. SubSeq(OnStack(mem', d + 3), 1, d + 2) = OnStack(mem', d + 2)
    BY <2>11, <2>13, BelowTop
  <2>15. Len(OnStack(mem', d + 3)) = d + 3  BY <2>11, <2>13, OnStackType
  <2> QED
    BY <2>6, <2>7, <2>9, <2>10, <2>12, <2>14, <2>15, SameIntegers
    DEF Stack!Next, Stack!Interrupt
<1>10. CASE RTI
  <2>1. Pulls = 3  BY <1>10 DEF RTI, Pulls, INS_RTI, INS_RTS, INS_PLA, INS_PLP
  <2>2. mem' = mem /\ SP' = U8(SP + 3) /\ PC' = PulledWord(SP + 1)
    BY <1>10 DEF RTI, Retire, NoStore
  <2>3. 3 <= StackDepth  BY <1>2, <2>1
  <2>4. Stack!Depth >= 3 /\ StackBytes' = Stack!Below(3)
    BY <2>2, <2>3, PullStep
  <2>5. PulledWord(SP + 1) = Word(Stack!Top(1), Stack!Top(2))
    <3>1. 2 <= StackDepth /\ SP + 1 + 1 = SP + 2  BY <1>1, <2>3
    <3> QED  BY <1>3, <2>3, <3>1 DEF PulledWord
  <2> QED  BY <2>2, <2>4, <2>5, SameIntegers DEF Stack!Next, Stack!InterruptReturn
<1>11. CASE SP' = SP
  BY <1>11, OtherStep DEF Stack!Next, Stack!Other
<1> QED  BY <1>5, <1>6, <1>7, <1>8, <1>9, <1>10, <1>11, SPStays

(* A JSR or BRK and the RTS or RTI that takes its address from the stack   *)
(* belong together, and a pull gets what was pushed, whatever the program, *)
(* its calls of the subroutines, the resets and the calls of               *)
(* olc6502_clock in between: the stack page is a stack.  It takes of the   *)
(* program that it stores nothing over the bytes on the stack by other     *)
(* means and neither empties the stack nor fills the page.                 *)
THEOREM StackPageIsStack == Spec /\ []LeavesStackAlone => StackIsStack
<1>1. Init => Stack!Init
  <2> SUFFICES ASSUME Init PROVE Stack!Init  OBVIOUS
  <2>1. IInv  BY InitIInv
  <2>2. MemOK(mem)  BY <2>1, StackState
  <2>3. StackDepth = 0  BY DEF Init, StackDepth, U8
  <2>4. StackBytes = <<>>  BY <2>2, <2>3, StackIsOnStack, EmptyStack
  <2>5. PC \in Word16  BY <2>1 DEF IInv, CountOK
  <2> QED  BY <2>4, <2>5, SameIntegers DEF Stack!Init
<1>2. IInv /\ IInv' /\ LeavesStackAlone /\ [Next]_vars
        => [Stack!Next]_<<StackBytes, PC>>
  <2> SUFFICES ASSUME IInv, IInv', LeavesStackAlone, [Next]_vars
               PROVE  Stack!Next \/ (StackBytes' = StackBytes /\ PC' = PC)
    OBVIOUS
  <2>1. ASSUME mem' = mem, SP' = SP PROVE StackBytes' = StackBytes
    <3>1. StackDepth' = StackDepth  BY <2>1 DEF StackDepth
    <3> QED  BY <2>1, <3>1, StackIsOnStack
  <2>2. CASE Instruction
    BY <2>2, InstructionIsStackStep DEF Instruction, InInstruction
  <2>3. CASE ClockReturn  BY <2>1, <2>3 DEF ClockReturn, registers
  <2>4. CASE \E n \in Requests : ClockCall(n)
    BY <2>1, <2>4 DEF ClockCall, registers
  <2>5. CASE Reset
    <3>1. SP' = \hFD /\ mem' = mem  BY <2>5 DEF Reset
    <3>2. StackDepth' = 0  BY <3>1 DEF StackDepth, U8
    <3>3. MemOK(mem)  BY StackState
    <3>4. StackBytes' = <<>>  BY <3>1, <3>2, <3>3, StackIsOnStack, EmptyStack
    <3> QED  BY <3>4 DEF Stack!Next, Stack!Reset
  <2>6. CASE UNCHANGED vars  BY <2>1, <2>6 DEF vars, registers
  <2> QED  BY <2>2, <2>3, <2>4, <2>5, <2>6 DEF Next, Step, Caller
<1> QED  BY <1>1, <1>2, Invariance, PTL DEF Spec, StackIsStack, Stack!Spec
=============================================================================
