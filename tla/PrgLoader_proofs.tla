-------------------------- MODULE PrgLoader_proofs --------------------------
(***************************************************************************)
(* Theorems about the PRG loader, for every list of segments, every disk   *)
(* and both builds.                                                        *)
(***************************************************************************)
EXTENDS PrgLoader, Bus_proofs, TLAPS

-----------------------------------------------------------------------------
(* Lines and tokens.                                                       *)

(* A line that is on the disk as far as some character has at most one     *)
(* token more than its segment has bytes; each is a byte of the segment,   *)
(* its first digit, or the 0 of the newline; and a legible byte is found   *)
(* as it is.                                                               *)
LEMMA TokenFacts ==
  ASSUME NEW l \in Line, l.chars <= LineLength(l.data)
  PROVE  /\ Tokens(l) \in Nat /\ Tokens(l) <= Len(l.data) + 1
         /\ \A o \in Nat : o < Tokens(l) =>
              /\ Token(l, o) \in Byte
              /\ Token(l, o) \in IF o = Len(l.data) THEN {0}
                                 ELSE {l.data[o + 1], l.data[o + 1] \div 16}
         /\ \A o \in Nat :
              o < Len(l.data) /\ o < BytesInLine /\ HeaderLength + 3 * o + 2 <= l.chars
                => o < Tokens(l) /\ Token(l, o) = l.data[o + 1]
<1> DEFINE n == Len(l.data)
           c == Piece(l)
<1>1. n \in Nat /\ l.chars \in Nat /\ l.data \in Seq(Byte)  BY DEF Line
<1>2. l.chars <= 8 + 3 * n + 1  BY <1>1 DEF LineLength, HeaderLength
<1>3. c \in Nat /\ c <= 63 /\ c <= l.chars /\ (c = l.chars \/ c = 63)
  BY <1>1 DEF Piece, BUF_SIZE
<1>4. Tokens(l) = IF c <= 8 THEN 0 ELSE (c - 6) \div 3
  BY <1>3 DEF Tokens, HeaderLength
<1>5. Tokens(l) \in Nat /\ Tokens(l) <= n + 1
  BY <1>1, <1>2, <1>3, <1>4
<1>6. ASSUME NEW o \in Nat, o < Tokens(l)
      PROVE  /\ Token(l, o) \in Byte
             /\ Token(l, o) \in IF o = n THEN {0}
                                ELSE {l.data[o + 1], l.data[o + 1] \div 16}
  <2>1. CASE o = n  BY <2>1 DEF Token, Byte
  <2>2. CASE o # n
    <3>1. o + 1 \in 1 .. n  BY <1>1, <1>5, <1>6, <2>2
    <3>2. l.data[o + 1] \in Byte  BY <1>1, <3>1
    <3>3. l.data[o + 1] \div 16 \in Byte  BY <3>2 DEF Byte
    <3> QED  BY <2>2, <3>2, <3>3 DEF Token
  <2> QED  BY <2>1, <2>2
<1>7. ASSUME NEW o \in Nat, o < n, o < 18, 8 + 3 * o + 2 <= l.chars
      PROVE  o < Tokens(l) /\ Token(l, o) = l.data[o + 1]
  <2>1. c >= 8 + 3 * o + 2  BY <1>3, <1>7
  <2>2. o < Tokens(l)  BY <1>3, <1>4, <2>1
  <2>3. c # 8 + 3 * o + 1 /\ o # n  BY <1>1, <1>3, <1>7, <2>1
  <2> QED  BY <2>2, <2>3 DEF Token, HeaderLength
<1> QED  BY <1>5, <1>6, <1>7 DEF BytesInLine, HeaderLength

-----------------------------------------------------------------------------
(* The inductive invariant.                                                *)

(* The lines are the segments', as far as they are written.                *)
FileOK ==
  /\ Len(file) <= Len(segments)
  /\ call # "write" => Len(file) = Len(segments)
  /\ \A i \in DOMAIN file : /\ file[i].load_address = segments[i].load_address
                            /\ file[i].data = segments[i].data
                            /\ file[i].chars <= LineLength(file[i].data)

(* Where a token goes, whether it has been stored, and whether a token     *)
(* stored after it has gone to the same place.                             *)
Goes(i, o) == decode_address(virtual_addr(file[i], o))
Done(i, o) == /\ i \in DOMAIN file /\ o \in Nat /\ o < Tokens(file[i])
              /\ i < line \/ (i = line /\ o < offset)
Replaced(i, o) == \E k, p : Done(k, p) /\ (k > i \/ (k = i /\ p > o))
                              /\ Goes(k, p) = Goes(i, o)

Placed ==
  call \in {"load", "loaded"} =>
    \A i, o : Done(i, o) /\ ~Replaced(i, o) /\ Goes(i, o) < TOTAL_MEMORY_SIZE
                => memory_get(Goes(i, o)) = Token(file[i], o)

IInv == /\ TypeOK /\ FileOK /\ Placed /\ OnlySegmentsTouched
        /\ line >= 1
        /\ call = "loaded" => line > Len(file)

(* At the start there is no file.                                          *)
LEMMA InitIInv == Init => IInv
<1> SUFFICES ASSUME Init PROVE IInv  OBVIOUS
<1>1. BusTypeOK  BY LoaderAssumption DEF Init, BusInit, BusTypeOK
<1>2. TypeOK
  <2>1. file \in Seq(Line) /\ segments \in Seq(Segment)  BY DEF Init
  <2> QED  BY <1>1, <2>1 DEF Init, TypeOK
<1>3. FileOK /\ Placed /\ OnlySegmentsTouched
  BY DEF Init, FileOK, Placed, OnlySegmentsTouched
<1> QED  BY <1>2, <1>3 DEF Init, IInv

(* A token goes to an offset that is not negative, and as long as nothing  *)
(* is stored there reads as it did.                                        *)
LEMMA GoesNat ==
  ASSUME TypeOK, NEW i \in DOMAIN file, NEW o \in Nat
  PROVE  virtual_addr(file[i], o) \in Word16 /\ Goes(i, o) \in Nat
<1>1. file[i] \in Line  BY DEF TypeOK
<1>2. file[i].load_address \in Word16  BY <1>1 DEF Line
<1>3. file[i].load_address + o \in Int  BY <1>2, WordRange
<1>4. virtual_addr(file[i], o) \in Word16  BY <1>3, Truncation DEF virtual_addr
<1> QED  BY <1>4, DecodeNat DEF Goes

(* The array's size is a number.                                           *)
LEMMA ArraySize == TOTAL_MEMORY_SIZE \in Nat
  BY BusAssumption DEF TOTAL_MEMORY_SIZE, M6502_RAM_SIZE, PPU_REGISTERS_SIZE, SRAM_SIZE

(* The bus and the array are left alone by every step but load_byte.       *)
LEMMA QuietBus ==
  ASSUME BusTypeOK, past' \in Past, UNCHANGED <<mem, wild, PROGMEM>>
  PROVE  BusTypeOK'
  BY DEF BusTypeOK

(* The writer does not load: the conditions on a load are empty.           *)
LEMMA WriterOK ==
  ASSUME IInv, past' \in Past, UNCHANGED PROGMEM,
         \/ \E segs \in SegmentLists, r \in Rooms : write_open(segs, r)
         \/ write_segment \/ write_close \/ write_fails \/ load_fails
  PROVE  IInv'
<1> USE DEF IInv
<1>1. CASE \E segs \in SegmentLists, r \in Rooms : write_open(segs, r)
  <2> PICK segs \in SegmentLists, r \in Rooms : write_open(segs, r)  BY <1>1
  <2>1. segs \in Seq(Segment) /\ r \in Nat  BY LoaderAssumption
  <2>2. BusTypeOK'  BY QuietBus DEF write_open, TypeOK
  <2>3. TypeOK'
    <3>1. file' \in Seq(Line)  BY DEF write_open
    <3> QED  BY <2>1, <2>2, <3>1 DEF write_open, TypeOK, place
  <2>4. FileOK'  BY <2>1 DEF write_open, FileOK
  <2> QED
    BY <2>3, <2>4 DEF write_open, place, Placed, OnlySegmentsTouched
<1>2. CASE write_segment
  <2> DEFINE segment == segments[Len(file) + 1]
             full    == LineLength(segment.data)
             chars   == IF full <= room THEN full ELSE room
             new     == [load_address |-> segment.load_address,
                         data |-> segment.data, chars |-> chars]
  <2>1. Len(file) \in Nat /\ Len(segments) \in Nat /\ Len(file) < Len(segments)
    BY <1>2 DEF write_segment, TypeOK
  <2>2. segment \in Segment  BY <2>1 DEF TypeOK
  <2>3. segment.load_address \in Word16 /\ segment.data \in Seq(Byte)
    BY <2>2 DEF Segment
  <2>4. full \in Nat  BY <2>3 DEF LineLength, HeaderLength
  <2>5. chars \in Nat /\ chars <= full /\ chars <= room  BY <2>4 DEF TypeOK
  <2>6. new \in Line  BY <2>3, <2>5 DEF Line
  <2>7. file' = Append(file, new) /\ room' = room - chars /\ call = "write"
    BY <1>2 DEF write_segment
  <2>8. BusTypeOK'  BY <1>2, QuietBus DEF write_segment, TypeOK
  <2>9. room' \in Nat  BY <2>5, <2>7 DEF TypeOK
  <2>10. TypeOK'
    <3> HIDE DEF new, chars
    <3>1. file' \in Seq(Line)  BY <2>6, <2>7 DEF TypeOK
    <3> QED  BY <1>2, <2>8, <2>9, <3>1 DEF write_segment, TypeOK, place
  <2>11. FileOK'
    <3>1. Len(file') = Len(file) + 1 /\ file'[Len(file) + 1] = new
      <4> HIDE DEF new
      <4> QED  BY <2>7 DEF TypeOK
    <3>2. \A i \in 1 .. Len(file) : file'[i] = file[i]
      <4> HIDE DEF new
      <4> QED  BY <2>7 DEF TypeOK
    <3>3. segments' = segments /\ call' = "write"
      BY <1>2 DEF write_segment
    <3>4. /\ new.load_address = segment.load_address
          /\ new.data = segment.data
          /\ new.chars <= LineLength(new.data)
      BY <2>5
    <3>5. DOMAIN file = 1 .. Len(file) /\ DOMAIN file' = 1 .. (Len(file) + 1)
      BY <2>10, <3>1 DEF TypeOK
    <3>6. \A i \in DOMAIN file' : /\ file'[i].load_address = segments[i].load_address
                                  /\ file'[i].data = segments[i].data
                                  /\ file'[i].chars <= LineLength(file'[i].data)
      <4> TAKE i \in DOMAIN file'
      <4>1. CASE i = Len(file) + 1
        <5> HIDE DEF new, chars, full
        <5> QED  BY <4>1, <3>1, <3>4
      <4>2. CASE i \in 1 .. Len(file)  BY <4>2, <3>2, <3>5 DEF FileOK
      <4> QED  BY <4>1, <4>2, <3>5, <2>1
    <3> QED  BY <2>1, <3>1, <3>3, <3>6 DEF FileOK
  <2> QED
    BY <1>2, <2>7, <2>10, <2>11
    DEF write_segment, place, Placed, OnlySegmentsTouched
<1>3. CASE write_close
  <2>1. BusTypeOK'  BY <1>3, QuietBus DEF write_close, TypeOK
  <2>2. TypeOK'  BY <1>3, <2>1 DEF write_close, TypeOK, place, disk
  <2>3. FileOK'  BY <1>3 DEF write_close, FileOK, disk
  <2> QED
    BY <1>3, <2>2, <2>3 DEF write_close, disk, place, Placed, OnlySegmentsTouched
<1>4. CASE write_fails \/ load_fails
  <2>1. write_fails  BY <1>4 DEF load_fails
  <2>2. BusTypeOK'  BY <2>1, QuietBus DEF write_fails, TypeOK
  <2>3. TypeOK'  BY <2>1, <2>2 DEF write_fails, TypeOK, place, disk
  <2>4. FileOK'  BY <2>1 DEF write_fails, FileOK, disk, Returned
  <2> QED
    BY <2>1, <2>3, <2>4 DEF write_fails, disk, place, Placed, OnlySegmentsTouched
<1> QED  BY <1>1, <1>2, <1>3, <1>4

(* What is placed stays placed, and what is touched stays accounted for,   *)
(* in the steps of a load that store nothing and count no token.           *)
LEMMA QuietLoad ==
  ASSUME IInv, past' \in Past, UNCHANGED PROGMEM, load_open \/ load_line \/ load_close
  PROVE  IInv'
<1> USE DEF IInv
<1>1. UNCHANGED <<mem, wild, disk>>  BY DEF load_open, load_line, load_close
<1>2. BusTypeOK'  BY <1>1, QuietBus DEF TypeOK
<1>3. TypeOK'
  BY <1>1, <1>2 DEF load_open, load_line, load_close, TypeOK, place, disk
<1>4. FileOK'
  BY <1>1 DEF load_open, load_line, load_close, FileOK, disk, Returned
<1>5. line' >= 1 /\ (call' = "loaded" => line' > Len(file'))
  <2>1. DOMAIN file = 1 .. Len(file) /\ line \in Nat  BY DEF TypeOK
  <2> QED  BY <1>1, <2>1 DEF load_open, load_line, load_close, place, disk
<1>6. CASE load_open
  <2>1. \A i, o : ~Done(i, o)'
    <3> SUFFICES ASSUME NEW i, NEW o, Done(i, o)' PROVE FALSE  OBVIOUS
    <3>1. line' = 1 /\ offset' = 0 /\ file' = file  BY <1>1, <1>6 DEF load_open, disk
    <3>2. i \in 1 .. Len(file) /\ o \in Nat /\ Len(file) \in Nat
      BY <3>1 DEF Done, TypeOK
    <3>3. i < 1 \/ (i = 1 /\ o < 0)  BY <3>1 DEF Done
    <3> QED  BY <3>2, <3>3
  <2>2. Placed'  BY <2>1 DEF Placed
  <2>3. OnlySegmentsTouched'
    BY <1>1, <1>6 DEF load_open, OnlySegmentsTouched
  <2> QED  BY <1>3, <1>4, <1>5, <2>2, <2>3
<1>7. CASE load_line \/ load_close
  <2>1. \A i, o : Done(i, o)' <=> Done(i, o)
    <3> TAKE i, o
    <3>1. CASE load_close
      BY <1>1, <3>1 DEF load_close, Done, place, disk
    <3>2. CASE load_line
      <4>1. /\ line' = line + 1 /\ offset' = 0 /\ file' = file
            /\ line \in DOMAIN file /\ offset >= Tokens(file[line])
        BY <1>1, <3>2 DEF load_line, disk
      <4>2. DOMAIN file \subseteq Nat /\ line \in Nat /\ offset \in Nat  BY DEF TypeOK
      <4>3. \A k \in DOMAIN file : Tokens(file[k]) \in Nat
        BY TokenFacts DEF FileOK, TypeOK
      <4>4. Done(i, o)' <=> (i \in DOMAIN file /\ o \in Nat /\ o < Tokens(file[i])
                               /\ i < line + 1)
        <5>1. o \in Nat => ~(o < 0)  OBVIOUS
        <5>2. Tokens(file[i])' = Tokens(file[i])
          BY <4>1 DEF Tokens, Piece
        <5> QED  BY <4>1, <5>1, <5>2 DEF Done
      <4>5. ASSUME i \in DOMAIN file, o \in Nat, o < Tokens(file[i])
            PROVE  i < line + 1 <=> (i < line \/ (i = line /\ o < offset))
        <5>1. i \in Nat /\ Tokens(file[i]) \in Nat  BY <4>2, <4>3, <4>5
        <5> QED  BY <4>1, <4>2, <4>5, <5>1
      <4> QED  BY <4>4, <4>5 DEF Done
    <3> QED  BY <1>7, <3>1, <3>2
  <2>2. call = "load" /\ call' \in {"load", "loaded"} /\ UNCHANGED before
    BY <1>7 DEF load_line, load_close, place
  <2>3. \A i, o : Goes(i, o)' = Goes(i, o) /\ Token(file[i], o)' = Token(file[i], o)
    BY <1>1 DEF Goes, virtual_addr, Token, Piece, disk
  <2>4. \A i, o : Replaced(i, o)' <=> Replaced(i, o)
    BY <2>1, <2>3 DEF Replaced
  <2>5. Placed'
    <3> SUFFICES ASSUME NEW i, NEW o, Done(i, o)', ~Replaced(i, o)',
                        (Goes(i, o) < TOTAL_MEMORY_SIZE)'
                 PROVE  (memory_get(Goes(i, o)) = Token(file[i], o))'
      BY DEF Placed
    <3>1. Goes(i, o) < TOTAL_MEMORY_SIZE /\ Goes(i, o)' = Goes(i, o)
      BY <2>3 DEF TOTAL_MEMORY_SIZE
    <3>2. memory_get(Goes(i, o)) = Token(file[i], o)
      BY <2>1, <2>2, <2>4, <3>1 DEF Placed
    <3>3. memory_get(Goes(i, o))' = memory_get(Goes(i, o))
      <4>1. i \in DOMAIN file /\ o \in Nat  BY <2>1 DEF Done
      <4>2. ~(Goes(i, o) >= TOTAL_MEMORY_SIZE)  BY <3>1, <4>1, GoesNat, ArraySize
      <4> QED  BY <1>1, <3>1, <4>2 DEF memory_get, TOTAL_MEMORY_SIZE
    <3> QED  BY <2>3, <3>2, <3>3
  <2>6. OnlySegmentsTouched'
    BY <1>1, <2>2 DEF OnlySegmentsTouched, disk, Home, Behind, virtual_addr
  <2> QED  BY <1>3, <1>4, <1>5, <2>5, <2>6
<1> QED  BY <1>6, <1>7

(* A stored byte is placed; the bytes stored before it are, too, unless it *)
(* replaced them.                                                          *)
LEMMA ByteOK ==
  ASSUME IInv, past' \in Past, UNCHANGED PROGMEM, load_byte
  PROVE  IInv'
<1> USE DEF IInv
<1> DEFINE h == Goes(line, offset)
           v == Token(file[line], offset)
           T == TOTAL_MEMORY_SIZE
<1>1. /\ call = "load" /\ line \in DOMAIN file /\ offset < Tokens(file[line])
      /\ offset' = offset + 1 /\ UNCHANGED <<disk, call, line, before>>
      /\ bus_write_byte(virtual_addr(file[line], offset), v)
  BY DEF load_byte
<1>2. line \in Nat /\ offset \in Nat /\ DOMAIN file = 1 .. Len(file) /\ T \in Nat
  BY ArraySize DEF TypeOK
<1>3. file[line] \in Line /\ file[line].chars <= LineLength(file[line].data)
  BY <1>1 DEF TypeOK, FileOK
<1>4. v \in Byte
  BY <1>1, <1>2, <1>3, TokenFacts
<1>5. virtual_addr(file[line], offset) \in Word16 /\ h \in Nat
  BY <1>1, <1>2, GoesNat
<1>6. \/ h < T /\ mem' = memory_set(mem, h, v)
      \/ h >= T /\ mem' = mem
  BY <1>1 DEF bus_write_byte, Goes
<1>7. BusTypeOK'
  <2> HIDE DEF v
  <2> QED  BY <1>1, <1>4, <1>5, WriteType DEF TypeOK
<1>8. TypeOK'
  BY <1>1, <1>2, <1>7 DEF TypeOK, disk
<1>9. FileOK'  BY <1>1 DEF FileOK, disk
<1>10. \A i, o : /\ Goes(i, o)' = Goes(i, o)
                 /\ Token(file[i], o)' = Token(file[i], o)
                 /\ Tokens(file[i])' = Tokens(file[i])
  BY <1>1 DEF Goes, virtual_addr, Token, Tokens, Piece, disk
<1>11. \A i, o : Done(i, o)' <=> Done(i, o) \/ (i = line /\ o = offset)
  <2> TAKE i, o
  <2>1. Done(i, o)' <=> /\ i \in DOMAIN file /\ o \in Nat /\ o < Tokens(file[i])
                        /\ i < line \/ (i = line /\ o < offset + 1)
    BY <1>1, <1>10 DEF Done, disk
  <2>2. o \in Nat => (o < offset + 1 <=> o < offset \/ o = offset)  BY <1>2
  <2> QED  BY <1>1, <1>2, <2>1, <2>2 DEF Done
<1>12. Placed'
  <2> SUFFICES ASSUME NEW i, NEW o, Done(i, o)', ~Replaced(i, o)',
                      (Goes(i, o) < TOTAL_MEMORY_SIZE)'
               PROVE  (memory_get(Goes(i, o)) = Token(file[i], o))'
    BY DEF Placed
  <2>1. Goes(i, o) < T  BY <1>10 DEF TOTAL_MEMORY_SIZE
  <2>2. i \in DOMAIN file /\ o \in Nat  BY <1>1 DEF Done, disk
  <2>3. Goes(i, o) \in Nat  BY <1>1, <2>2, GoesNat DEF disk
  <2>4. ~(Goes(i, o) >= T)  BY <1>2, <2>1, <2>3
  <2>5. CASE i = line /\ o = offset
    <3>1. mem' = memory_set(mem, h, v)  BY <1>2, <1>5, <1>6, <2>1, <2>5
    <3>2. Goes(i, o) \in DOMAIN mem' /\ mem'[Goes(i, o)] = v
      BY <2>5, <3>1 DEF memory_set
    <3>3. Token(file[i], o)' = v  BY <1>10, <2>5
    <3> HIDE DEF v
    <3> QED  BY <1>10, <2>4, <3>2, <3>3 DEF memory_get, TOTAL_MEMORY_SIZE
  <2>6. CASE ~(i = line /\ o = offset)
    <3>1. Done(i, o)  BY <1>11, <2>6
    <3>2. ~Replaced(i, o)
      BY <1>10, <1>11 DEF Replaced
    <3>3. memory_get(Goes(i, o)) = Token(file[i], o)
      BY <1>1, <2>1, <3>1, <3>2 DEF Placed
    <3>4. Goes(i, o) # h
      <4>1. line > i \/ (line = i /\ offset > o)
        BY <1>1, <1>2, <2>2, <3>1 DEF Done
      <4> QED  BY <1>10, <1>11, <4>1 DEF Replaced
    <3>5. memory_get(Goes(i, o))' = memory_get(Goes(i, o))
      <4>1. \/ mem' = memory_set(mem, h, v)
            \/ mem' = mem
        BY <1>6
      <4>2. /\ Goes(i, o) \in DOMAIN mem' <=> Goes(i, o) \in DOMAIN mem
            /\ Goes(i, o) \in DOMAIN mem => mem'[Goes(i, o)] = mem[Goes(i, o)]
        <5> HIDE DEF h, v
        <5> QED  BY <3>4, <4>1 DEF memory_set
      <4> QED  BY <1>10, <2>4, <4>2 DEF memory_get, TOTAL_MEMORY_SIZE
    <3> QED  BY <1>10, <3>3, <3>5
  <2> QED  BY <2>5, <2>6
<1>13. OnlySegmentsTouched'
  <2>1. file[line].data = segments[line].data
        /\ file[line].load_address = segments[line].load_address
    BY <1>1 DEF FileOK
  <2>2. line \in DOMAIN segments
    <3>1. Len(file) \in Nat /\ Len(segments) \in Nat
          /\ DOMAIN segments = 1 .. Len(segments)  BY DEF TypeOK
    <3> QED  BY <1>1, <1>2, <3>1 DEF FileOK
  <2>3. Behind(line) \in Nat /\ offset \in 0 .. Behind(line)
    <3>1. Len(file[line].data) \in Nat  BY <1>3 DEF Line
    <3>2. Tokens(file[line]) \in Nat /\ Tokens(file[line]) <= Len(file[line].data) + 1
      BY <1>3, TokenFacts
    <3> QED  BY <1>1, <1>2, <2>1, <3>1, <3>2 DEF Behind
  <2>4. h = Home(line, offset)  BY <2>1 DEF Goes, Home, virtual_addr
  <2>5. v \in IF offset = Behind(line) THEN {0}
               ELSE {segments[line].data[offset + 1],
                     segments[line].data[offset + 1] \div 16}
    BY <1>1, <1>2, <1>3, <2>1, TokenFacts DEF Behind
  <2>6. \A i, o : Home(i, o)' = Home(i, o) /\ Behind(i)' = Behind(i)
    BY <1>1 DEF Home, Behind, virtual_addr, disk
  <2>7. SUFFICES ASSUME NEW x \in DOMAIN mem'
                 PROVE  \/ x \in DOMAIN before /\ mem'[x] = before[x]
                        \/ \E i \in DOMAIN segments : \E o \in 0 .. Behind(i) :
                             /\ x = Home(i, o)
                             /\ mem'[x] \in IF o = Behind(i) THEN {0}
                                            ELSE {segments[i].data[o + 1],
                                                  segments[i].data[o + 1] \div 16}
    BY <1>1, <2>6 DEF OnlySegmentsTouched, disk
  <2>8. CASE x = h /\ mem' = memory_set(mem, h, v)
    <3>1. mem'[x] = v  BY <2>8 DEF memory_set
    <3> HIDE DEF h, v
    <3> QED  BY <2>2, <2>3, <2>4, <2>5, <2>8, <3>1
  <2>9. CASE ~(x = h /\ mem' = memory_set(mem, h, v))
    <3>1. x \in DOMAIN mem /\ mem'[x] = mem[x]
      <4> HIDE DEF h, v
      <4> QED  BY <1>6, <2>7, <2>9 DEF memory_set
    <3> QED  BY <1>1, <3>1 DEF OnlySegmentsTouched
  <2> QED  BY <2>8, <2>9
<1> QED  BY <1>1, <1>8, <1>9, <1>12, <1>13 DEF disk

(* No step of the loader, nor a stutter, leaves the invariant.             *)
LEMMA NextIInv == IInv /\ [Next]_vars => IInv'
<1> SUFFICES ASSUME IInv, [Next]_vars PROVE IInv'  OBVIOUS
<1>1. CASE Next
  BY <1>1, WriterOK, QuietLoad, ByteOK DEF Next, Step
<1>2. CASE UNCHANGED vars
  <2> USE <1>2 DEF vars, disk, place
  <2>1. TypeOK'  BY DEF IInv, TypeOK, BusTypeOK
  <2>2. FileOK'  BY DEF IInv, FileOK
  <2>3. Placed'
    <3>1. \A i, o : /\ Goes(i, o)' = Goes(i, o)
                    /\ Token(file[i], o)' = Token(file[i], o)
                    /\ Tokens(file[i])' = Tokens(file[i])
      BY DEF Goes, virtual_addr, Token, Tokens, Piece
    <3>2. \A i, o : Done(i, o)' <=> Done(i, o)  BY <3>1 DEF Done
    <3>3. \A i, o : Replaced(i, o)' <=> Replaced(i, o)
      BY <3>1, <3>2 DEF Replaced
    <3>4. \A i, o : memory_get(Goes(i, o))' = memory_get(Goes(i, o))
      BY <3>1 DEF memory_get, TOTAL_MEMORY_SIZE
    <3>5. TOTAL_MEMORY_SIZE' = TOTAL_MEMORY_SIZE  BY DEF TOTAL_MEMORY_SIZE
    <3>6. SUFFICES ASSUME call' \in {"load", "loaded"}, NEW i, NEW o, Done(i, o)',
                          ~Replaced(i, o)', (Goes(i, o) < TOTAL_MEMORY_SIZE)'
                   PROVE  (memory_get(Goes(i, o)) = Token(file[i], o))'
      BY DEF Placed
    <3>7. Goes(i, o) < TOTAL_MEMORY_SIZE  BY <3>1, <3>5, <3>6
    <3>8. memory_get(Goes(i, o)) = Token(file[i], o)
      BY <3>2, <3>3, <3>6, <3>7 DEF IInv, Placed
    <3> QED  BY <3>1, <3>4, <3>8
  <2>4. OnlySegmentsTouched'
    BY DEF IInv, OnlySegmentsTouched, Home, Behind, virtual_addr
  <2> QED  BY <2>1, <2>2, <2>3, <2>4 DEF IInv
<1> QED  BY <1>1, <1>2

(* The invariant holds in every state of every behaviour.                  *)
LEMMA Invariance == Spec => []IInv
<1> QED  BY InitIInv, NextIInv, PTL DEF Spec

-----------------------------------------------------------------------------
(* The file and the place in it keep their types, and the array its bounds *)
(* and bytes, whatever is loaded.                                          *)
THEOREM LoaderTypes == Spec => []TypeOK
<1>1. IInv => TypeOK  BY DEF IInv
<1> QED  BY <1>1, Invariance, PTL

(* A load stores in the places of the segments and of the bytes behind     *)
(* them, and there what the file says, cut or not.                         *)
THEOREM LoadKeepsTheRest == Spec => []OnlySegmentsTouched
<1>1. IInv => OnlySegmentsTouched  BY DEF IInv
<1> QED  BY <1>1, Invariance, PTL

(* After a load every legible byte of a segment below the program ROM that *)
(* nothing later in the file replaces reads back over the bus.             *)
THEOREM LoadRestores == Spec => []SegmentsLoaded
<1>1. IInv => SegmentsLoaded
  <2> SUFFICES ASSUME IInv, call = "loaded", NEW i \in DOMAIN segments,
                      NEW o \in 0 .. Behind(i) - 1,
                      U16(segments[i].load_address + o) < PRG_ROM_START,
                      Legible(i, o), ~Overwritten(i, o)
               PROVE  bus_read_byte(U16(segments[i].load_address + o))
                        = segments[i].data[o + 1]
    BY DEF SegmentsLoaded
  <2> USE DEF IInv
  <2> DEFINE a == U16(segments[i].load_address + o)
  <2>1. Len(file) = Len(segments) /\ line > Len(file) /\ line \in Nat
    BY DEF FileOK, TypeOK
  <2>2. /\ DOMAIN file = 1 .. Len(file) /\ DOMAIN segments = 1 .. Len(segments)
        /\ Len(file) \in Nat
    BY DEF TypeOK
  <2>3. i \in DOMAIN file /\ i \in Nat /\ i < line  BY <2>1, <2>2
  <2>4. /\ file[i] \in Line /\ file[i].chars <= LineLength(file[i].data)
        /\ file[i].data = segments[i].data
        /\ file[i].load_address = segments[i].load_address
    BY <2>3 DEF TypeOK, FileOK
  <2>5. Len(file[i].data) \in Nat  BY <2>4 DEF Line
  <2>6. o \in Nat /\ o < Len(file[i].data)  BY <2>4, <2>5 DEF Behind
  <2>7. o < Tokens(file[i]) /\ Token(file[i], o) = segments[i].data[o + 1]
    BY <2>4, <2>6, TokenFacts DEF Legible
  <2>8. Done(i, o)  BY <2>3, <2>6, <2>7 DEF Done
  <2>9. \A k, p : Done(k, p) => /\ k \in DOMAIN segments /\ p \in 0 .. Behind(k)
                               /\ Goes(k, p) = Home(k, p)
    <3> SUFFICES ASSUME NEW k, NEW p, Done(k, p)
                 PROVE  /\ k \in DOMAIN segments /\ p \in 0 .. Behind(k)
                        /\ Goes(k, p) = Home(k, p)
      OBVIOUS
    <3>1. k \in DOMAIN file /\ p \in Nat /\ p < Tokens(file[k])  BY DEF Done
    <3>2. /\ file[k] \in Line /\ file[k].chars <= LineLength(file[k].data)
          /\ file[k].data = segments[k].data
          /\ file[k].load_address = segments[k].load_address
      BY <3>1 DEF TypeOK, FileOK
    <3>3. Len(file[k].data) \in Nat  BY <3>2 DEF Line
    <3>4. Tokens(file[k]) \in Nat /\ Tokens(file[k]) <= Len(file[k].data) + 1
      BY <3>2, TokenFacts
    <3>5. p \in 0 .. Behind(k)  BY <3>1, <3>2, <3>3, <3>4 DEF Behind
    <3>6. Goes(k, p) = Home(k, p)  BY <3>2 DEF Goes, Home, virtual_addr
    <3> QED  BY <2>1, <2>2, <3>1, <3>5, <3>6
  <2>10. ~Replaced(i, o)
    BY <2>8, <2>9 DEF Replaced, Overwritten
  <2>11. a = virtual_addr(file[i], o)  BY <2>4 DEF virtual_addr
  <2>12. a \in Word16  BY <2>3, <2>6, <2>11, GoesNat
  <2>13. a \in Int /\ 0 <= a /\ a <= \h7FFF
    <3>1. a < PRG_ROM_START  OBVIOUS
    <3> HIDE DEF a
    <3>2. a \in Int  BY <2>12, WordRange
    <3>3. ~(a >= PRG_ROM_START)  BY <3>1, <3>2 DEF PRG_ROM_START
    <3> QED  BY <2>12, <3>3, BelowRom
  <2>14. decode_address(a) \in 0 .. TOTAL_MEMORY_SIZE - 1
    <3> HIDE DEF a
    <3> QED  BY <2>13, DecodeInside
  <2>15. Goes(i, o) = decode_address(a)  BY <2>11 DEF Goes
  <2>16. memory_get(decode_address(a)) = segments[i].data[o + 1]
    BY <2>7, <2>8, <2>10, <2>14, <2>15, ArraySize DEF Placed
  <2>17. ~(a >= PRG_ROM_START)  BY <2>13 DEF PRG_ROM_START
  <2> QED  BY <2>16, <2>17 DEF bus_read_byte
<1> QED  BY <1>1, Invariance, PTL
=============================================================================
