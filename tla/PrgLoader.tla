----------------------------- MODULE PrgLoader -----------------------------
(***************************************************************************)
(* write_prg_file and load_prg_file, prg_loader.c, over the bus and a      *)
(* disk.                                                                   *)
(*                                                                         *)
(* The file is text, one line for each segment, and is kept as the lines   *)
(* with the number of characters of each that are on the disk.  A line is  *)
(* "0x%04X: ", then "%02X " for each byte, then the newline, so the number *)
(* of its characters decides what strtok finds in it.  The calls fprintf   *)
(* and fclose of the writer are not checked: on a disk with room for fewer *)
(* characters the file ends in the middle of a line and write_prg_file     *)
(* returns 0.                                                              *)
(***************************************************************************)
EXTENDS Bus, Sequences

CONSTANTS SegmentLists,  \* the arguments segments of write_prg_file
          Rooms,         \* how many characters the disk has room for
          Images         \* the program ROMs of the builds considered

Segment == [load_address : Word16, data : Seq(Byte)]

ASSUME LoaderAssumption == /\ SegmentLists \subseteq Seq(Segment)
                           /\ Rooms \subseteq Nat
                           /\ \A p \in Images :
                                \A o \in DOMAIN p : p[o] \in Byte

VARIABLES present, file,   \* the file
          segments, room,  \* what it was written from, and the room left
          call,            \* where the call is, or how the last one ended
          line, offset,    \* load_prg_file: the line, the token in it
          before           \* the array when load_prg_file was called

disk  == <<present, file, segments, room>>
place == <<line, offset, before>>
vars  == <<mem, PROGMEM, past, wild, disk, call, place>>

Returned == call \notin {"write", "load"}

-----------------------------------------------------------------------------
(* write_prg_file: fopen, which empties the file, one iteration of the     *)
(* loop, and the end.                                                      *)
HeaderLength == 8
LineLength(data) == HeaderLength + 3 * Len(data) + 1

write_open(segs, r) ==
  /\ Returned
  /\ call' = "write"
  /\ present' = TRUE /\ file' = <<>>
  /\ segments' = segs /\ room' = r
  /\ UNCHANGED <<mem, wild, place>>

write_segment ==
  /\ call = "write" /\ Len(file) < Len(segments)
  /\ LET segment == segments[Len(file) + 1]
         full    == LineLength(segment.data)
         chars   == IF full <= room THEN full ELSE room
     IN  /\ file' = Append(file, [load_address |-> segment.load_address,
                                  data |-> segment.data, chars |-> chars])
         /\ room' = room - chars
  /\ UNCHANGED <<mem, wild, present, segments, call, place>>

write_close ==
  /\ call = "write" /\ Len(file) = Len(segments)
  /\ call' = "written"
  /\ UNCHANGED <<mem, wild, disk, place>>

(* fopen fails: a file that cannot be created, or is not there.            *)
write_fails == Returned /\ call' = "failed" /\ UNCHANGED <<mem, wild, disk, place>>
load_fails  == ~present /\ write_fails

-----------------------------------------------------------------------------
(* load_prg_file.  fgets takes at most BUF_SIZE - 1 characters.  In the    *)
(* first piece of a line the tokens behind the colon are its bytes, the    *)
(* last one cut to its first digit if the piece ends there, and then the   *)
(* newline, which strtol makes a 0.  In the other pieces there is no       *)
(* colon: the first strtok takes all of the piece and no token is left.    *)
BUF_SIZE == 64

Piece(l) == IF l.chars < BUF_SIZE THEN l.chars ELSE BUF_SIZE - 1

Tokens(l) == IF Piece(l) <= HeaderLength THEN 0
             ELSE (Piece(l) - HeaderLength + 2) \div 3

Token(l, o) == IF o = Len(l.data) THEN 0
               ELSE IF Piece(l) = HeaderLength + 3 * o + 1 THEN l.data[o + 1] \div 16
               ELSE l.data[o + 1]

virtual_addr_next(l, o) == U16(l.load_address + o + 1)   \* mutant: offset++ first
virtual_addr(l, o) == U16(l.load_address + o)

load_open ==
  /\ Returned /\ present
  /\ call' = "load"
  /\ line' = 1 /\ offset' = 0 /\ before' = mem
  /\ UNCHANGED <<mem, wild, disk>>

load_byte ==
  /\ call = "load" /\ line \in DOMAIN file /\ offset < Tokens(file[line])
  /\ bus_write_byte(virtual_addr(file[line], offset), Token(file[line], offset))
  /\ offset' = offset + 1
  /\ UNCHANGED <<disk, call, line, before>>

load_line_keeps ==                          \* mutant: offset = 0 forgotten
  /\ call = "load" /\ line \in DOMAIN file /\ offset >= Tokens(file[line])
  /\ line' = line + 1
  /\ UNCHANGED <<mem, wild, disk, call, before, offset>>

load_line ==
  /\ call = "load" /\ line \in DOMAIN file /\ offset >= Tokens(file[line])
  /\ line' = line + 1
  /\ offset' = 0
  /\ UNCHANGED <<mem, wild, disk, call, before>>

load_close ==
  /\ call = "load" /\ line \notin DOMAIN file
  /\ call' = "loaded"
  /\ UNCHANGED <<mem, wild, disk, place>>

-----------------------------------------------------------------------------
Init == /\ BusInit
        /\ PROGMEM \in Images
        /\ present = FALSE /\ file = <<>> /\ segments = <<>> /\ room = 0
        /\ call = "none"
        /\ line = 1 /\ offset = 0 /\ before = mem

Step == \/ \E segs \in SegmentLists, r \in Rooms : write_open(segs, r)
        \/ write_segment \/ write_close \/ write_fails
        \/ load_open \/ load_byte \/ load_line \/ load_close \/ load_fails

Next == ~wild /\ Step /\ past' \in Past /\ UNCHANGED PROGMEM

Spec == Init /\ [][Next]_vars

-----------------------------------------------------------------------------
Line == [load_address : Word16, data : Seq(Byte), chars : Nat]

(* The file and the place in it, besides the array.                        *)
TypeOK ==
  /\ BusTypeOK
  /\ present \in BOOLEAN /\ file \in Seq(Line)
  /\ segments \in Seq(Segment) /\ room \in Nat
  /\ call \in {"none", "failed", "write", "written", "load", "loaded"}
  /\ line \in Nat /\ offset \in Nat

(* The array's byte that byte o of segment i belongs in; o = Len(data) is  *)
(* the byte behind the segment.                                            *)
Home(i, o)   == decode_address(U16(segments[i].load_address + o))
Behind(i)    == Len(segments[i].data)
BytesInLine  == 18

(* Byte o of segment i is whole on the disk, and in the first 63           *)
(* characters of its line.                                                 *)
Legible(i, o) == o < BytesInLine /\ HeaderLength + 3 * o + 2 <= file[i].chars

(* A later byte of the same segment, or a byte of a later segment or the   *)
(* byte behind it, belongs in the same place.                              *)
Overwritten(i, o) ==
  \E k \in DOMAIN segments : \E p \in 0 .. Behind(k) :
    (k > i \/ (k = i /\ p > o)) /\ Home(k, p) = Home(i, o)

(* Loading what was written puts every segment back: after load_prg_file   *)
(* has returned 0 each byte of a segment below the program ROM reads back  *)
(* over the bus, if it is among the first 18 of its segment and nothing    *)
(* that comes later in the file is stored in its place, which the byte     *)
(* behind a later segment is, too: the newline is a token.                 *)
SegmentsLoaded ==
  call = "loaded" =>
    \A i \in DOMAIN segments : \A o \in 0 .. Behind(i) - 1 :
      LET a == U16(segments[i].load_address + o)
      IN  a < PRG_ROM_START /\ Legible(i, o) /\ ~Overwritten(i, o)
            => bus_read_byte(a) = segments[i].data[o + 1]

(* load_prg_file touches nothing else, whatever became of the file on a    *)
(* full disk and while it is loading, too: a byte of the array that is not *)
(* what it was is in the place of some segment's byte and is that byte, or *)
(* its first digit where the text was cut, or is the 0 behind a segment.   *)
OnlySegmentsTouched ==
  call \in {"load", "loaded"} =>
    \A h \in DOMAIN mem :
      \/ h \in DOMAIN before /\ mem[h] = before[h]
      \/ \E i \in DOMAIN segments : \E o \in 0 .. Behind(i) :
           /\ h = Home(i, o)
           /\ mem[h] \in IF o = Behind(i) THEN {0}
                         ELSE {segments[i].data[o + 1],
                               segments[i].data[o + 1] \div 16}
=============================================================================
