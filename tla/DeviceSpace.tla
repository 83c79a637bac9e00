---------------------------- MODULE DeviceSpace ----------------------------
(***************************************************************************)
(* What the memory map promises to a user of the bus, as an abstract       *)
(* store: every register is storage of its own, reads return the last      *)
(* value written through any of its addresses, and a word is the byte at   *)
(* its address and the byte at the next.                                   *)
(***************************************************************************)
EXTENDS MemoryMap

CONSTANTS ByteAddrs,   \* addresses the clients read and write as bytes
          WordAddrs,   \* addresses they read and write as words
          Values       \* the bytes they write

VARIABLES cells,       \* the content of every register in use
          out          \* the value the last read returned

vars == <<cells, out>>

Cells == {Cell(a) : a \in ByteAddrs \cup WordAddrs}
           \cup {Cell(a + 1) : a \in WordAddrs}

Init == /\ cells = [c \in Cells |-> 0]
        /\ out = 0

WriteByte(a, v) == /\ cells' = [cells EXCEPT ![Cell(a)] = v]
                   /\ UNCHANGED out

WriteWord(a, lo, hi) ==
  /\ cells' = [cells EXCEPT ![Cell(a)] = lo, ![Cell(a + 1)] = hi]
  /\ UNCHANGED out

ReadByte(a) == /\ out' = cells[Cell(a)]
               /\ UNCHANGED cells

ReadWord(a) == /\ out' = Word(cells[Cell(a)], cells[Cell(a + 1)])
               /\ UNCHANGED cells

Next == \/ \E a \in ByteAddrs, v \in Values : WriteByte(a, v)
        \/ \E a \in ByteAddrs : ReadByte(a)
        \/ \E a \in WordAddrs, lo, hi \in Values : WriteWord(a, lo, hi)
        \/ \E a \in WordAddrs : ReadWord(a)

Spec == Init /\ [][Next]_vars
=============================================================================
