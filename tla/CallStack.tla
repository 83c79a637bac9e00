----------------------------- MODULE CallStack -----------------------------
(***************************************************************************)
(* A processor as its program sees it: a program counter and a stack of    *)
(* bytes.  A call remembers where it came from, a return goes back there,  *)
(* and in between nothing disturbs what is on the stack.                   *)
(***************************************************************************)
EXTENDS Bytes, Sequences

VARIABLES stack,   \* the bytes pushed, the last one at the end
          pc

Depth == Len(stack)
Top(n) == stack[Depth - n]                       \* n = 0: the last byte
Below(n) == SubSeq(stack, 1, Depth - n)

Init == stack = <<>> /\ pc \in Word16

(* JSR remembers the address of its last byte, BRK the one behind it.      *)
Address2 == U16(pc + 2)
Call   == stack' = stack \o <<Page(Address2), Lo(Address2)>>
Return == /\ Depth >= 2
          /\ pc' = U16(Word(Top(0), Top(1)) + 1)
          /\ stack' = Below(2)

Interrupt == /\ Len(stack') = Depth + 3
             /\ SubSeq(stack', 1, Depth + 2) =
                  stack \o <<Page(Address2), Lo(Address2)>>
InterruptReturn == /\ Depth >= 3
                   /\ pc' = Word(Top(1), Top(2))
                   /\ stack' = Below(3)

Push == /\ Len(stack') = Depth + 1 /\ SubSeq(stack', 1, Depth) = stack
        /\ pc' = U16(pc + 1)
Pull == Depth >= 1 /\ stack' = Below(1) /\ pc' = U16(pc + 1)

Other == stack' = stack                          \* any other instruction
Reset == stack' = <<>>

Next == \/ Call \/ Return \/ Interrupt \/ InterruptReturn \/ Push \/ Pull
        \/ Other \/ Reset

Spec == Init /\ [][Next]_<<stack, pc>>
=============================================================================
