------------------------------ MODULE MCWozmon ------------------------------
(***************************************************************************)
(* The command wozmon with the repository's monitor as the guest, and with *)
(* guests that print a text and end, or print for ever.                    *)
(***************************************************************************)
EXTENDS Wozmon, Program

DefaultBuild == 0
PastBytes    == {0}
OneCycle     == {1}
NoRanges     == {}
PointerSize  == 4

(* lda #c, sta ACIA_DATA *)
Put(c) == <<INS_LDA["IM"], c, INS_STA["ABS"], \h00, \h41>>

(* The code at $8000; the IRQ vector leads behind it, to a jump to itself. *)
Guest(code) ==
  LET n   == Len(code)
      all == code \o <<INS_JMP_ABS, n % 256, \h80 + n \div 256>>
  IN  [o \in 0 .. n + 2 \cup \h7FFC .. \h7FFF |->
        CASE o < n + 3 -> all[o + 1]
          [] o \in {\h7FFC} -> 0
          [] o \in {\h7FFD} -> \h80
          [] o \in {\h7FFE} -> n % 256
          [] OTHER -> \h80 + n \div 256]

(* A repeated character; a CR that is the last store before the end, which *)
(* nobody sees; a NUL in the line; no CR.                                  *)
Printers == { Guest(Put(\h41) \o Put(\h41) \o Put(\h42) \o Put(CR) \o <<INS_NOP>>),
              Guest(Put(\h41) \o Put(0) \o Put(CR) \o Put(\h43) \o Put(CR)),
              Guest(Put(\h41) \o Put(\h42)) }

(* Two characters in turns: more than the buffer holds.                    *)
Endless  == Guest(Put(\h41) \o Put(\h42) \o <<INS_JMP_ABS, \h00, \h80>>)

Guests   == Printers \cup {CustomWozmon, Endless}
Monitor  == {CustomWozmon}
Typed    == {<<\h52>>, <<\h41, \h42, \h43, \h44, \h45>>}

(* custom_wozmon.s:81, "Key ready?": when the monitor tests a status that  *)
(* wozmon write has stored, to "signal the CPU that there is new data      *)
(* ready to be processed" (main.c:137), it finds that there is a key.      *)
KeyReadyIsSeen ==
  [][call = "clock" /\ Running /\ PC = NEXTCHAR_AND /\ A = READY => Z \notin PS']_wvars
=============================================================================
