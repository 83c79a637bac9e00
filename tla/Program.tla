------------------------------ MODULE Program ------------------------------
(***************************************************************************)
(* Program ROMs of the repository.                                         *)
(*                                                                         *)
(* program.h, which it ships: fibonacci.s assembled at $8000 and its three *)
(* vectors; the rest of the 32 KB is 0.                                    *)
(*                                                                         *)
(* custom_wozmon.s assembled at $FF00: what runs until the monitor has a   *)
(* key, and ECHO.  The code behind BNE NOTCR needs a key and is 0 here.    *)
(***************************************************************************)
EXTENDS Bytes, Sequences

FibonacciCode ==
  << \hA2, \h01,          \* start: ldx #$01
     \h86, \h00,          \*        stx $00
     \h38,                \*        sec
     \hA0, \h0D,          \*        ldy #$0D
     \h98,                \*        tya
     \hE9, \h03,          \*        sbc #$03
     \hA8,                \*        tay
     \h18,                \*        clc
     \hA9, \h02,          \*        lda #$02
     \h85, \h01,          \*        sta $01
     \hA6, \h01,          \* loop:  ldx $01
     \h65, \h00,          \*        adc $00
     \h85, \h01,          \*        sta $01
     \h86, \h00,          \*        stx $00
     \h88,                \*        dey
     \hD0, \hF5,          \*        bne loop
     \h8A,                \*        txa
     \hC9, \hE9,          \*        cmp #$E9
     \hF0, \h01,          \*        beq irq
     \h00,                \*        brk
     \h4C, \h21, \h80 >>  \* irq:   jmp irq

(* nmi, start, irq *)
FibonacciVectors == << \h21, \h80, \h00, \h80, \h21, \h80 >>

Fibonacci ==
  [o \in 0 .. Len(FibonacciCode) - 1 \cup \h7FFA .. \h7FFF |->
     IF o < \h7FFA THEN FibonacciCode[o + 1] ELSE FibonacciVectors[o - \h7FF9]]

MonitorCode ==
  << \h4C, \h00, \hFF,    \* IRQ:      jmp IRQ
     \hA9, \h1B,          \* RESET:    lda #$1B
     \hC9, \h08,          \* NOTCR:    cmp #$08
     \hF0, \h13,          \*           beq BACKSPACE
     \hC9, \h1B,          \*           cmp #$1B
     \hF0, \h03,          \*           beq ESCAPE
     \hC8,                \*           iny
     \h10, \h0F,          \*           bpl NEXTCHAR
     \hA9, \h5C,          \* ESCAPE:   lda #$5C
     \h20, \hE8, \hFF,    \*           jsr ECHO
     \hA9, \h0D,          \* GETLINE:  lda #$0D
     \h20, \hE8, \hFF,    \*           jsr ECHO
     \hA0, \h01,          \*           ldy #$01
     \h88,                \* BACKSPACE: dey
     \h30, \hF6,          \*           bmi GETLINE
     \hAD, \h01, \h41,    \* NEXTCHAR: lda ACIA_STATUS
     \h29, \h08,          \*           and #$08
     \hF0, \hF9,          \*           beq NEXTCHAR
     \hAD, \h00, \h41,    \*           lda ACIA_DATA
     \h99, \h00, \h02,    \*           sta IN,y
     \h20, \hE8, \hFF,    \*           jsr ECHO
     \hC9, \h0D,          \*           cmp #$0D
     \hD0, \hD2 >>        \*           bne NOTCR

EchoCode ==
  << \h48,                \* ECHO:     pha
     \h8D, \h00, \h41,    \*           sta ACIA_DATA
     \h68,                \*           pla
     \h60 >>              \*           rts

(* $0F00, RESET, $80C0 *)
MonitorVectors == << \h00, \h0F, \h03, \hFF, \hC0, \h80 >>

NEXTCHAR_AND == \hFF22    \* the address of "and #$08 ; Key ready?"

CustomWozmon ==
  LET codeAt == \h7F00
      echoAt == \h7FE8
      vectorsAt == \h7FFA
  IN  [o \in codeAt .. codeAt + Len(MonitorCode) - 1
         \cup echoAt .. echoAt + Len(EchoCode) - 1
         \cup vectorsAt .. \h7FFF |->
        IF o < echoAt THEN MonitorCode[o - codeAt + 1]
        ELSE IF o < vectorsAt THEN EchoCode[o - echoAt + 1]
        ELSE MonitorVectors[o - vectorsAt + 1]]
=============================================================================
