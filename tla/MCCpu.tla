------------------------------- MODULE MCCpu -------------------------------
(***************************************************************************)
(* Program ROMs for the CPU core.  A ROM is given by its code, placed at   *)
(* $8000; the vectors lead there and, for BRK, to a jump to itself.        *)
(***************************************************************************)
EXTENDS CpuProperties

DefaultBuild == 0
PastBytes    == {0}

HandlerAt == \h1000
Fixed == [o \in HandlerAt .. HandlerAt + 2 \cup \h7FFC .. \h7FFF |->
            CASE o = HandlerAt       -> INS_JMP_ABS
              [] o = HandlerAt + 2   -> \h90
              [] o \in {\h7FFD}      -> \h80
              [] o \in {\h7FFF}      -> \h90
              [] OTHER               -> 0]

Rom(code) == [o \in 0 .. Len(code) - 1 \cup DOMAIN Fixed |->
                IF o \in DOMAIN Fixed THEN Fixed[o] ELSE code[o + 1]]

(* Any opcode, in a state where registers, carry and stack are set up, and *)
(* behind a store that leaves an address in the local addr.                *)
Probe(a, x, y, op, lo, hi) ==
  Rom(<<INS_LDX["IM"], x, INS_LDY["IM"], y, INS_LDA["IM"], a,
        INS_PHA, INS_PHA, INS_PHA,
        INS_STA["ABS"], 7, 0, op, lo, hi, INS_JMP_ABS, 0, \h90>>)

(* Page crossings, a zero page pointer at $FF, a ROM store that lands in   *)
(* RAM; a store outside data[].                                            *)
Probes == {Probe(\hFF, \hFF, 1, op, \hFF, \h02) : op \in Byte}
     \cup {Probe(\h00, 1, \hFF, op, \h10, \h80) : op \in Byte}
     \cup {Probe(\h80, 0, 0, op, \h00, \hC0) : op \in {INS_STA["ABS"], INS_JSR}}
     \cup {Rom(<<f, INS_PHP, op, INS_NOP, \h4C, 0, \h90>>) :
              f \in {\h58, \h78}, op \in {INS_PHP, INS_PLP, \h58, \h78}}

(* 126 calls, each to the instruction behind it, and a push bring SP to    *)
(* $00: of the two bytes of the last call one lies at each end of the      *)
(* stack page, and its return pulls them from there.                       *)
CallNext(n) == LET next == \h8000 + 3 * n IN <<INS_JSR, Lo(next), Page(next)>>
Calls   == [k \in 1 .. 3 * 126 |-> CallNext((k + 2) \div 3)[((k - 1) % 3) + 1]]
AtWrap  == \h8000 + Len(Calls)
FullStack == Rom(Calls \o <<INS_PHA, INS_JSR, Lo(AtWrap + 7), Page(AtWrap + 7),
                            INS_JMP_ABS, 0, \h90, INS_RTS>>)

ProbeRequests == {0, 20}

(* An addition, a subtraction or a comparison of two bytes.                *)
Edges == {0, 1, \h7F, \h80, \h81, \hFF}
Sums == {Rom(<<INS_LDA["IM"], a, carry, op, m, INS_JMP_ABS, 0, \h90>>) :
           a \in Edges, m \in Edges, carry \in {\h18, \h38}, op \in {\h69, \hE9}}

(* All of them in one run.                                                 *)
ProbesAndSums == Probes \cup Sums \cup {FullStack}

SumRequests == {2}

(* CLV, and (zp,X) with its pointer at $FF, where the zero page ends.      *)
ClearV     == {Rom(<<INS_CLV, INS_JMP_ABS, 0, \h90>>)}
WrapAround == {Rom(<<INS_LDX["IM"], 1, INS_LDA["IM"], 5, INS_STA["ZP"], 0,
                     INS_LDA["INDX"], \hFE, INS_LDA["INDX"], \hFF,
                     INS_JMP_ABS, 0, \h90>>)}
=============================================================================
