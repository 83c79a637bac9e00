------------------------------ MODULE MCLoader ------------------------------
(***************************************************************************)
(* Files for the PRG loader.                                               *)
(***************************************************************************)
EXTENDS PrgLoader

DefaultBuild == 0
PastBytes    == {0}
NoProgram    == {[o \in {} |-> 0]}

At2(a, d) == [load_address |-> a, data |-> d]

(* The three segments of the loader's own test program.                    *)
Demo == << At2(\h8000, <<\hDE, \hAD, \hBE, \hEF, 0>>),
           At2(\h9000, <<\hBA, \hAD, \hF0, \h0D, 1, 2, 3, 4>>),
           At2(\hA000, <<\hFE, \hED, \hFA, \hCE, 5, 6, 7, 8, 9, 10>>) >>

Count(n) == [j \in 1 .. n |-> \h10 + j]

(* Two neighbours in both orders, lines that just fit and just do not, the *)
(* PPU's eight registers, a segment that runs into the program ROM, a RAM  *)
(* mirror, an empty segment, and one that no storage lies behind.          *)
Lists == { Demo,
           << At2(\h0300, <<\hA1, \hA2>>), At2(\h0302, <<\hA3>>) >>,
           << At2(\h0B02, <<\hB3>>), At2(\h0300, <<\hB1, \hB2>>) >>,
           << At2(\h6000, Count(18)), At2(\h6012, <<\hC1>>), At2(\h0000, Count(19)) >>,
           << At2(\h2000, Count(9)), At2(\h7FFF, <<\hD1, \hD2>>), At2(\h0303, <<>>) >>,
           << At2(\hC000, <<\hE1>>) >> }

(* Enough, and a disk that cuts a line behind the first digit of a byte.   *)
Roomy == {45, 500}
=============================================================================
