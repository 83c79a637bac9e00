------------------------------ MODULE MCShell ------------------------------
(***************************************************************************)
(* The shell with the program ROM that the repository ships, and with one  *)
(* that takes fibonacci.s's exit for a wrong result.                       *)
(***************************************************************************)
EXTENDS Shell, Program

DefaultBuild == 0
PastBytes    == {0}
Shipped      == {Fibonacci}
FewCycles    == {0, 1, 9}

(* The last two addresses, and a range that is refused.                    *)
FewRanges    == {<<\hFFFE, \hFFFF>>, <<1, 0>>}

(* start: brk *)
WrongResult  == {[Fibonacci EXCEPT ![0] = INS_BRK]}
=============================================================================
