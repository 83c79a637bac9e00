------------------------------- MODULE MCBus -------------------------------
(***************************************************************************)
(* Instances of BusClient: addresses at both ends of every window, at two  *)
(* mirrors of the same register and at equal offsets of two devices.       *)
(***************************************************************************)
EXTENDS BusClient

ExpansionBuild == \h2000
DefaultBuild   == 0

TwoValues == {\h42, \hFF}
PastBytes == {0, \hA5}
OnePast   == {0}                \* for addresses that never read behind
NoProgram == {[o \in {} |-> 0]}

MapBytes == {\h0000, \h1801, \h2007, \h3FFF, \h7FFF}
MapWords == {\h0800, \h5FFF, \h7FFE}

WindowEnds   == {\h0000, \h1FFF, \h2000, \h3FFF, \h4000, \h5FFF,
                 \h6000, \h7FFF, \h8000, \hFFFF}
WindowWords  == {\h5FFF, \h7FFE, \h7FFF}

AliasBytes == {\h4100, \h6100}
RomBytes   == {\h000B, \h8000}
None       == {}
=============================================================================
