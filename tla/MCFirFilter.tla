---------------------------- MODULE MCFirFilter ----------------------------
(***************************************************************************)
(* FirFilter for two stages; the taps are 0 but for the last, so that an   *)
(* output is the oldest sample a stage still knows.                        *)
(***************************************************************************)
EXTENDS FirFilter

TwoThree == <<2, 3>>
ThreeTwo == <<3, 2>>
Oldest(t, w) == w[NumTaps[t] - 1]
=============================================================================
