----------------------------- MODULE MCRoundTrip -----------------------------
(***************************************************************************)
(* RoundTrip for devices/p3l-nexa2012.json with messages of MaxBits bits.  *)
(***************************************************************************)
EXTENDS ShippedLink

\* The shipped device, this line, rate and array are what the theorems about
\* them ask for.
ASSUME ShippedFits ==
    /\ ShippedDevice /\ RateFits /\ MessageFits /\ LineTolerated /\ Delay >= 1

OneSample == {-1, 0, 1}
=============================================================================
