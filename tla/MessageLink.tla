----------------------------- MODULE MessageLink -----------------------------
(***************************************************************************)
(* What transmitting with one ookiedokie and receiving with another        *)
(* promises: the receiver prints the message once for each copy that is    *)
(* sent, unchanged, and nothing else.                                      *)
(***************************************************************************)
EXTENDS Naturals, Sequences

CONSTANTS Messages, Copies

VARIABLES message, delivered

linkVars == <<message, delivered>>

Init == message \in Messages /\ delivered = <<>>

Deliver ==
    /\ Len(delivered) < Copies
    /\ delivered' = Append(delivered, message)
    /\ UNCHANGED message

\* What is delivered, without the promise that it is.
SafeSpec == Init /\ [][Deliver]_linkVars

Spec == SafeSpec /\ WF_linkVars(Deliver)
=============================================================================
