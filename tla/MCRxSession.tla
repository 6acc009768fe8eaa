---------------------------- MODULE MCRxSession ----------------------------
(***************************************************************************)
(* RxSession for all signals of up to four samples, in buffers of two and  *)
(* with a decimation of three, so that some buffers are empty after the    *)
(* filter and the last one is filled up with zeros.                        *)
(***************************************************************************)
EXTENDS RxSession

ShortSignals == UNION {[1 .. n -> BOOLEAN] : n \in 0 .. 4} \cup
    {<<TRUE, FALSE, TRUE, TRUE, FALSE, FALSE, TRUE>>, <<FALSE, TRUE, TRUE, FALSE, TRUE, FALSE>>}
=============================================================================
