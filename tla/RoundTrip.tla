------------------------------ MODULE RoundTrip ------------------------------
(***************************************************************************)
(* A message generated by sm_generate(), sent Copies times by              *)
(* ookiedokie_tx() with a delay before each copy and a flush after the     *)
(* last, over an ideal radio into the receive machine of another           *)
(* ookiedokie that uses the same device description.  The radio and the    *)
(* threshold may lengthen or shorten every pulse and every gap by a few    *)
(* samples (Jitter).                                                       *)
(***************************************************************************)
EXTENDS SmGenerate

CONSTANTS
    Copies,     \* cfg->tx_count
    Delay,      \* zero samples before each copy, from cfg->tx_delay_us
    Flush,      \* zero samples sent by sdr_flush()
    Jitter      \* what the channel may add to the length of a run

ASSUME LinkAssumption ==
    /\ Copies \in Nat \ {0} /\ Delay \in Nat /\ Flush \in Nat
    /\ Jitter \subseteq Int

VARIABLES
    copy,       \* copies sent completely
    run,        \* run of the signal on the air, 0 for the delay before it
    left,       \* samples of it still to come
    rx,         \* the receiver's struct state_machine
    received    \* the data buffer at each OUTPUT_READY

lineVars == <<copy, run, left>>
rxVars == <<rx, received>>
rtVars == <<txVars, lineVars, rxVars>>

RTInit ==
    /\ Init
    /\ copy = 0 /\ run = 0 /\ left = Delay
    /\ rx = InitialMachine /\ received = <<>>

Generate == HandleTx /\ UNCHANGED <<lineVars, rxVars>>

\* The value on the air: zeros in the delay and in the flush.
OnAir == run > 0 /\ runs[run].value

Send ==
    /\ pc = "done" /\ left > 0
    /\ LET out == Process(rx, OnAir)
       IN  /\ rx' = out.sm
           /\ received' = IF out.result = "output_ready"
                          THEN Append(received, out.sm.data) ELSE received
    /\ left' = left - 1
    /\ UNCHANGED <<txVars, copy, run>>

\* Mutant: no delay between the copies.
NextRunNoDelay ==
    /\ pc = "done" /\ left = 0 /\ copy < Copies
    /\ IF run < Len(runs)
       THEN /\ run' = run + 1
            /\ \E j \in Jitter : left' = runs[run + 1].length + j
            /\ UNCHANGED copy
       ELSE /\ run' = 0
            /\ copy' = copy + 1
            /\ left' = IF copy + 1 = Copies THEN Flush ELSE 0
    /\ UNCHANGED <<txVars, rxVars>>

NextRun ==
    /\ pc = "done" /\ left = 0 /\ copy < Copies
    /\ IF run < Len(runs)
       THEN /\ run' = run + 1
            /\ \E j \in Jitter : left' = runs[run + 1].length + j
            /\ UNCHANGED copy
       ELSE /\ run' = 0
            /\ copy' = copy + 1
            /\ left' = IF copy + 1 = Copies THEN Flush ELSE Delay
    /\ UNCHANGED <<txVars, rxVars>>

RTNext == Generate \/ Send \/ NextRun

RTSpec == RTInit /\ [][RTNext]_rtVars /\ WF_rtVars(RTNext)

-----------------------------------------------------------------------------
\* The receiver is back in its waiting state before the next copy starts,
\* whatever was on the air before.
ReadyForNextCopy ==
    run = 0 /\ left = 0 /\ copy < Copies => rx.curr_state = "idle" /\ ~rx.prev_bit

\* Transmitter and receiver together implement MessageLink.
BitsOf(d) == [k \in 1 .. MaxBits |-> (k - 1) \in d]
Link == INSTANCE MessageLink
            WITH Messages <- [1 .. MaxBits -> BOOLEAN],
                 delivered <- [k \in DOMAIN received |-> BitsOf(received[k])]
ImplementsLink == Link!Spec
=============================================================================
