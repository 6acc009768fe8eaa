------------------------------ MODULE SmReceive ------------------------------
(***************************************************************************)
(* One device's state machine fed with an endless stream of thresholded    *)
(* samples, one Sample step per process() call of sm_process().  Any       *)
(* sample value may come next: the stream is noise as well as messages.    *)
(***************************************************************************)
EXTENDS StateMachineRx

VARIABLES
    sm,      \* struct state_machine
    result,  \* what the last process() call returned
    heard    \* history: the bits appended since reset was last entered

rxVars == <<sm, result, heard>>

RxInit ==
    /\ sm = InitialMachine
    /\ result = "no_output"
    /\ heard = <<>>

\* The bits that count towards the current message when a sample begins.
Kept(m, h) == IF m.curr_state = Reset THEN <<>> ELSE h

Sample(b) ==
    \E out \in {Process(sm, b)} :
        /\ sm' = out.sm
        /\ result' = out.result
        /\ heard' = Kept(sm, heard) \o out.appended

RxNext == \E b \in BOOLEAN : Sample(b)

RxSpec == RxInit /\ [][RxNext]_rxVars

\* ookiedokie_rx() hands over samples for as long as the SDR delivers them,
\* so that time passes on a line that does not change.  Nothing is promised
\* of the line: WF_rxVars(RxNext) would be too strong, it makes a pulse come
\* whenever one more equal sample changes nothing.
RxFairSpec == RxSpec /\ WF_rxVars(Sample(sm.prev_bit))

-----------------------------------------------------------------------------
RxTypeOK ==
    /\ sm \in Machine
    /\ result \in Results
    /\ heard \in Seq(AppendActions)

(***************************************************************************)
(* A device description is well formed when it can not append past its     *)
(* last bit: a state entered by an append gives msg_complete its first     *)
(* trigger, as devices/README.md recommends, and so does the state that    *)
(* trigger leads to unless it is reset.  Reset itself appends nothing.     *)
(***************************************************************************)
Guarded(s) ==
    /\ Triggers[s] # <<>>
    /\ Triggers[s][1].condition = "msg_complete"
    /\ Triggers[s][1].duration_us = 0
    /\ Triggers[s][1].action \notin AppendActions

SafeTarget(n) == n = Reset \/ Guarded(n)

WellFormed ==
    /\ \A i \in DOMAIN Triggers[Reset] : Triggers[Reset][i].action \notin AppendActions
    /\ \A s \in States : \A i \in DOMAIN Triggers[s] :
           Triggers[s][i].action \in AppendActions => SafeTarget(Triggers[s][i].next_state)
    /\ \A s \in States : Guarded(s) => SafeTarget(Triggers[s][1].next_state)

\* Data is only output on completion of a message.
OutputsOnCompletion ==
    \A s \in States : \A i \in DOMAIN Triggers[s] :
        Triggers[s][i].action = "output_data" => Triggers[s][i].condition = "msg_complete"

\* No more than num_bits bits are ever aggregated (devices/README.md:188,
\* the test of append_data_bit()).
BitsBounded == sm.num_bits <= MaxBits

\* The buffer holds no 1 beyond the bits of the current message: neither a
\* bit of an earlier message nor one written past the end (memset in
\* process(), state_machine.c:528).
NoResidue == sm.data \subseteq 0 .. sm.num_bits - 1

\* A state with an unconditional timeout trigger is left on time: however
\* the input behaves, the machine never waits there for more than one
\* sample past timeout_us (handle_rx_triggers() clears and advances
\* elapsed_us on disjoint paths).
OnTime(m) ==
    \A i \in DOMAIN Triggers[m.curr_state] :
        LET t == Triggers[m.curr_state][i]
        IN  t.condition = "timeout" /\ t.duration_us = 0 /\ Timeout[m.curr_state] # 0
            => m.elapsed_us < Timeout[m.curr_state] + SampleUs

NoOverstay == OnTime(sm)

\* Output data is announced for a whole message only, and the buffer the
\* formatter will read holds exactly the bits appended since the last reset,
\* in order, least significant bit of byte 0 first.
OutputIsMessage ==
    [][result' = "output_ready" =>
          /\ Len(heard') = MaxBits
          /\ sm'.data = {k \in 0 .. MaxBits - 1 : heard'[k + 1] = "append_1"}]_rxVars

-----------------------------------------------------------------------------
(***************************************************************************)
(* The strengthening of BitsBounded that a step preserves: a full buffer   *)
(* is only ever met in a state whose first trigger takes it away, and the  *)
(* buffer is the record of what was heard.                                 *)
(***************************************************************************)
MessageHeard(m, h) ==
    /\ Len(h) = m.num_bits
    /\ m.data = {i \in 0 .. m.num_bits - 1 : h[i + 1] = "append_1"}

RoomOrSafe(m) ==
    /\ m.num_bits <= MaxBits
    /\ m.num_bits = MaxBits => SafeTarget(m.curr_state)

RxInv == RxTypeOK /\ MessageHeard(sm, heard) /\ RoomOrSafe(sm)
=============================================================================
