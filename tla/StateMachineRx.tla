--------------------------- MODULE StateMachineRx ---------------------------
(***************************************************************************)
(* The receive half of src/src/state_machine.c as operators: what one call *)
(* of process() does to a struct state_machine when it is handed one       *)
(* thresholded sample.  A device description (devices/*.json) is given by  *)
(* the constants; SmReceive, DeviceProcess and RoundTrip run the machine.  *)
(*                                                                         *)
(* Abstractions.  Times are integers, all in the unit of SampleUs: a       *)
(* microsecond, or a part of it small enough for a sample to be a whole    *)
(* number of them; 15% is computed exactly rather than in float.           *)
(* elapsed_us saturates at ElapsedCap, beyond every duration window and    *)
(* timeout of the device, and num_bits at MaxBits + 1: the code only       *)
(* compares them with smaller numbers.  The data buffer is the set of bit  *)
(* positions that hold a 1.  The `default:` branches on an invalid         *)
(* condition or action are left out: sm_initialized() rejects such a       *)
(* machine (module SmBuild).                                               *)
(***************************************************************************)
EXTENDS Integers, Sequences, FiniteSetsExt

CONSTANTS
    States,     \* the states of the device
    Reset,      \* states[STATE_RESET]
    Triggers,   \* Triggers[s]: the triggers of s, in the order of the JSON array
    Duration,   \* Duration[s]: duration_us of s, 0 for "any"
    Timeout,    \* Timeout[s]: timeout_us of s, 0 for "none"
    MaxBits,    \* num_bits of the device
    SampleUs,   \* length of one sample
    ElapsedCap  \* where the model stops counting elapsed_us

Conditions == {"always", "pulse_start", "pulse_end", "timeout", "msg_complete"}
AppendActions == {"append_0", "append_1"}
Actions == AppendActions \cup {"none", "output_data"}
Results == {"error", "no_output", "output_ready"}

Trigger == [condition : Conditions, duration_us : Nat,
            action : Actions, next_state : States]

ASSUME DeviceAssumption ==
    /\ Reset \in States
    /\ Triggers \in [States -> Seq(Trigger)]
    /\ Duration \in [States -> Nat]
    /\ Timeout \in [States -> Nat]
    /\ MaxBits \in Nat \ {0}              \* sm_init() refuses 0
    /\ SampleUs \in Nat \ {0}
    /\ ElapsedCap \in Nat

\* The saturation of elapsed_us can not be told from the unbounded counter.
ASSUME CapAssumption ==
    \A s \in States :
        /\ ElapsedCap > Timeout[s]
        /\ 100 * ElapsedCap > 115 * Duration[s]
        /\ \A i \in DOMAIN Triggers[s] :
               100 * ElapsedCap > 115 * Triggers[s][i].duration_us

-----------------------------------------------------------------------------
\* The bit positions of the buffer of (max_bits + 7) / 8 bytes.
BufferBits == 0 .. (8 * ((MaxBits + 7) \div 8) - 1)

\* struct state_machine.  append_data_bit() may write position max_bits too.
Machine == [curr_state : States, num_bits : 0 .. MaxBits + 1,
            data : SUBSET (BufferBits \cup {MaxBits}),
            prev_bit : BOOLEAN, elapsed_us : 0 .. ElapsedCap]

\* The machine sm_init() returns; calloc() cleared it.
InitialMachine == [curr_state |-> Reset, num_bits |-> 0, data |-> {},
                   prev_bit |-> FALSE, elapsed_us |-> 0]

-----------------------------------------------------------------------------
\* Within TOLERANCE of duration d; 0 means any duration.
MatchesDuration(elapsed, d) ==
    \/ d = 0
    \/ 85 * d <= 100 * elapsed /\ 100 * elapsed <= 115 * d

\* The state's own duration is only checked on a pulse edge.
MatchesStateDuration(m, t) ==
    \/ t.condition \notin {"pulse_start", "pulse_end"}
    \/ MatchesDuration(m.elapsed_us, Duration[m.curr_state])

\* Mutant: msg_complete tests num_bits > max_bits.
ConditionHoldsLateComplete(m, b, t) ==
    CASE t.condition = "always"       -> TRUE
      [] t.condition = "pulse_start"  -> ~m.prev_bit /\ b
      [] t.condition = "pulse_end"    -> m.prev_bit /\ ~b
      [] t.condition = "timeout"      -> /\ Timeout[m.curr_state] # 0
                                         /\ m.elapsed_us >= Timeout[m.curr_state]
      [] t.condition = "msg_complete" -> m.num_bits > MaxBits

\* Mutant: a timeout is only due once it has passed.
ConditionHoldsLateTimeout(m, b, t) ==
    CASE t.condition = "always"       -> TRUE
      [] t.condition = "pulse_start"  -> ~m.prev_bit /\ b
      [] t.condition = "pulse_end"    -> m.prev_bit /\ ~b
      [] t.condition = "timeout"      -> /\ Timeout[m.curr_state] # 0
                                         /\ m.elapsed_us > Timeout[m.curr_state]
      [] t.condition = "msg_complete" -> m.num_bits >= MaxBits

ConditionHolds(m, b, t) ==
    CASE t.condition = "always"       -> TRUE
      [] t.condition = "pulse_start"  -> ~m.prev_bit /\ b
      [] t.condition = "pulse_end"    -> m.prev_bit /\ ~b
      [] t.condition = "timeout"      -> /\ Timeout[m.curr_state] # 0
                                         /\ m.elapsed_us >= Timeout[m.curr_state]
      [] t.condition = "msg_complete" -> m.num_bits >= MaxBits

\* The triggers of the current state that sample b satisfies.
Satisfied(m, b) ==
    {i \in DOMAIN Triggers[m.curr_state] :
        LET t == Triggers[m.curr_state][i]
        IN  MatchesDuration(m.elapsed_us, t.duration_us) /\ ConditionHolds(m, b, t)}

\* Mutant: the byte is found with num_bits in place of num_bits / 8.
AppendDataBitByteIndex(m, action) ==
    IF m.num_bits <= MaxBits
    THEN IF action = "append_1" THEN m.data \cup {8 * m.num_bits + (m.num_bits % 8)} ELSE m.data
    ELSE m.data

\* The data buffer after an attempt to append a bit: the test is <=, so a
\* full buffer still takes one bit, and the caller drops the false result.
AppendDataBit(m, action) ==
    IF m.num_bits <= MaxBits
    THEN IF action = "append_1" THEN m.data \cup {m.num_bits} ELSE m.data \ {m.num_bits}
    ELSE m.data

HandleActions(m, t) ==
    IF t.action \in AppendActions
    THEN [m EXCEPT !.data = AppendDataBit(m, t.action),
                   !.num_bits = IF m.num_bits > MaxBits THEN @ ELSE @ + 1]
    ELSE m

\* What handle_rx_triggers() leaves in the machine, what it returns, and the
\* append it performed, if any.
Outcome(m, r, bits) == [sm |-> m, result |-> r, appended |-> bits]

\* The first trigger that is satisfied wins.
ActiveTrigger(m, b) == Triggers[m.curr_state][Min(Satisfied(m, b))]

\* Mutant: elapsed_us is assigned, not advanced.
WaitAssigned(m) == [m EXCEPT !.elapsed_us = SampleUs]

\* No trigger is active: the sample only lengthens the stay in this state.
Wait(m) == [m EXCEPT !.elapsed_us = IF @ + SampleUs > ElapsedCap
                                    THEN ElapsedCap ELSE @ + SampleUs]

\* An edge at the wrong time: "Resetting state machine."
Abort(m) == [m EXCEPT !.curr_state = Reset, !.elapsed_us = 0]

Fire(m, t) == [HandleActions(m, t) EXCEPT !.curr_state = t.next_state, !.elapsed_us = 0]

HandleRxTriggers(m, b) ==
    LET t == ActiveTrigger(m, b)
    IN  IF Satisfied(m, b) = {}
        THEN Outcome(Wait(m), "no_output", <<>>)
        ELSE IF ~MatchesStateDuration(m, t)
        THEN Outcome(Abort(m), "error", <<>>)
        ELSE Outcome(Fire(m, t),
                     IF t.action = "output_data" THEN "output_ready" ELSE "no_output",
                     IF t.action \in AppendActions THEN <<t.action>> ELSE <<>>)

\* Mutant: the buffer is not cleared.
ClearMessageNoMemset(m) == [m EXCEPT !.num_bits = 0]

\* Mutant: num_bits is not reset.
ClearMessageKeepsCount(m) == [m EXCEPT !.data = @ \ BufferBits]

\* Entering a sample in reset: forget the message.
ClearMessage(m) == [m EXCEPT !.num_bits = 0, !.data = @ \ BufferBits]

\* process() and the update of prev_bit that follows it in sm_process().
\* Reset is left on the sample that finds the machine there, and the next
\* state sees that same sample.
Process(m, b) ==
    LET first  == HandleRxTriggers(ClearMessage(m), b)
        second == HandleRxTriggers(first.sm, b)
        out == IF m.curr_state # Reset THEN HandleRxTriggers(m, b)
               ELSE IF first.result # "no_output" THEN first
               ELSE Outcome(second.sm, second.result, first.appended \o second.appended)
    IN  Outcome([out.sm EXCEPT !.prev_bit = b], out.result, out.appended)
=============================================================================
