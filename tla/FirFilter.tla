----------------------------- MODULE FirFilter -----------------------------
(***************************************************************************)
(* The cascade of decimating FIR stages of src/src/fir.c.  A stage has a   *)
(* state buffer twice as long as the filter, two insertion points in it    *)
(* (ins2 is always NumTaps after ins1) and a decimation countdown; the     *)
(* outputs of a stage are the input of the next.  One Insert step is one   *)
(* turn of the loop of perform_stage(), and a Call to Return one call of   *)
(* fir_filter_and_decimate().                                              *)
(*                                                                         *)
(* What the convolution computes from the samples it reads is Convolve, of *)
(* which nothing is assumed.                                               *)
(***************************************************************************)
EXTENDS Integers, Sequences

CONSTANTS
    Decimations,    \* decimation of each stage
    NumTaps,        \* num_taps of each stage
    MaxInput,       \* max_input of fir_init(), samples_per_buffer
    Samples, Zero,
    Convolve(_, _)  \* stage and samples, newest first, to a sample

Stages == DOMAIN Decimations
Taps(t) == 0 .. NumTaps[t] - 1
Positions(t) == 0 .. 2 * NumTaps[t] - 1

\* What fir_init() sees to.
ASSUME FilterAssumption ==
    /\ Decimations \in Seq(Nat \ {0}) /\ Decimations # <<>>
    /\ NumTaps \in [Stages -> Nat \ {0}]
    /\ MaxInput \in Nat \ {0}
    /\ Zero \in Samples
    /\ \A t \in Stages : \A w \in [Taps(t) -> Samples] : Convolve(t, w) \in Samples

VARIABLES
    state,      \* stages[t].state
    ins1,       \* index of stages[t].ins1 in it
    count,      \* stages[t].count, samples to go to the next output
    s,          \* the stage that is performed, 0 between calls
    input,      \* samples it was not given yet
    output,     \* samples it has put out in this call
    window,     \* history: the last NumTaps samples of each stage, newest first
    phase,      \* history: samples given in all calls, modulo the total decimation
    due         \* history: outputs due from the last call

stageVars == <<state, ins1, count, window>>
vars == <<stageVars, s, input, output, phase, due>>

\* total_decimation once stage t is loaded.
DecimationTo[t \in 0 .. Len(Decimations)] ==
    IF t = 0 THEN 1 ELSE DecimationTo[t - 1] * Decimations[t]
TotalDecimation == DecimationTo[Len(Decimations)]

\* Mutant: rounded down.
OutputLenFloor(t) == MaxInput \div DecimationTo[t]

\* The output buffer of stage t: the ceiling of max_input / total_decimation.
OutputLen(t) == (MaxInput + DecimationTo[t] - 1) \div DecimationTo[t]

-----------------------------------------------------------------------------
\* fir_reset()
Init ==
    /\ state = [t \in Stages |-> [p \in Positions(t) |-> Zero]]
    /\ ins1 = [t \in Stages |-> 0]
    /\ count = Decimations
    /\ s = 0
    /\ input = <<>>
    /\ output = <<>>
    /\ window = [t \in Stages |-> [k \in Taps(t) |-> Zero]]
    /\ phase = 0
    /\ due = 0

\* Mutant: the countdowns start again in every call.
CallAfresh(samples) ==
    /\ s = 0
    /\ s' = 1
    /\ input' = samples
    /\ output' = <<>>
    /\ phase' = (phase + Len(samples)) % TotalDecimation
    /\ due' = (phase + Len(samples)) \div TotalDecimation
    /\ count' = Decimations
    /\ UNCHANGED <<state, ins1, window>>

\* fir_filter_and_decimate() is entered with the samples of a buffer.
Call(samples) ==
    /\ s = 0
    /\ s' = 1
    /\ input' = samples
    /\ output' = <<>>
    /\ phase' = (phase + Len(samples)) % TotalDecimation
    /\ due' = (phase + Len(samples)) \div TotalDecimation
    /\ UNCHANGED stageVars

\* Mutant: only one of the insertion points is written.
InsertedOnce(x) == [state[s] EXCEPT ![ins1[s] + NumTaps[s]] = x]

Inserted(x) == [state[s] EXCEPT ![ins1[s]] = x, ![ins1[s] + NumTaps[s]] = x]

\* Mutant: the loop runs forwards from ins1.
ConvolvedForwards(st) == [k \in Taps(s) |-> st[ins1[s] + k]]

\* The convolution loop: from ins2 backwards.
Convolved(st) == [k \in Taps(s) |-> st[ins1[s] + NumTaps[s] - k]]

\* update(): ins2 wraps when it reaches the end of the buffer.
Advanced == IF ins1[s] + 1 + NumTaps[s] = 2 * NumTaps[s] THEN 0 ELSE ins1[s] + 1

Shifted(x) == [k \in Taps(s) |-> IF k = 0 THEN x ELSE window[s][k - 1]]

\* The countdown of update(), and the output when it reaches 0.
Count(st) ==
    IF count[s] - 1 = 0
    THEN /\ output' = Append(output, Convolve(s, Convolved(st)))
         /\ count' = [count EXCEPT ![s] = Decimations[s]]
    ELSE /\ count' = [count EXCEPT ![s] = @ - 1]
         /\ UNCHANGED output

\* One turn of perform_stage(), with update().
Insert ==
    /\ s \in Stages /\ input # <<>>
    /\ Count(Inserted(Head(input)))
    /\ state' = [state EXCEPT ![s] = Inserted(Head(input))]
    /\ ins1' = [ins1 EXCEPT ![s] = Advanced]
    /\ window' = [window EXCEPT ![s] = Shifted(Head(input))]
    /\ input' = Tail(input)
    /\ UNCHANGED <<s, phase, due>>

\* perform_stage() returns: its outputs are the input of the next stage.
NextStage ==
    /\ s \in Stages /\ input = <<>> /\ s < Len(Decimations)
    /\ s' = s + 1
    /\ input' = output
    /\ output' = <<>>
    /\ UNCHANGED <<stageVars, phase, due>>

Return ==
    /\ s = Len(Decimations) /\ input = <<>>
    /\ s' = 0
    /\ UNCHANGED <<stageVars, input, output, phase, due>>

Next ==
    \/ \E n \in 0 .. MaxInput : \E samples \in [1 .. n -> Samples] : Call(samples)
    \/ Insert \/ NextStage \/ Return

Spec == Init /\ [][Next]_vars

-----------------------------------------------------------------------------
TypeOK ==
    /\ DOMAIN state = Stages /\ \A t \in Stages : state[t] \in [Positions(t) -> Samples]
    /\ DOMAIN ins1 = Stages /\ \A t \in Stages : ins1[t] \in Taps(t)
    /\ DOMAIN count = Stages /\ \A t \in Stages : count[t] \in 1 .. Decimations[t]
    /\ s \in 0 .. Len(Decimations)
    /\ input \in Seq(Samples) /\ output \in Seq(Samples)
    /\ DOMAIN window = Stages /\ \A t \in Stages : window[t] \in [Taps(t) -> Samples]

\* What the loop of update() would read in stage t for tap k, before an
\* insertion.
Behind(t, k) == state[t][ins1[t] + NumTaps[t] - 1 - k]

\* The doubled buffer never has to be shifted: behind the insertion point
\* ins2 lie the last NumTaps samples of the stage in order, without a seam
\* where the insertion points wrapped or a call ended (the comment of
\* fir.c:49).
BufferIsWindow == \A t \in Stages : \A k \in Taps(t) : Behind(t, k) = window[t][k]

\* Every output is computed from the newest samples of its stage, each at
\* its tap.
OutputFromWindow ==
    [][Len(output') > Len(output) => output' = Append(output, Convolve(s, window'[s]))]_vars

\* No stage writes past the end of its output buffer, wherever the calls
\* before left the countdowns (fir.c:197; perform_stage() has no bound).
FitsOutput == s # 0 => Len(output) <= OutputLen(s)

\* The cascade as a whole is one decimation by the product: however the
\* stream is cut into calls, no call yields an output more or less than the
\* position in the stream says, so that the sample rate handed to
\* device_init() is that of the samples the state machine counts.
DecimatesEvenly == s = 0 => Len(output) = due

\* The two halves of a buffer hold the same samples (fir.c:344); with it
\* BufferIsWindow is preserved by every step.
Doubled == \A t \in Stages : \A k \in Taps(t) : state[t][k + NumTaps[t]] = state[t][k]
=============================================================================
