----------------------------- MODULE ShippedLink -----------------------------
(***************************************************************************)
(* RoundTrip for devices/p3l-nexa2012.json: what a sample rate, a line and *)
(* an array of samples have to see to for its messages to arrive, whatever *)
(* their length.                                                           *)
(***************************************************************************)
EXTENDS RoundTrip, NexaDevice

\* The states of the shipped device, with messages of MaxBits bits.
ShippedDevice ==
    /\ States = NexaStates /\ Reset = "reset" /\ Triggers = NexaTriggers
    /\ Duration = NexaDuration /\ Timeout = NexaTimeout

\* How long its pulses last, the pause that follows the first of them, and the
\* gap that stands for a bit.
PulseTime == Ticks(500)
PauseTime == Ticks(8700)
GapTime(b) == Ticks(IF b THEN 4000 ELSE 2000)

LineDurations == {PulseTime, PauseTime, GapTime(FALSE), GapTime(TRUE)}

\* What the line makes of a pulse or gap is within the tolerance of the
\* receiver, which counts the samples after the first, and has a sample left
\* after the first: the last pulse of a message needs two to be read.
LineTolerated ==
    \A d \in LineDurations : \A j \in Jitter :
        /\ SampleCount(d) + j >= 2
        /\ MatchesDuration((SampleCount(d) + j - 1) * SampleUs, d)

\* The samples before the first bit, with the pulse that starts it, and at
\* most those of a bit.
LeadSamples == 2 * SampleCount(PulseTime) + SampleCount(PauseTime)
BitSamples == SampleCount(GapTime(TRUE)) + SampleCount(PulseTime)

\* What is written at a time fits in an array that is doubled once: up to 3.56
\* million samples per second with the 16384 samples of the code, the default
\* of 3 million included, where the pause alone does not fit in 16384.
RateFits ==
    /\ SampleCount(PulseTime) <= InitialAlloc
    /\ \A b \in BOOLEAN : SampleCount(GapTime(b)) <= InitialAlloc
    /\ SampleCount(PulseTime) + SampleCount(PauseTime) <= 2 * InitialAlloc

\* Half of UINT_MAX is enough for the whole message, so that the array can
\* still be doubled.
MessageFits == 2 * (LeadSamples + MaxBits * BitSamples) <= UintMax
=============================================================================
