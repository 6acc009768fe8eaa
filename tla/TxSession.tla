----------------------------- MODULE TxSession -----------------------------
(***************************************************************************)
(* The transmitting half of a run: ookiedokie_tx() of src/src/ookiedokie.c *)
(* over sdr_tx() of the back ends sdr/bladeRF.c and sdr/bladeRF_file.c.    *)
(* Every sdr_tx() call is cut into chunks of the conversion buffer.  The   *)
(* file back end writes a chunk to its file.  The samples for the radio go *)
(* into the buffers of libbladeRF (external), of which only full ones are  *)
(* ever handed to the hardware, and bladerf_sync_tx() waits while all are  *)
(* full.  Module Program opens the SDR, takes these steps, and closes it.  *)
(***************************************************************************)
EXTENDS Integers, Sequences

CONSTANTS
    SamplesPerBuffer,   \* cfg->samples_per_buffer
    NumBuffers,         \* cfg->num_buffers
    DelaySamples,       \* cfg->samplerate * cfg->tx_delay_us / 1000000
    MessageSamples,     \* num_samples of device_generate()
    TxCount             \* cfg->tx_count

ASSUME TxAssumption ==
    /\ {SamplesPerBuffer, NumBuffers, MessageSamples} \subseteq Nat \ {0}
    /\ {DelaySamples, TxCount} \subseteq Nat

VARIABLES
    sdr,        \* the back end that is open, NULL if none
    pc,         \* the call that runs: "generate", "delay", "message", "flush", "returned"
    status,     \* what ookiedokie_tx() returns
    copy,       \* i, copies sent
    total,      \* total_written of this sdr_tx() call
    chunk,      \* samples of the chunk not yet taken by bladerf_sync_tx()
    tape,       \* history: every sample handed to libbladeRF, or the file
    radiated    \* how many of them the hardware has sent

txVars == <<pc, status, copy, total, chunk, tape, radiated>>

NULL == "NULL"
Interfaces == {"bladerf", "bladerf_file"}

\* Mutant: one buffer only.
BufLenOne == SamplesPerBuffer

\* Length of the conversion buffer sdr->buf of the back end.
BufLen == IF sdr = "bladerf" THEN (NumBuffers + 1) * SamplesPerBuffer ELSE SamplesPerBuffer

TxInit ==
    /\ pc = "generate"
    /\ status = "unset"
    /\ copy = 0
    /\ total = 0
    /\ chunk = 0
    /\ tape = <<>>
    /\ radiated = 0

\* Start an sdr_tx() call, or the flush; both begin with nothing written.
Call(label) ==
    /\ pc' = label
    /\ total' = 0
    /\ chunk' = 0

TxReturn(s) ==
    /\ pc' = "returned"
    /\ status' = s
    /\ UNCHANGED <<total, chunk>>

\* Mutant: one copy too many.
TurnOnceMore(c) == Call(IF c <= TxCount THEN "delay" ELSE "flush") /\ UNCHANGED status

\* The next turn of the loop over the copies, c of them done.
Turn(c) == Call(IF c < TxCount THEN "delay" ELSE "flush") /\ UNCHANGED status

\* device_generate()
Generate ==
    /\ pc = "generate"
    /\ Turn(0) \/ TxReturn("error")
    /\ UNCHANGED <<copy, tape, radiated>>

\* The samples of this call; there is nothing to flush in a file.
Length == CASE pc = "delay"   -> DelaySamples
            [] pc = "message" -> MessageSamples
            [] pc = "flush"   -> IF sdr = "bladerf" THEN BufLen ELSE 0

Sending == pc \in {"delay", "message", "flush"}

\* Mutant: the rest of the buffer in place of the rest of the samples.
ToWriteMisplaced == IF Length < BufLen THEN Length - total ELSE BufLen - total

ToWrite == IF Length - total < BufLen THEN Length - total ELSE BufLen

\* The next chunk of the loop in sdr_bladerf_tx(); the flush is one chunk.
NextChunk ==
    /\ Sending /\ chunk = 0 /\ total < Length
    /\ chunk' = ToWrite
    /\ total' = total + ToWrite
    /\ UNCHANGED <<pc, status, copy, tape, radiated>>

\* One sample of the chunk goes into the file, or into a libbladeRF buffer
\* when one is free.
Accept ==
    /\ Sending /\ chunk > 0
    /\ sdr = "bladerf" => Len(tape) - radiated < NumBuffers * SamplesPerBuffer
    /\ tape' = Append(tape, IF pc = "message" THEN "signal" ELSE "zero")
    /\ chunk' = chunk - 1
    /\ UNCHANGED <<pc, status, copy, total, radiated>>

\* bladerf_sync_tx() times out or fails, or the file is truncated; no flush
\* follows.
SyncFails ==
    /\ Sending /\ chunk > 0
    /\ TxReturn("error")
    /\ UNCHANGED <<copy, tape, radiated>>

\* The call is over.
CallDone ==
    /\ Sending /\ chunk = 0 /\ total = Length
    /\ CASE pc = "delay"   -> Call("message") /\ UNCHANGED <<status, copy>>
         [] pc = "message" -> Turn(copy + 1) /\ copy' = copy + 1
         [] pc = "flush"   -> TxReturn("ok") /\ UNCHANGED copy
    /\ UNCHANGED <<tape, radiated>>

\* The hardware sends a full buffer, as long as its module is enabled.
Radiate ==
    /\ sdr = "bladerf"
    /\ Len(tape) - radiated >= SamplesPerBuffer
    /\ radiated' = radiated + SamplesPerBuffer
    /\ UNCHANGED <<pc, status, copy, total, chunk, tape>>

Sends == NextChunk \/ Accept \/ CallDone \/ SyncFails

-----------------------------------------------------------------------------
\* What is to be sent: the delay and the message tx_count times, then the
\* flush of a radio, which is zeros like the delay.
Period == DelaySamples + MessageSamples
OfMessage(n) == \E c \in 0 .. TxCount - 1 : n \in c * Period + DelaySamples + 1 .. (c + 1) * Period
FlushLength == IF sdr = "bladerf" THEN BufLen ELSE 0

\* However the calls are cut into chunks, and wherever one fails, the back
\* end is given the delay and the message tx_count times, then the flush, and
\* nothing else; the whole of it when the program reports success.
TapeIsTransmission ==
    /\ \A n \in DOMAIN tape : tape[n] = IF OfMessage(n) THEN "signal" ELSE "zero"
    /\ Len(tape) <= TxCount * Period + FlushLength
    /\ status = "ok" => Len(tape) = TxCount * Period + FlushLength

\* "to ensure samples provided to sdr_tx() exit the RFFE" (sdr.c:114): when
\* the transmission succeeds, and the module is disabled next, no sample of
\* the message is left in a buffer.
MessageIsRadiated ==
    sdr = "bladerf" /\ status = "ok" => \A n \in radiated + 1 .. Len(tape) : tape[n] = "zero"
=============================================================================
