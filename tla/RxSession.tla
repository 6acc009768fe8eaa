----------------------------- MODULE RxSession -----------------------------
(***************************************************************************)
(* One receiving run of the program: ookiedokie_rx() of                    *)
(* src/src/ookiedokie.c with the set-up main() gives it, reading samples   *)
(* from a file (sdr/bladeRF_file.c) or from a radio, either of which may   *)
(* fail, while SIGINT or SIGTERM may clear g_running at any time.  A read  *)
(* of the file that fails is not told from its end.                        *)
(*                                                                         *)
(* A sample is the level that threshold() will find in it.  The filter is  *)
(* its decimation: the sample on which the countdown of a stage runs out   *)
(* stands for the output computed there.  The device is the number of      *)
(* messages device_process() finds in a buffer (module DeviceProcess); a   *)
(* message is printed as one row of MsgFields columns.                     *)
(***************************************************************************)
EXTENDS Integers, Sequences, SessionConfig

CONSTANTS
    NumSamples,     \* cfg->samples_per_buffer
    Decimation,     \* total decimation of the filter
    Signals,        \* what there is to receive, in the file or on the air; the
                    \* radio is heard, as a bound, until the signal is over
    MaxMessages,    \* messages that end in one buffer, at most
    MsgFields       \* fields of a message

ASSUME SessionAssumption ==
    /\ NumSamples \in Nat \ {0}
    /\ Decimation \in Nat \ {0}
    /\ Signals \subseteq Seq(BOOLEAN)
    /\ MaxMessages \in Nat /\ MsgFields \in Nat \ {0}

VARIABLES
    pc,         \* where the loop is
    cfg,        \* what this run was asked to do
    running,    \* g_running
    status,     \* status of ookiedokie_rx(): "unset", "ok", "eof" or "error"
    signal,     \* what is received
    pos,        \* samples of it that were read
    input,      \* history: all samples sdr_rx() has delivered
    read_error, \* history: a read of the file has failed
    late,       \* history: buffers delivered after the signal to stop
    samples,    \* rx->samples
    filtered,   \* what is to be thresholded
    count,      \* the countdown of the filter
    dig,        \* rx->dig: sample_no, prev
    rows,       \* the file rx->dig.out, [index, level] each
    recorded,   \* the file of the recorder
    heading,    \* columns of the CSV heading, 0 before the first print
    widths,     \* columns of the CSV rows printed
    levels      \* history: the samples thresholded in all buffers

history == <<input, read_error, late>>
vars == <<pc, cfg, running, status, signal, pos, history, samples, filtered, count, dig, rows,
          recorded, heading, widths, levels>>

Init ==
    /\ pc = "head"
    /\ cfg \in {c \in Config : Valid(c)}
    /\ running = TRUE
    /\ status = "unset"
    /\ signal \in Signals
    /\ pos = 0
    /\ input = <<>> /\ read_error = FALSE /\ late = 0
    /\ samples = <<>>
    /\ filtered = <<>>
    /\ count = Decimation
    /\ dig = [sample_no |-> 0, prev |-> FALSE]
    /\ rows = <<>>
    /\ recorded = <<>>
    /\ heading = 0
    /\ widths = {}
    /\ levels = <<>>

\* ctrlc_handler()
Interrupt ==
    /\ running /\ pc # "returned"
    /\ running' = FALSE
    /\ UNCHANGED <<pc, cfg, status, signal, pos, history, samples, filtered, count, dig, rows,
                   recorded, heading, widths, levels>>

Goto(label) == pc' = label
Files == <<rows, recorded, heading, widths>>

\* Leave the loop with this status; the end of the file is a success.
Return(s) ==
    /\ Goto("returned")
    /\ status' = IF s = "eof" THEN "ok" ELSE s

\* Mutant: the signal is not looked at.
LoopTestForever ==
    /\ pc = "head" /\ Goto("receive")
    /\ UNCHANGED <<cfg, running, status, signal, pos, history, samples, filtered, count, dig,
                   Files, levels>>

LoopTest ==
    /\ pc = "head"
    /\ IF running THEN Goto("receive") /\ UNCHANGED status ELSE Return(status)
    /\ UNCHANGED <<cfg, running, signal, pos, history, samples, filtered, count, dig,
                   Files, levels>>

\* What is there of the next buffer; the rest is silence.
ReadTo == IF pos + NumSamples > Len(signal) THEN Len(signal) ELSE pos + NumSamples
Padded(s) == s \o [k \in 1 .. NumSamples - Len(s) |-> FALSE]

Deliver(buffer) ==
    /\ samples' = buffer
    /\ input' = input \o buffer
    /\ late' = IF running THEN late ELSE late + 1
    /\ status' = "ok"
    /\ Goto("record_input")

\* sdr_bladerf_file_rx(): fread() gives what there is of a buffer, or less
\* on an error; the rest is filled up with zeros, and nothing at all is taken
\* for the end of the file.  A read stops between two samples.
ReceiveFile ==
    /\ pc = "receive" /\ cfg.sdr = "bladerf_file"
    /\ \E last \in pos .. ReadTo :
           /\ IF last = pos
              THEN Return("eof") /\ UNCHANGED <<samples, input, late>>
              ELSE Deliver(Padded(SubSeq(signal, pos + 1, last)))
           /\ pos' = last
           /\ read_error' = (read_error \/ last < ReadTo)
    /\ UNCHANGED <<cfg, running, signal, filtered, count, dig, Files, levels>>

\* sdr_bladerf_rx(): a whole buffer, or an error or timeout.
ReceiveRadio ==
    /\ pc = "receive" /\ cfg.sdr = "bladerf"
    /\ pos < Len(signal)
    /\ Deliver(Padded(SubSeq(signal, pos + 1, ReadTo)))
    /\ pos' = ReadTo
    /\ UNCHANGED <<cfg, running, signal, read_error, filtered, count, dig, Files, levels>>

RadioFails ==
    /\ pc = "receive" /\ cfg.sdr = "bladerf"
    /\ Return("error")
    /\ UNCHANGED <<cfg, running, signal, pos, history, samples, filtered, count, dig,
                   Files, levels>>

\* sdr_tx() on the recorder; a truncated write is an error.
Record(source, s, then) ==
    IF cfg.recorder = source
    THEN \/ /\ recorded' = recorded \o s
            /\ Goto(then) /\ UNCHANGED status
         \/ Return("error") /\ UNCHANGED recorded
    ELSE Goto(then) /\ UNCHANGED <<status, recorded>>

RecordInput ==
    /\ pc = "record_input"
    /\ Record("input", samples, "filter")
    /\ UNCHANGED <<cfg, running, signal, pos, history, samples, filtered, count, dig, rows,
                   heading, widths, levels>>

\* fir_filter_and_decimate() (module FirFilter), or no filter.
Outputs(c) == IF NumSamples < c THEN 0 ELSE 1 + (NumSamples - c) \div Decimation

\* Mutant: the filter is reset for every buffer.
FilterAfresh ==
    /\ pc = "filter"
    /\ filtered' = IF cfg.filter
                   THEN [k \in 1 .. Outputs(count) |-> samples[count + (k - 1) * Decimation]]
                   ELSE samples
    /\ Goto("record_filtered")
    /\ UNCHANGED <<cfg, running, status, signal, pos, history, samples, count, dig, Files, levels>>

Filter ==
    /\ pc = "filter"
    /\ IF cfg.filter
       THEN /\ filtered' = [k \in 1 .. Outputs(count) |-> samples[count + (k - 1) * Decimation]]
            /\ count' = count + Outputs(count) * Decimation - NumSamples
       ELSE filtered' = samples /\ UNCHANGED count
    /\ Goto("record_filtered")
    /\ UNCHANGED <<cfg, running, status, signal, pos, history, samples, dig, Files, levels>>

RecordFiltered ==
    /\ pc = "record_filtered"
    /\ Record("filtered", filtered, "dig")
    /\ UNCHANGED <<cfg, running, signal, pos, history, samples, filtered, count, dig, rows,
                   heading, widths, levels>>

-----------------------------------------------------------------------------
\* record_dig(): a row for sample 0, and two rows for each change of level,
\* the last sample of the old and the first of the new.
Row(n, level) == [index |-> n, level |-> level]

\* Mutant: prev is not updated.
RecordLevelKeepsPrev(st, n, level) ==
    IF level = st.prev THEN st
    ELSE [prev |-> st.prev, rows |-> st.rows \o <<Row(n - 1, st.prev), Row(n, level)>>]

RecordLevel(st, n, level) ==
    IF level = st.prev THEN st
    ELSE [prev |-> level, rows |-> st.rows \o <<Row(n - 1, st.prev), Row(n, level)>>]

\* With no sample in the first buffer the code reads one that was never
\* written; it may be either level.
FirstLevels == IF filtered = <<>> THEN BOOLEAN ELSE {filtered[1]}

Started(first) ==
    IF dig.sample_no = 0 THEN [prev |-> first, rows |-> Append(rows, Row(0, first))]
    ELSE [prev |-> dig.prev, rows |-> rows]

\* The loop over the samples of the buffer, after k of them.
RecordedTo(first) ==
    LET upto[k \in 0 .. Len(filtered)] ==
            IF k = 0 THEN Started(first)
            ELSE RecordLevel(upto[k - 1], dig.sample_no + k - 1, filtered[k])
    IN  upto

RecordDig ==
    \E first \in FirstLevels :
        LET end == RecordedTo(first)[Len(filtered)]
        IN  /\ rows' = end.rows
            /\ dig' = [sample_no |-> dig.sample_no + Len(filtered), prev |-> end.prev]

\* Mutant: the loop is left from within when it is interrupted.
DigitalStops ==
    /\ pc = "dig"
    /\ IF running
       THEN /\ levels' = levels \o filtered
            /\ IF cfg.dig THEN RecordDig ELSE UNCHANGED <<rows, dig>>
            /\ Goto("device") /\ UNCHANGED status
       ELSE Return("ok") /\ UNCHANGED <<levels, rows, dig>>
    /\ UNCHANGED <<cfg, running, signal, pos, history, samples, filtered, count,
                   recorded, heading, widths>>

\* threshold() and record_dig()
Digital ==
    /\ pc = "dig"
    /\ levels' = levels \o filtered
    /\ IF cfg.dig THEN RecordDig ELSE UNCHANGED <<rows, dig>>
    /\ Goto("device")
    /\ UNCHANGED <<cfg, running, status, signal, pos, history, samples, filtered, count,
                   recorded, heading, widths>>

\* rx_print() in CSV format: the fields of all messages of the buffer are
\* one list, and the first list printed gives the heading.
PrintRow(columns) ==
    /\ heading' = IF heading = 0 THEN columns ELSE heading
    /\ widths' = widths \cup {columns}

Decode ==
    /\ pc = "device"
    /\ \/ UNCHANGED <<heading, widths>>
       \/ /\ cfg.device /\ filtered # <<>>
          /\ \E n \in 1 .. MaxMessages : PrintRow(n * MsgFields)
    /\ Goto("head")
    /\ UNCHANGED <<cfg, running, status, signal, pos, history, samples, filtered, count, dig,
                   rows, recorded, levels>>

Loop == LoopTest \/ ReceiveFile \/ ReceiveRadio \/ RadioFails \/ RecordInput \/ Filter
            \/ RecordFiltered \/ Digital \/ Decode

Next == Interrupt \/ Loop

Spec == Init /\ [][Next]_vars

-----------------------------------------------------------------------------
\* What the filter leaves of the whole input so far.
Decimated(s) == [k \in 1 .. Len(s) \div Decimation |-> s[k * Decimation]]
Expected == IF cfg.filter THEN Decimated(input) ELSE input

\* What there is to receive, and the silence after it.
Whole == signal \o [k \in 1 .. NumSamples |-> FALSE]

\* Between buffers the device and the recordings have been given the whole
\* input so far, each sample once and in order, as if it had been filtered
\* in one piece, and unless a read of the file has failed the input is the
\* signal from its beginning.
BuffersJoinUp ==
    pc = "head" =>
        /\ levels = Expected
        /\ cfg.recorder = "input" => recorded = input
        /\ cfg.recorder = "filtered" => recorded = Expected
        /\ ~read_error => input = SubSeq(Whole, 1, Len(input)) /\ pos <= Len(input)

\* The CSV file of --rx-rec-dig is the digital signal: the last row up to a
\* sample gives its level, also across buffers and when a buffer is empty.
LevelAt(n) ==
    rows[CHOOSE r \in DOMAIN rows :
            /\ rows[r].index <= n
            /\ \A q \in DOMAIN rows : rows[q].index <= n => q <= r].level

DigIsSignal ==
    cfg.dig /\ pc = "head" =>
        /\ dig.sample_no = Len(levels)
        /\ \A n \in 0 .. Len(levels) - 1 : LevelAt(n) = levels[n + 1]

\* A run that read nothing was interrupted before the first buffer, and one
\* that failed used a radio or a recorder.  A run that returns 0 was
\* interrupted, or it has read the whole file, or a read of the file has
\* failed (bladeRF_file.c:106); it returns between two buffers, with the
\* device and the recordings given everything that was delivered.
StopsCleanly ==
    pc = "returned" =>
        /\ status = "unset" => input = <<>> /\ ~running
        /\ status = "error" => cfg.sdr = "bladerf" \/ cfg.recorder # "none"
        /\ status = "ok" =>
               /\ \/ ~running
                  \/ cfg.sdr = "bladerf_file" /\ (read_error \/ pos = Len(signal))
               /\ levels = Expected
               /\ cfg.recorder = "input" => recorded = input
               /\ cfg.recorder = "filtered" => recorded = Expected

\* After SIGINT or SIGTERM at most the one buffer that was being waited for is
\* received, wherever in the loop the signal came.
StopsSoon == late <= 1

\* Every CSV row has the columns of the heading ("Print the field headings
\* on the first print", "Print the values on the rest", ookiedokie.c:189).
RowsMatchHeading == \A w \in widths : w = heading
=============================================================================
