# TLA+ verification of OOKiedokie

OOKiedokie receives and transmits on-off-keyed messages with a software-defined
radio. A device description (JSON) says how a message is keyed: a state machine
whose triggers fire on pulse edges, timeouts and durations, and the fields that
the bits of a message are made of. This directory holds TLA+ models of the
program's core, the TLC configurations that check them on small instances, and
theorems that TLAPS checks for every value of the constants.

Paths like `state_machine.c:528` are below `src/src/`, `devices/README.md` and
`devices/p3l-nexa2012.json` below `src/devices/`.

## 1. The system

### Data flow

    receive:   sdr_rx -> [record input] -> fir_filter_and_decimate -> [record filtered]
                  -> threshold -> [record digital] -> device_process -> sm_process
                  -> formatter -> keyval_list -> rx_print
    transmit:  keyval_list (--tx-param) -> formatter -> sm_generate -> (delay, message)*
                  -> flush, all of them chunked by sdr_bladerf_tx

The program is single-threaded, but for a SIGINT/SIGTERM handler that clears
`g_running`, and for the threads of libbladeRF behind `bladerf_sync_*()`. What
makes it hard is not the scheduling of its own threads but *streams cut into
pieces*: a message may span buffers, a buffer may hold several messages, a
filter keeps a countdown across calls, an `sm_process()` call ends early, and
each of these boundaries may fall anywhere.

### Components

| Component (source) | State it keeps | Operations | What makes it correct |
|---|---|---|---|
| State machine, receive (`state_machine.c`) | `curr_state`, `num_bits`, `data`, `prev_bit`, `elapsed_us` | `sm_process()`, `process()`, `handle_rx_triggers()` | no more than `num_bits` bits; output is exactly the bits heard since reset; timeouts are kept; a quiet line always brings it home |
| State machine, generate (`state_machine.c`) | the same `curr_state` and `num_bits`, and the growing sample array | `sm_generate()`, `generate()`, `handle_tx_triggers()`, `append_samples()` | ends; sends each bit once; writes within its allocation |
| Loading (`device.c`, `state_machine.c`, `formatter.c`) | the `states` array, with slots reserved by name; the fields, looked up by name; what is allocated so far | `device_init()`, `populate_device()`, `create_state_machine()`, `create_formatter()`, `sm_add_*()`, `formatter_add_*()`, `device_deinit()` | a closed description becomes the described machine and fields, whatever the order of forward references; anything else is refused, and nothing of it stays |
| File search (`find.c`) | a growing path, the position in two loops | `find_device_file()`, `find_filter_file()` | the first file in the documented order is opened; the path fits its buffer |
| Device, receive (`device.c`) | the position in a buffer, `d->values` | `device_process()` | every sample is given to the machine once; every announced message is formatted before the buffer is cleared |
| FIR filter (`fir.c`) | per stage a doubled buffer, two insertion points, a countdown | `fir_filter_and_decimate()`, `fir_reset()`; `fir_init()` loads it | the convolution reads the last samples in order; outputs fit their buffers; decimation is even across calls |
| Formatter (`formatter.c`) | field list; writes `d->data` | `formatter_default_data()`, `formatter_keyval_to_data()`, `formatter_data_to_keyval()`, `formatter_add_field()` | what is packed is read back, through ints and floats; fields that share no bit do not disturb each other |
| Key-value list (`keyval_list.c`) | `elt`, `size`, `backing_size` | `keyval_list_append()`, `keyval_list_clear()` | no element outside of the block, no leak |
| Receive loop (`ookiedokie.c`) | `rx`, the digital recorder, the CSV heading | `ookiedokie_rx()`, `record_dig()`, `rx_print()`, signal handler | buffers join up; recordings are the signal; it stops between buffers; a row has the columns of the heading |
| Transmit loop (`ookiedokie.c`) | loop counter | `ookiedokie_tx()` | delay and message `tx_count` times, then a flush that pushes the last sample out |
| SDR back ends (`sdr/*.c`) | conversion buffer, libbladeRF buffers | `sdr_rx()`, `sdr_tx()`, `sdr_flush()` | chunks cover the samples; a short file read is padded, and only the end of the file ends it; no wait that can not end |
| Program (`main.c`, `ookiedokie_cfg.c`, `sdr/sdr.c`) | configuration, handles | `process_cmdline()`, `validate_cfg()`, `main()`, `sdr_init()`, `ookiedokie_cfg_*()` | options in range; a session starts complete; everything opened is closed once, on every path; the exit status tells the outcome |
| Text conversions (`conversions.c`) | none | `str2uint()`, `str2double()`, `str2uint_suffix()`, ... | a number is accepted if and only if it is in range |
| Logging, complex arithmetic | none | | pure functions or output |

### Interactions

`ookiedokie_rx()` calls the filter, the device and the printing in turn; the
device shares `d->data` between state machine (writer) and formatter (reader)
without a copy, so that the order *output - format - reset* matters
(`state_machine.h:167`). `sm_process()` may stop short and says so through
`num_proc`. Sender and receiver never talk to each other, but both walk the same
device description, one to make a signal and the other to recognise it. The
filter's total decimation decides the sample rate that the device measures
durations with. `main()` sets the parts up one after the other and
has one place where all are released, so that each part must say truly whether
it is there. The full list of hazards, each at its line and with the
properties that guard it, is in `PROJECT.json`.

## 2. The modules

| Module | Models | Uses |
|---|---|---|
| `StateMachineRx` | the receive machine as operators on `struct state_machine`: `MatchesDuration`, `ConditionHolds`, `AppendDataBit`, `HandleRxTriggers`, `Process` | |
| `SmReceive` | one machine fed with any sample stream | `StateMachineRx` |
| `NexaDevice` | the shipped description `p3l-nexa2012.json`, all states and durations as they are, in ticks of which a sample of any rate is a whole number | |
| `DeviceProcess` | `device_process()` over `sm_process()` and `formatter_data_to_keyval()`, buffer by buffer; refines `SmReceive` | `SmReceive`, `KeyvalList` |
| `Receive_proofs` | theorems about the machine, the list and `device_process()` | `DeviceProcess` |
| `SmGenerate` | `sm_generate()`, one `HandleTx` per `handle_tx_triggers()` call | `StateMachineRx` |
| `MessageLink` | abstract: each copy sent is delivered once, unchanged; `SafeSpec` is this without the promise that it is delivered | |
| `RoundTrip` | generator, transmit loop, a jittery line and the receive machine together; implements `MessageLink` | `SmGenerate`, `MessageLink` |
| `ShippedLink` | the round trip of the shipped description: what a sample rate (`RateFits`), a line and a sample array have to see to for its messages to arrive | `RoundTrip`, `NexaDevice` |
| `RoundTrip_proofs` | theorems about the generator, alone and in the round trip, and about the shipped description from end to end | `ShippedLink`, `Arithmetic` |
| `Memory` | allocations that may fail, unsigned arithmetic, malformed entries | |
| `FindFile` | the search for a device or filter file | `Memory` |
| `SmBuild` | the machine built out of a description | `Memory` |
| `FormatterBuild` | the fields built out of a description | `Memory` |
| `FilterLoad` | the stages of a filter file | `Memory` |
| `Loading` | `device_init()` and `fir_init()` whole, over these four, with the clean-up | all of them |
| `KeyvalList` | the growing array, with failing `realloc()` and `strdup()` | |
| `Loading_proofs` | theorems about the parts of loading and the whole | `Loading`, `Arithmetic` |
| `FirFilter`, `FirFilter_proofs` | the cascade of stages, sample by sample; theorems | `Arithmetic` |
| `Formatter`, `Formatter_proofs` | defaults and parameters packed into bits and read back, with the widths of int, word and float as constants; theorems | `Arithmetic` |
| `SessionConfig` | the configurations a receiving session starts from | |
| `RxSession` | a receiving run in every such configuration, from a file or a radio, with failures and the signal | `SessionConfig` |
| `RxSession_proofs` | theorems about a receiving run | `RxSession`, `Arithmetic` |
| `TxSession` | `ookiedokie_tx()` over the back ends and the buffers of the radio | |
| `Conversions` | the numbers of the command line | |
| `Program` | `main()` from the first option to the exit, with a transmission as its middle; what it hands to `ookiedokie_rx()` is in `SessionConfig` | `TxSession`, `SessionConfig`, `Conversions` |
| `Program_proofs` | theorems about the program and a transmission in it | `Program` |
| `Arithmetic` | lemmas about division, remainders, products and least elements | |

`MC*` modules hold the values of the constants for TLC. Operators whose comment
starts with *Mutant:* are plausible bugs of the definition that follows them;
no specification uses them. `PROJECT.json` pairs each with the property that
must notice it: a property is only kept when a mutant of the code breaks it.

### How state and actions correspond to the code

- **`StateMachineRx`.** `sm` has the fields of `struct state_machine` that the
  receive path uses; `data` is the *set of positions of 1 bits* in the buffer.
  `Process` is `process()` with the `prev_bit` update of `sm_process()`: a
  machine found in reset clears the message, fires reset's trigger and then
  shows the same sample to the next state, which is what the code does only for
  reset. Triggers are tested in order, the state's own duration only on pulse
  edges, tolerance 15% in integers. `elapsed_us` is a double in the code and a
  multiple of the sample period here, saturated at `ElapsedCap`, which lies above
  every duration and timeout of the device and so changes no comparison.
  `AppendDataBit` keeps the code's `<=` (`state_machine.c:370`), and the caller's
  unconditional `num_bits++` up to one past the end.
- **`SmReceive`.** `Sample(b)` is one `process()` call. `heard` is a history of
  the bits appended since reset.
- **`DeviceProcess`.** `Enter`, `Call`, `Step`, `Return`, `Leave` are the entry of
  `device_process()`, its loop test, a turn of the loop of `sm_process()`, its
  return, and the return to the receive loop; `AppendEntry` and
  `AppendEntryFails` are the `keyval_list_append()` calls of
  `formatter_data_to_keyval()`, of the time stamp first. An element of `values`
  names its message, its field, and the data buffer as the formatter read it.
- **`SmGenerate`.** The sample array is a sequence of runs `[value, length]`;
  `count` and `alloc_len` are kept in samples, with unsigned arithmetic modulo
  `UintMax + 1`. Times in `Duration` are converted as `to_sample_count()` rounds.
  A rate of `R` samples per second is `TicksPerUs = R` with `SampleUs = 1000000`, or
  both over a common divisor: 3 and 1 for the default of 3 Msps
  (`ookiedokie_cfg.c:32`).
- **`RoundTrip`.** `Send` puts one sample on the air and through `Process`;
  `NextRun` moves on to the next run, whose length the line may change by a
  member of `Jitter`, to the next copy after `Delay` zeros, or to the flush.
- **`Loading`.** `loader` is the statement of `device_init()`, `populate_device()`
  or `fir_init()` that is reached, `heap` what is allocated or open, and `status`
  the variable of that name, which decides what `Out` does: this is how the
  stale 0 of `device.c:613` shows. `bad` names the part of the file that is
  missing. Reaching undefined behaviour is the value `"undefined"` of a program
  counter; nothing follows it.
- **`FindFile`.** `search`, `pattern` and `dir` are the two nested loops, `path`
  the parts appended so far, `max_len` as in the code. A path that finds no
  memory is passed over, as the `continue` statements do.
- **`SmBuild`.** `slots` is `sm->states`; `SlotFor`/`Reserve` are
  `get_or_reserve_state()`, with the `strdup()` that may fail. `AddTrigger` does
  not look at whether the slot was found, as `device.c:191` does not.
- **`FormatterBuild`.** `AddField`, `AddEnum`, `SetDefault` are one turn of the
  loop over the fields; the last two find their field by name, as the code does.
  A slot is free while its `start_bit` is `BIT_UNINITIALIZED`, and so it stays for a
  field whose `start_bit` is -1: the next field is put into it. `lost` is what the
  slot held then and nothing refers to any more; it joins `heap` in `Loading` when
  the formatter is returned or freed.
- **`FilterLoad`.** `AddStage` is a turn of the loop in `fir_init()`, its three
  buffers taken together; the product of the decimations wraps.
- **`KeyvalList`.** `allocated` counts the elements that fit in the block, which
  is not what `backing_size` counts once the list has grown.
- **`FirFilter`.** `state`, `ins1`, `count` per stage; `ins2` is `ins1 + NumTaps`.
  `Insert` is a turn of `perform_stage()` with `update()`. `Convolve` stands for
  the floating-point sum and may be any function of the samples read. `window`,
  `phase` and `due` are history: what the stage was given and what it owes.
- **`Formatter`.** `ToBits` is `str_to_spt()` and `FromBits` is
  `field_data_to_str()`, step by step: a value becomes a float, is reduced by the
  offset, divided by the scaling and converted back to the 64-bit type of the
  field, and the other way round when it is shown. `RoundedQuotient` is what a
  float of `FloatBits` significant bits leaves of a quotient; a conversion out of
  the range of the type (`Converted`) is undefined and may be any value.
  `TestBit` is the test of `apply_field_bits()` with the `int` constant 1: a shift
  by `IntBits` or more is undefined, and the model takes either outcome (`wraps`).
  Fields may share bits, as two of the shipped description do. `given` is history:
  the value each field was last given, dropped when a field that shares bits with
  it is given one.
- **`RxSession`.** One action per step of the loop in `ookiedokie_rx()`; a
  sample is the level `threshold()` finds in it. `ReceiveFile` lets `fread()` stop
  anywhere: what it has is filled up with zeros, and nothing at all is
  `SDR_FILE_EOF`, whether the file is over or the read has failed; `read_error` is a
  history of which it was. `ReceiveRadio` and `RadioFails` are the other back end.
  `late` counts the buffers that are delivered after the signal. The level
  `record_dig()` reads from an empty first buffer was never written: either one is
  possible.
- **`TxSession`.** `NextChunk` cuts as `sdr_bladerf_tx()` does; `Accept` and
  `Radiate` are libbladeRF, external: only full buffers are radiated, and
  `bladerf_sync_tx()` waits while all buffers are full. The file back end has no
  such buffers and nothing to flush.
- **`Program`.** `main` is the statement of `main()` that is reached. An option is
  `[name, arg]`; `cfg` keeps the strings and choices, `num` the numbers. `heap` is
  a set of `<<owner, part>>`, so that what is freed can be compared with what was
  allocated; the mark `DISABLE_FILTER` is a string that was never allocated.
  `RadioAfter(k)` is the radio when the first `k` of the seven calls of
  `sdr_bladerf_init()` have succeeded. `CfgInitFails` is the failure that `main()`
  ignores (`main.c:579`): of the fields it leaves unset, a pointer is NULL or `Wild`,
  an address that was never allocated, and the constant `Leftovers` says what may be
  in the others. A wild pointer may be freed, which `bad_frees` records; reading
  through one is undefined (`ReadsWild`), and nothing follows it.
  `TransmitGenerates` may lose the samples there are when it fails, as
  `sm_generate()` does. The log level, unset as well, only affects text.
- **`Conversions`.** A text is what the C library reads in it: a number, a NaN, an
  overflow or nothing, and the rest.

## 3. Runs

| Run | Instance | Shows |
|---|---|---|
| `SmReceive` | Nexa device, 8-bit messages, a sample every 250 us, all streams; 15514 states | `BitsBounded`, `NoResidue`, `NoOverstay`, `OutputIsMessage`, `QuietLineReturnsToIdle` |
| `DeviceProcess` | a one-bit device with one field and a time stamp; all buffers of up to 3 samples, and longer ones with two or three messages and glitches, in any order; a list that starts with room for one and grows, every append failing or not; 20043 states | `EachSampleOnce`, `EveryMessageFormatted`, `SizeWithinBacking`, `NoLeak`, `Returns`, and the refinement `DecodesSamples` |
| `RoundTrip` | Nexa device, every 2-bit message, 25 us samples, runs one sample shorter or longer, two copies; an allocation of 200 samples, in which the pause of 348 only fits when it is doubled; 16644 states | `WithinAllocation`, `ReadyForNextCopy`, `Succeeds`, and the refinement `ImplementsLink` |
| `Loading` | every pair of the twelve candidate files with and without `$HOME`; state machines of up to three states with undeclared and malformed targets; up to three fields with bits at the limits, -1 included, equal names and bad enumerators; filters of up to three stages with an `unsigned int` of 7 bits; every part missing, every allocation failing; 510292 states | `FirstFound`, `ClosedIsBuilt`, `FieldsAsDescribed`, `OutputsFit`, `LoadsOrRefuses`, `ReturnsAllOrNothing` |
| `FirFilter` | decimations 2 and 3, taps 3 and 2, calls of 0 to 7 samples of two values; 165792 states | `BufferIsWindow`, `FitsOutput`, `DecimatesEvenly`, `OutputFromWindow` |
| `Formatter` | 20 bits, seven fields of both bit orders and three formats, two pairs of them overlapping, one as wide as an int; an int of 5 bits, a word of 7 and floats of 4 bits; all lists of up to two parameters out of a choice with bad ones and ones that are rounded; 11761 states | `ReadsBack`, `FieldsKeepApart` |
| `RxSession` | all signals of up to 4 samples and two longer ones, buffers of 2, decimation 3, every valid configuration, failures and SIGINT anywhere; 294880 states | `BuffersJoinUp`, `DigIsSignal`, `StopsCleanly`, `StopsSoon` |
| `Program` | command lines of up to five options out of 27, good and bad, in any order; every file, call and allocation failing or not, the first one of all included; 2 buffers of 2 samples, delay 1, message 8, 2 copies; 457496 states | `TapeIsTransmission`, `MessageIsRadiated`, `SettingsInRange`, `NothingLeft`, `FreesItsOwn`, `SessionIsSetUp`, `StatusTellsOutcome`, `Ends` |
| `GenerateFast` | Nexa device at 8 Msps, the real 16384 samples; **violated** | `WithinAllocation`, finding 1 |
| `KeyvalGrowth` | the real sizes 16 and 16; **violated** | `ElementsFit`, finding 2 |
| `CsvHeading` | two messages in a buffer; **violated** | `RowsMatchHeading`, finding 3 |
| `WideFloat` | a field of 6 bits and floats of 5; **violated** | `FormulasHold`, finding 4 |

`SmReceive` also checks its type invariant. Section 4 says which of these properties are
proved for every value of the constants, and which are only model-checked.

### Why the bounds are enough

- *Receive:* the real durations and timeouts are kept; only the number of bits
  is cut from 36 to 8, one byte and its boundary. Nothing in the machine depends
  on `num_bits` but the comparisons with it, and the theorems cover every value.
  250 us divides the pulse of 500 us and puts edges, tolerance limits and
  timeouts on the same samples.
- *Buffers:* 3-sample buffers put a boundary at every place of a message; the
  long ones put two messages, and an error between two, into one buffer.
- *Round trip:* two copies and both delays shorter than any gap of the device, so
  that a copy really relies on the receiver being ready. Jitter of one sample in
  20 stays within the 15% the device allows. At 3 Msps the pause of the device is
  26100 samples, so that of the 16384 allocated at first it needs the doubled array;
  an allocation of 200 stands to the pause of 348 in the same way, so that the first
  doubling happens where it does at the default rate.
- *Filter:* 7 is no multiple of 2, 3 or 6, so that every phase of the countdown
  meets every call length; both stages wrap several times.
- *Formatter:* an int of 5 bits, a word of 7 and floats of 4 stand in the order of
  the real 32, 64 and 24 in that a word is wider than the other two; a field as
  wide as the int meets the sign of the constant 1, and values of 19 and 31 are not
  floats. In `WideFloat` the int is wider than the field, so that only the float can
  be at fault.
- *Session:* buffers of 2 against a decimation of 3 yield empty outputs, first
  buffers included, and files whose last buffer is padded. A radio never stops by
  itself; the run hears it until the signal it sends is over. Every input being
  finite, a liveness property would not notice that SIGINT is ignored; `StopsSoon`
  does, a safety property that is proved for inputs of any length.
- *Loading:* three states are the fewest in which a forward reference, a state
  that is described later and one that finds no slot can meet; the third slot is
  where the search from the end and from the start differ. Names of 20 to 60
  bytes make every path cross the 64 bytes of the buffer at another part.
  Products of the decimations wrap to zero (16 * 16 * ... in 7 bits) and to less
  than they are (3 * 126). One part of a file is varied at a time: the parts do
  not look at each other.
- *Command line:* five options are what the longest valid reception needs
  (direction, device, SDR arguments, filter, recorder), and leave room for
  repeated and contradicting ones; the options that only set a number are each
  there with a good, a bad or an odd value.
- *Transmit:* the message is longer than the conversion buffer (chunks), the
  delay shorter, and the total exceeds what libbladeRF can hold.

`ElapsedCap` (saturation of a clock), `MaxSize` (longest list explored),
`UintMax`, `MaxUint`, `MaxOptions`, `MaxMessages` and the sets `Buffers`, `Signals`,
`Files`, `Options`, `Leftovers`, `ParamLists`, `Jitter` are the only bounds, all
constants.

### Deadlock

`CHECK_DEADLOCK FALSE` is set where the program ends: a generation, a file
loaded, a formatting, a session, the process. `SmReceive`, `DeviceProcess`
(with the list in it) and `FirFilter` never stop and are checked for deadlock.

### Fairness

- `SmReceive`: samples keep coming (`WF_rxVars(Sample(sm.prev_bit))`). The line
  itself is not assumed to change: with `WF_rxVars(RxNext)` no behaviour could stay
  quiet in idle for ever, because a further equal sample changes nothing, and
  `QuietLineReturnsToIdle` would hold vacuously.
- `DeviceProcess`, `SmGenerate`/`RoundTrip`: loops on the main thread run on.
  Failures and further buffers are not fair. `RxSession` is checked for safety only.
- `Program`: the main thread runs on, and the hardware sends full buffers while
  its module is enabled (`WF_vars(Radiates)`); it never sends a partly filled one.
  Which option comes next, and what fails, is free.

## 4. Proofs

All theorems hold for every value of the constants allowed by the named
assumptions of the modules (`TLC` evaluates these in every run) and, where a
theorem has a hypothesis of its own, for those that satisfy it. All are checked
by `tlapm`; nothing is assumed but the library's theorems.

**`Receive_proofs`: the machine alone** - every device description, sample period
and message length.

- `TypeCorrect`: needs only `DeviceAssumption`.
- `NeverTooManyBits` (`BitsBounded`) and `NeverResidue` (`NoResidue`), for a
  `WellFormed` description. They are not inductive: a machine with a full buffer
  could be in a state that appends once more. The invariant is
  `RxInv`, that is `MessageHeard(sm, heard) /\ RoomOrSafe(sm)` with the types: the
  buffer is the record of what was heard, and a full one is only met in reset or
  in a state whose *first* trigger is `msg_complete` without an action that appends
  (`SafeTarget`). `WellFormed` is what `devices/README.md:186` recommends, and the
  run on the Nexa device asserts it for that device. The code does not enforce
  it, and without it the claim is false (section 6).
- `OutputIsWhatWasHeard` (`OutputIsMessage`), if moreover data is only output on
  `msg_complete`.
- `NeverOverstays` (`NoOverstay`): every device with types; no well-formedness.

There is one lemma per path of `handle_rx_triggers()` (`Wait`, `Abort`, `Fire`),
one for `HandleRxTriggers` and one for `Process`, whose reset case runs it twice.

**`Receive_proofs`: the list alone** - `AssertionHolds` (`SizeWithinBacking`) and
`NothingLeaks` (`NoLeak`), every initial and element size.

**`Receive_proofs`: `device_process()`** - every device, list of fields and set of
buffers, every allocation failing or not.

- `SamplesOnce` (`EachSampleOnce`). The invariant `TakenInOrder` says how the two
  counters divide the buffer, and that `sm_process()` is only entered with
  samples left.
- `ImplementsDecoder` (`DecodesSamples`): `Step` is a step of `SmReceive`, all
  others stutter. With it `MachineStaysSafe` carries `BitsBounded` and `NoResidue`
  over to the device.
- `ListAssertionHolds` and `FieldsAreFreed`: every step of the device is a step of
  `KeyvalList` or leaves the list alone, so what holds for the list alone holds in it.
- `MessagesFormatted` (`EveryMessageFormatted`). `MessagesInv` says where in the
  list the elements of each message of the buffer are, that only the message in
  work may still lack some, and that the buffer the formatter reads is the one
  that was announced; a message that ran out of memory ends with the elements it
  got. `Times` and the lemmas after it are the arithmetic of these places.

**`RoundTrip_proofs`** - every device, message, sample rate and width of an
unsigned int, as far as the hypotheses go.

- `StaysWithinAllocation` (`WithinAllocation`) has the hypothesis `DurationsFit`: no
  duration of the device is more samples than are allocated at first. Then one
  doubling always suffices, also where it is clamped by `UintMax`. With 16384
  samples the shipped device satisfies it up to 1.88 Msps, so neither at the
  default rate nor at any rate of the radio.
- `RoundTripWithinAllocation`, by `GeneratesAlone`: a round trip contains a
  generation, with which the line and the receiver do not interfere.
- `ShippedStaysWithinAllocation` (`WithinAllocation`) is about the shipped device, at
  the rates that matter. Its hypothesis `RateFits` asks that pulses and gaps fit in
  the first allocation and the first pulse with the pause after it in twice as
  much: with 16384 samples, up to 3.56 Msps, which includes the default of 3 Msps
  and the rates of the radio below it. It can hardly be weaker: beyond it the
  pause is written past the end of the array, as in `GenerateFast` (finding 1). The
  pause is only met with an array that still has its first size and holds one
  pulse, so that the proof needs the signal invariant below, not only `GenInv`.

The other three walk through the states of the shipped description
(`ShippedDevice`), for messages of any length `MaxBits`, any sample period, number of
copies and jitter. Their hypotheses are `RateFits`, `MessageFits` (twice the
samples of a message are within `UintMax`, so that the array can be doubled), and
for the receiver `LineTolerated` (what the line makes of each pulse and gap is
within the 15%, counted as the code does without the first sample, and has a
second sample: the last pulse is only read on it) and a delay of one sample.
`MCRoundTrip` asserts all of them of its instance. At the default rate, with the
array of the code (`SampleUs = 1`, `TicksPerUs = 3`, `InitialAlloc = 16384`), they hold
for messages of up to 100000 bits: a pulse is 1500 samples, the gaps 6000 and 12000,
pulse and pause 27600. The claim ends where `RateFits` does: nothing
is proved for the shipped device above 3.56 Msps, where the code fails.

- `SignalIsMessage`: a signal that is done is the lead pulse, its pause, a pulse,
  and a gap and a pulse for each bit. `SignalInv` is this up to the bits counted so
  far, with what `count` is in each state of the lead and the bound on it after that,
  which keep `append_samples()` from refusing and within its array.
- `ReceiverIsReady` (`ReadyForNextCopy`). `LineInv` says, for the run on the air, in
  which state the receiver is and with which bits (`Phase`), and that what is left
  of the run and what has been counted in `elapsed_us` together make up its length.
  Three moments are told apart: no sample of the run heard yet (`Starts`, `Turns`:
  the time in the state before matches), some heard (`Stays`), and the last pulse
  after its second sample, when the message is out. One lemma per state says what
  `process()` makes of an edge, one (`SameLevelWaits`) that it waits otherwise,
  because the tolerance ends before the timeout does (`BeforeTimeout`).
- `DeliversTheMessage`: `Link!SafeSpec`, by refinement. Every step of the round trip
  is a `Deliver` of the message sent, while fewer than `Copies` have been, or leaves
  `MessageLink` alone.

**`RxSession_proofs`** - every length of a buffer, decimation and signal, every
configuration.

- `SessionJoinsUp` (`BuffersJoinUp`) and `SessionStopsCleanly` (`StopsCleanly`). Both
  speak of the moment between two buffers; `SessionInv` says for each step of the
  loop what has been delivered (`ReadInv`), what the buffer in work is and what the
  filter's countdown stands at (`BufferInv`), and what has been recorded and
  thresholded (`JoinInv`). That two decimated pieces make up the decimated whole,
  with the countdown in between, is a lemma about `Decimated`. Neither claims that
  a file is read to its end: a read error ends a session as the end of the file
  does (section 6), and after one the input is only what was delivered.
- `SessionStopsSoon` (`StopsSoon`): no more than the buffer that was being waited for
  is received after SIGINT, in sessions of any length.
- `RecordingIsSignal` (`DigIsSignal`): `DigInv` adds the last level `record_dig()`
  remembers, which is right whenever anything was thresholded.

**`Loading_proofs`** - every file, also with names, states, fields and stages of
any number, every allocation failing or not.

- `SearchFindsFirst` (`FirstFound`), any lengths of names and any increment of the
  buffer: `FindInv` says that the candidates before the current one are not
  there, unless memory ran out.
- `AllOrNothing` (`ReturnsAllOrNothing`): `HeapInv` says what is allocated at every
  statement, by `status`. There are two exceptions: the missing list of `device.c:613`,
  and the name and enumerators of a field that starts at bit -1 (`StartsNowhere`,
  section 6), which stay allocated whether the file is refused or not.
- `StagesHaveRoom` (`OutputsFit`): `FilterInv` compares `total_decimation` with the
  true product, which it may be less than after a wrap but never exceeds; that
  is why the rounded-up division still leaves room.
- `NothingUndefined` (`LoadsOrRefuses`).
- `ClosedIsAccepted` (`ClosedIsBuilt`), any number of states in any order:
  `BuildInv` (named slots come first, no name twice) and `ClosedInv`: the slots
  hold declared names only, the states before the current one have all their
  triggers, each leading where it is described or, when memory ran out, nowhere.
  Since slots are filled with distinct declared names, there is room for every
  one: the pigeonhole step is by the cardinalities of finite sets.
- `FormatterIsDescribed` (`FieldsAsDescribed`): `FormatInv` says that the first free
  entry is the one after those added, and that defaults and enumerators went to
  the first field of their name.

Each part of the loader has its own variables (`StepsOfParts`), so that each
invariant is kept by the other parts without a word about them.

**`FirFilter_proofs`** - any number of stages, taps and decimations, any samples
and any `Convolve`, however the stream is cut.

- `BufferHoldsWindow` (`BufferIsWindow`) and `OutputsFromWindow` (`OutputFromWindow`).
  The invariant adds `Doubled`, the equality of the two halves of a buffer:
  without it the half that is about to be read after a wrap is not known.
- `StageFitsItsBuffer` (`FitsOutput`) and `CascadeDecimatesEvenly` (`DecimatesEvenly`).
  `PositionInv` names two positions in the stream, before the call and after it,
  and says that the countdown of each stage is where dividing one of them by the
  decimations up to the stage puts it. The products are a recursive function;
  that it obeys its equation, and is never zero, is proved from the least
  argument where it would fail (`Arithmetic`).

**`Formatter_proofs`** - any fields within the message and no wider than a word,
overlapping or not, any parameters, any widths of int, word and float.

- `Packing`: every field whose bits are its own holds those that `str_to_spt()` makes
  of the value it was last given (`PackInv`), and the bits between the fields are
  clear. A field's bits are its own until one that shares some of them is given a
  value.
- `PackingKeepsFieldsApart` (`FieldsKeepApart`), for fields of any width: what a
  field's bits read as is a function of them, whichever way a shift goes.
- `PackedFieldsReadBack` (`ReadsBack`) is about the values that a field can hold
  (`Holdable`): the field is no wider than an int, and the number, the value and
  the value without its offset are floats. It is false without either condition
  (finding 4 and section 6), and for negative values of sign and magnitude but the two
  that `Holdable` names. The bits of a number add up to it: `Pow2` and the
  value of a field are sums over positions, defined as functions, and a lemma of
  `Arithmetic` (`RunningSum`) gives a sum from its steps without induction over the
  data. A float that is given exactly the quotient of two floats returns it
  (`FloatQuotient`), so that the detour changes nothing.

**`Program_proofs`** - every command line, transmission and size of the buffers.

- `TransmitsTheMessage` (`TapeIsTransmission`) and `RadiatesTheMessage`
  (`MessageIsRadiated`). `TxInv` says where in delay, copies and zeros the back end
  is, without a fold, and how the samples accepted divide into those on the air,
  in full buffers and in the last one.
- `LeavesNothing` (`NothingLeft`) and `FreesOnlyItsOwn` (`FreesItsOwn`): `HeapInv`
  says what may be left and what is certainly there at each statement of
  `main()`; it needs `RadioInv`, since what the radio holds depends on how far
  `sdr_bladerf_init()` came, `LostInv` (samples are only lost by a generation that
  failed, after which nothing is sent and the program fails) and `WildInv` (a
  pointer is only unset when the list of parameters could not be allocated, which
  is the failure of `ookiedokie_cfg_init()`). These two are the exceptions that the
  properties make, with the mark of `--rx-filter none`, the zeros, and a radio that
  can not be set up (section 6).
- `SettingsStayInRange` (`SettingsInRange`), `SessionStartsSetUp` (`SessionIsSetUp`) and
  `StatusIsTrue` (`StatusTellsOutcome`): `StagesInv` keeps what each step of setting
  up has established. `SettingsInRange` needs an `unsigned int` of at least 16 bits
  (`ConversionAssumption`), which C guarantees.

**Only model-checked:**

- Liveness (`QuietLineReturnsToIdle`, `Returns`, `Succeeds`, `Ends`): out of the
  prover's reach, as is `ENABLED`.
- That every copy *is* delivered, the liveness in `ImplementsLink`; its safety part
  is proved.
- The round trip of other descriptions. For an arbitrary one it fails, and no
  condition on a description is known that implies it without a walk through
  its states, as in `LineInv`.

No module uses a `RECURSIVE` operator.

## 5. Findings

1. **`state_machine.c:590`** (`GenerateFast`): `append_samples()` doubles the
   buffer once, without asking whether that is enough. At 8 Msps the 8700 us of
   the Nexa device's `initial_off_time` are 69600 samples; the buffer becomes
   32768 and the rest is written past its end. The comment at `:597` says
   "Verify that we won't overrun buffer count".
2. **`keyval_list.c:85`** (`KeyvalGrowth`): the size in bytes passed to
   `realloc()` is kept as `backing_size`, "# of allocated elements"
   (`keyval_list.c:31`). The assertion on `backing_size` still holds, as proved,
   but it no longer bounds the block: the 33rd element lies outside of it.
3. **`ookiedokie.c:189`** (`CsvHeading`): `device_process()` returns the fields of
   all messages of a buffer in one list, which is printed as one CSV row under a
   heading as wide as the first list.
4. **`formatter.c:161`** (`WideFloat`): a value passes through a `float` on its way into
   the message and again when it is shown (`:479`), also with the default scaling
   and offset. From 2^24 on it is rounded, against `devices/README.md:346`.

## 6. Other disagreements met while modelling

No run demonstrates these; models follow the code, and where a property makes an
exception of one it is named.

- `state_machine.c:370`: a bit beyond `num_bits` is accepted by the `<=`, and the
  failure afterwards is dropped by the caller; `devices/README.md:188` says
  OOKiedokie "will error out". Only descriptions that are not `WellFormed` meet it.
- `state_machine.c:526`: only reset shows its sample to the next state; an
  `always` trigger elsewhere does consume a sample-time, against
  `devices/README.md:181`.
- `state_machine.c:511`: the sample on which a state is entered is not counted in
  `elapsed_us`, so that durations are measured one sample short; with a coarse
  sample period an exact duration falls out of the tolerance.
- `state_machine.c:188`, `:237`, `device.c:191`: a state that is only named as a
  target is accepted when it fills the last slot, a first state other than reset
  takes slot 0 although `:51` says slot 0 is reset, and a trigger whose next state
  finds no slot is kept with a NULL `next_state`, because the result of
  `sm_add_state_trigger()` is not looked at; `state_machine.h:148` says the
  opposite of what is accepted then.
- `state_machine.c:284`, `:879`, `formatter.c:133`, `:901`: when memory runs out while
  a device is loaded, a pointer that was not allocated is freed, an array that is
  not there is walked over, or a formatter is returned after it was freed.
  `LoadsOrRefuses` says that these, `find.c:135` without `$HOME`, and `fir.c:198` with
  decimations that multiply to zero are all there is of the kind.
- `device.c:613`: when `keyval_list_init()` fails, `status` is still the 0 of
  `populate_device()`. `device_init()` returns a device without a list, against
  `device.h:45`: "device specification handle on sucess, NULL on failure". Every
  message it decodes is lost. `ReturnsAllOrNothing` names it.
- `formatter.c:774`: the bits of a value are tested with `1 << src_bit`, where 1 is an
  `int`. `:274` accepts fields of up to 64 bits; above 32 the shift is undefined and
  the field does not come back, against `devices/README.md:340`. `Holdable`, and with
  it `ReadsBack`, leaves these fields out.
- `bladeRF_file.c:112`: `fread()` returning 0 is `SDR_FILE_EOF` whatever the cause,
  `ferror()` is not asked, and `ookiedokie_rx()` makes it a success; what an error
  leaves of a buffer is filled up with zeros as at the end. `sdr.h:34`: "Status code
  returned from raw sample files when EOF is hit". `StopsCleanly` says that a read
  error ends a session this way.
- `main.c:579`: `main()` ignores that `ookiedokie_cfg_init()` failed. Nine fields are
  unset then, and `ookiedokie_cfg_deinit()` frees what happens to be in the five
  pointers among them, against `ookiedokie_cfg.h:103`: "Deinitialize and deallocate
  fields in the provided runtime configuration". `FreesItsOwn` names it.
- `main.c:663`: `--rx-filter none` is a mark in `cfg.rx_filter` that
  `ookiedokie_cfg_deinit()` frees when `main()` fails before it is replaced.
- `state_machine.c:871`: when `sm_generate()` fails after samples were written it
  returns NULL without freeing them. `NothingLeft` says that this only happens
  where nothing was sent and the program fails.
- `bladeRF.c:195`: the handle of a radio that can not be set up is not closed;
  `ookiedokie.c:323`: the zeros of a transmission are never freed.
- `bladeRF.c:134`: the sample rate is clamped to 2-40 MHz without the device
  knowing, which then times pulses with the rate before it was clamped.
- `conversions.c:201`: a NaN is within every range; a suffix that is not known is
  ignored.
- `formatter.c:268`: a field may lie outside of the message; with two fields of one
  name the default of the second goes to the first.
- `device.c:298`: a negative `start_bit` is reported ("Invalid start bit"), but the
  field is accepted. -1 is `BIT_UNINITIALIZED` (`formatter.c:279`), so that its slot
  still looks free: the next field overwrites its name and enumerators, which
  nothing frees any more.
- `fir.c:322` against `fir.h:74`: a call may yield the ceiling of
  `input / decimation`, one more than the documented size.
- `formatter.c:191`: a negative sign-magnitude value takes its magnitude from the
  two's complement, against `devices/README.md:358`; only zero and the middle of the
  range read back. `formatter.c:176` masks a two's complement before the test of
  `:243`, so that a value that does not fit is not refused. `formatter.c:469`, `:494`,
  `:513`: a float out of the range of a 64-bit integer is converted to one, which is
  undefined.
- `conversions.c:201` after the failure of `main.c:579`: a threshold that was never set is not
  within any limits, which `SettingsInRange` exempts with the NaN.

## 7. Not modelled

- Logging, complex arithmetic, the parsing of 64-bit numbers: stateless.
- Floating-point rounding outside of the formatter. Filter results are an arbitrary
  `Convolve`; `to_sample_count()`, `elapsed_us` and the tolerance are exact in
  integers. In the formatter floats are rounded, while scaling and offset are
  integers and exponents have no limit.
- What a wild pointer (`main.c:579`) leads to once it has been read through or freed,
  and an output format or log level that was never set.
- The JSON library and `getopt_long()`: a description is its parsed content, an
  option its name and argument.
- The text of fields: printing and parsing, the float format, the values of
  enumerators, the text of a time stamp. That each is appended once is modelled.
- The frequency, bandwidth and gain of the radio, which the program passes on and
  never looks at again.
- `rx_init()` failing in the middle: `rx_deinit()` frees what is there, and the
  session reports a failure, which `Program` and `RxSession` include.

## 8. Plan

The order was: the receive machine, because every message depends on it; its
caller `DeviceProcess`; the generator and the round trip, which ties both ends
together; list, filter, formatter and receive session; then loading with
everything that may fail in it, and the program around both sessions. All of it
is done.

The proofs followed the same order: types and bounds first, then the invariants of
the parts, then the refinements. Every safety property that a passing run checks
is now stated by a theorem. What is left:

1. A condition on a description, weaker than walking through its states, under
   which `LineInv` can be stated for it; the timeouts of the states against the
   durations are the place to start.
2. `DeviceProcess` as an implementation of an abstract receiver that yields whole
   messages, of which `OutputIsMessage` and `EveryMessageFormatted` are the parts.
