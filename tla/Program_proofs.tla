---------------------------- MODULE Program_proofs ----------------------------
(***************************************************************************)
(* Theorems about one run of the program, for every command line, every    *)
(* length of a transmission and every size of the buffers: what a          *)
(* transmission hands to the back end, the limits of the settings, what a  *)
(* session starts with, and what is left when main() returns.              *)
(***************************************************************************)
EXTENDS Program, TLAPS

-----------------------------------------------------------------------------
(* How far main() has come.                                                *)

Setup1 == {"process_cmdline", "validate_cfg", "open_sdr"}
Setup2 == Setup1 \cup {"open_recorder"}
Setup3 == Setup2 \cup {"load_filter"}
Setup4 == Setup3 \cup {"load_device"}
Sessions == {"rx", "tx", "transmitting"}
Freeing == {"fir_deinit", "exited"}
Closed == {"cfg_deinit"} \cup Freeing
After == {"out"} \cup Closed

\* All was set up, and the session, if it is over, went well.
SetUp == main \in Sessions \/ (main \in After /\ exit = "success")

ControlInv ==
    /\ main \in Setup4 \cup Sessions \cup After \cup {"returned_early", "aborted"}
    /\ main \in Setup4 \cup Sessions => exit = "unset"
    /\ DOMAIN cfg = CfgFields /\ DOMAIN num = DOMAIN Numbers

\* Each part is absent until its turn.
AbsentInv ==
    /\ sdr \in {NULL} \cup Interfaces
    /\ rx_recorder \in {NULL, "bladerf_file"}
    /\ filter \in {0} \cup Decimations
    /\ main \in Setup1 => sdr = NULL
    /\ main \in Setup2 => rx_recorder = NULL
    /\ main \in Setup3 => filter = 0
    /\ main \in Setup4 => dev = NoDevice

\* What each step of the set-up has established holds from there on.
Validated ==
    /\ cfg.direction \in {"rx", "tx"}
    /\ cfg.direction = "rx" =>
           \E f \in {"device", "rx_rec_filename", "rx_rec_dig"} : cfg[f] # NULL
    /\ cfg.direction = "tx" =>
           cfg.device # NULL /\ cfg.rx_rec_filename = NULL /\ cfg.rx_filter = NULL

SdrOpened == sdr = cfg.sdr_type /\ sdr \in Interfaces

RecorderOpened == rx_recorder = NULL <=> cfg.rx_rec_filename = NULL

FilterLoaded ==
    /\ cfg.rx_filter # DISABLE_FILTER
    /\ cfg.rx_filter # NULL => filter # 0
    /\ cfg.direction = "tx" => filter = 0
    /\ cfg.rx_rec_input \in BOOLEAN /\ (filter = 0 => cfg.rx_rec_input)

DeviceLoaded ==
    /\ dev = NoDevice <=> cfg.device = NULL
    /\ dev # NoDevice => dev = DeviceRate

StagesInv ==
    /\ cfg.rx_rec_input \in BOOLEAN
    /\ main \in Setup4 \ {"process_cmdline", "validate_cfg"} \/ SetUp => Validated
    /\ main \in Setup4 \ Setup1 \/ SetUp => SdrOpened
    /\ main \in Setup4 \ Setup2 \/ SetUp => RecorderOpened
    /\ main \in Setup4 \ Setup3 \/ SetUp => FilterLoaded
    /\ SetUp => DeviceLoaded

\* The session is that of the direction, and tells how it went.
DirectionInv ==
    /\ main = "rx" => cfg.direction = "rx"
    /\ main \in {"tx", "transmitting"} => cfg.direction = "tx"
    /\ main \in After /\ exit = "success" /\ cfg.direction = "tx" => status = "ok"

\* The radio is enabled by a successful sdr_init() and until sdr_deinit().
RadioInv ==
    /\ DOMAIN radio = {"open", "rate", "enabled"}
    /\ sdr # "bladerf" => radio.enabled = "none"
    /\ main \in Setup1 \/ sdr = "bladerf_file" => ~radio.open
    /\ main \in (Setup4 \ Setup1) \cup Sessions /\ sdr = "bladerf" =>
           radio.open /\ radio.enabled = cfg.direction /\ radio.rate = RadioRate
    /\ main \in Closed => radio.enabled = "none" /\ (radio.open => sdr = NULL)

-----------------------------------------------------------------------------
(* What is on the heap.                                                    *)

\* The mark in place of the name of a filter is not on the heap, nor is what
\* a pointer points to that was never set.
OnHeap(f) == cfg[f] \notin {NULL, Wild} /\ ~(f = "rx_filter" /\ cfg[f] = DISABLE_FILTER)

CfgParts == {<<"cfg", f>> : f \in {f \in Pointers : OnHeap(f)}}

\* What may be there, by where main() is.
MayBeLeft ==
    (IF main \in Freeing THEN {} ELSE CfgParts)
    \cup (IF main \in Closed THEN {} ELSE {<<"main", "dev">>} \cup BackEndParts("sdr", sdr)
                                          \cup BackEndParts("rx_recorder", rx_recorder))
    \cup (IF main = "exited" THEN {} ELSE {<<"main", "filter">>})
    \cup (IF main = "transmitting" THEN {<<"tx", "samples">>} ELSE {})
    \cup {<<"tx", "zeros">>, <<"tx", "lost">>}

\* A pointer is only left unset when ookiedokie_cfg_init() has failed.
WildInv == \A f \in Pointers : cfg[f] = Wild => cfg.device_params = NULL

HeapInv ==
    /\ main # "aborted" => heap \subseteq MayBeLeft
    /\ main \notin Freeing \cup {"aborted"} => CfgParts \subseteq heap /\ bad_frees = {}
    /\ FreesItsOwn
    /\ main \in {"out", "cfg_deinit"} /\ cfg.rx_filter = DISABLE_FILTER => exit = "failure"
    /\ WildInv

\* Samples are lost when they could not be generated, before any is sent.
LostInv ==
    <<"tx", "lost">> \in heap =>
        /\ main \notin Setup4 \cup {"rx", "tx", "returned_early"}
        /\ pc = "returned" /\ status = "error" /\ tape = <<>>
        /\ main \in After => exit = "failure"

-----------------------------------------------------------------------------
(* The transmission.                                                       *)

TxIdle ==
    /\ pc = "generate" /\ status = "unset" /\ tape = <<>>
    /\ copy = 0 /\ total = 0 /\ chunk = 0 /\ radiated = 0

\* What has been handed to sdr_tx() before this call.
Before ==
    CASE pc = "generate" -> 0
      [] pc = "delay"    -> copy * Period
      [] pc = "message"  -> copy * Period + DelaySamples
      [] pc = "flush"    -> TxCount * Period

TxPlace ==
    /\ pc \in {"generate", "delay", "message", "flush", "returned"}
    /\ copy \in Nat /\ total \in Nat /\ chunk \in Nat /\ radiated \in Nat
    /\ tape \in Seq({"signal", "zero"})
    /\ pc = "generate" => TxIdle
    /\ pc \in {"delay", "message"} => copy < TxCount
    /\ Sending => total <= Length /\ chunk <= total /\ Len(tape) = Before + total - chunk
    /\ status = "ok" => pc = "returned"

\* No more waits for the hardware than its buffers hold.
Waiting == sdr = "bladerf" => Len(tape) - radiated <= NumBuffers * SamplesPerBuffer

Sent == TxPlace /\ TapeIsTransmission /\ Waiting

TxInv == Sent /\ (main \in Setup4 \cup {"rx", "tx"} => TxIdle)

ProgramInv ==
    /\ ControlInv /\ AbsentInv /\ StagesInv /\ DirectionInv /\ RadioInv /\ HeapInv /\ LostInv
    /\ TxInv /\ SettingsInRange

-----------------------------------------------------------------------------
(* The command line.                                                       *)

\* An option sets some of cfg and num, or ends the program.
LEMMA OptionEffect ==
    ASSUME NEW o \in Options, ProcessOption(o), DOMAIN cfg = CfgFields, DOMAIN num = DOMAIN Numbers
    PROVE  /\ main = "process_cmdline" /\ UNCHANGED setup
           /\ DOMAIN cfg' = CfgFields /\ DOMAIN num' = DOMAIN Numbers
           /\ \/ main' = main /\ exit' = exit
              \/ main' = "returned_early" /\ UNCHANGED <<cfg, num, heap>>
           /\ cfg'.rx_rec_input \in {cfg.rx_rec_input, TRUE}
           /\ cfg'.device_params = cfg.device_params
<1> USE DEF SetString, CmdlineError, ReturnEarly, Goto
<1>0. main = "process_cmdline" /\ UNCHANGED setup
  BY DEF ProcessOption
<1>1. CASE DirectionOption(o)
  BY <1>0, <1>1 DEF DirectionOption, CfgFields, Pointers
<1>2. CASE StringOption(o)
  BY <1>0, <1>2 DEF StringOption, CfgFields, Pointers
<1>3. CASE RecorderOption(o)
  BY <1>0, <1>3 DEF RecorderOption, CfgFields, Pointers
<1>4. CASE NumberOption(o)
  BY <1>0, <1>4 DEF NumberOption
<1>5. CASE FormatOption(o) \/ ParamOption(o) \/ PlainOption(o)
  BY <1>0, <1>5 DEF FormatOption, ParamOption, PlainOption, CfgFields, Pointers
<1> QED BY <1>1, <1>2, <1>3, <1>4, <1>5 DEF ProcessOption

LEMMA ControlNext == ControlInv /\ StagesInv /\ [Next]_vars => ControlInv'
<1> SUFFICES ASSUME ControlInv, StagesInv, [Next]_vars PROVE ControlInv'
  OBVIOUS
<1> USE DEF ControlInv, Goto, Failure, Setup4, Setup3, Setup2, Setup1, Sessions, After, Closed, Freeing
<1>1. ASSUME NEW o \in Options, ProcessOption(o) PROVE ControlInv'
  BY <1>1, OptionEffect DEF ControlInv
<1>2. CASE EndOfOptions \/ ValidateCfg
  BY <1>2 DEF EndOfOptions, ValidateCfg
<1>3. CASE OpenSdr \/ OpenRecorder
  BY <1>3 DEF OpenSdr, OpenRecorder, OpenFails
<1>4. CASE LoadFilter \/ LoadDevice
  BY <1>4 DEF LoadFilter, LoadDevice, StagesInv, Validated, CfgFields, Pointers, Strings
<1>5. CASE Receive \/ TransmitZeros \/ TransmitGenerates \/ TransmitSends \/ TransmitReturns \/ Radiates
  BY <1>5 DEF Receive, TransmitZeros, TransmitGenerates, TransmitSends, TransmitReturns, Radiates, SetupDone
<1>6. CASE CloseAll \/ DeinitCfg \/ DeinitFilter \/ ReadsWild
  BY <1>6 DEF CloseAll, DeinitCfg, DeinitFilter, ReadsWild
<1>7. CASE UNCHANGED vars
  BY <1>7 DEF vars
<1> QED BY <1>1, <1>2, <1>3, <1>4, <1>5, <1>6, <1>7 DEF Next, Run

\* Each part is set once, at its turn.
LEMMA AbsentInvNext == ControlInv /\ StagesInv /\ AbsentInv /\ [Next]_vars => AbsentInv'
<1> SUFFICES ASSUME ControlInv, StagesInv, AbsentInv, [Next]_vars PROVE AbsentInv'
  OBVIOUS
<1> USE DEF AbsentInv, Goto, Failure, Setup4, Setup3, Setup2, Setup1, Sessions, After, Closed, Freeing
<1>1. ASSUME NEW o \in Options, ProcessOption(o) PROVE AbsentInv'
  BY <1>1, OptionEffect DEF setup, txVars, ControlInv, ControlInv, Interfaces
<1>2. CASE EndOfOptions \/ ValidateCfg
  BY <1>2 DEF EndOfOptions, ValidateCfg, setup, txVars, ControlInv, Interfaces
<1>3. CASE OpenSdr \/ OpenRecorder
  BY <1>3 DEF OpenSdr, OpenRecorder, OpenFails, txVars, ControlInv, Interfaces
<1>4. CASE LoadFilter \/ LoadDevice
  BY <1>4 DEF LoadFilter, LoadDevice, txVars, ControlInv, StagesInv, Validated, CfgFields, Pointers, Strings, Interfaces, LoadedFilter, NoFilter
<1>5. CASE Receive \/ TransmitZeros \/ TransmitReturns
  BY <1>5 DEF Receive, TransmitZeros, TransmitReturns, SetupDone, txVars, ControlInv, Interfaces
<1>6. CASE TransmitGenerates \/ TransmitSends \/ Radiates
  BY <1>6 DEF TransmitGenerates, TransmitSends, Radiates, SetupDone, ControlInv, Interfaces
<1>7. CASE CloseAll \/ DeinitCfg \/ DeinitFilter \/ ReadsWild
  BY <1>7 DEF CloseAll, DeinitCfg, DeinitFilter, ReadsWild, setup, txVars, ControlInv, Interfaces
<1>8. CASE UNCHANGED vars
  BY <1>8 DEF vars, txVars, ControlInv, Interfaces
<1> QED BY <1>1, <1>2, <1>3, <1>4, <1>5, <1>6, <1>7, <1>8 DEF Next, Run

\* The radio is closed by sdr_deinit(), unless it could not be set up.
LEMMA RadioInvNext == ControlInv /\ StagesInv /\ AbsentInv /\ RadioInv /\ [Next]_vars => RadioInv'
<1> SUFFICES ASSUME ControlInv, StagesInv, AbsentInv, RadioInv, [Next]_vars PROVE RadioInv'
  OBVIOUS
<1> USE DEF RadioInv, Goto, Failure, Setup4, Setup3, Setup2, Setup1, Sessions, After, Closed, Freeing
<1>1. ASSUME NEW o \in Options, ProcessOption(o) PROVE RadioInv'
  BY <1>1, OptionEffect DEF setup, txVars, ControlInv, ControlInv, AbsentInv, Interfaces, RadioRate
<1>2. CASE EndOfOptions \/ ValidateCfg
  BY <1>2 DEF EndOfOptions, ValidateCfg, setup, txVars, ControlInv, AbsentInv, Interfaces, RadioRate
<1>3. CASE OpenRecorder
  BY <1>3 DEF OpenRecorder, txVars, ControlInv, AbsentInv, Interfaces, RadioRate
<1>9. CASE OpenSdr
  <2>1. Len(RadioSteps) = 7
    BY DEF RadioSteps
  <2>2. /\ RadioAfter(7).open /\ RadioAfter(7).rate = RadioRate
        /\ RadioAfter(7).enabled = cfg.direction
        /\ \A k \in 0 .. 6 : RadioAfter(k).enabled = "none"
        /\ \A k : DOMAIN RadioAfter(k) = {"open", "rate", "enabled"}
    <3>1. RadioAfter(7).open
      <4>1. RadioAfter(7).open = (7 >= 1)
        BY Zenon DEF RadioAfter
      <4>2. 7 >= 1
        OBVIOUS
      <4> QED BY <4>1, <4>2
    <3>2. RadioAfter(7).rate = RadioRate /\ RadioAfter(7).enabled = cfg.direction
      BY DEF RadioAfter
    <3>3. \A k \in 0 .. 6 : RadioAfter(k).enabled = "none"
      BY DEF RadioAfter
    <3>4. \A k : DOMAIN RadioAfter(k) = {"open", "rate", "enabled"}
      BY DEF RadioAfter
    <3> QED BY <3>1, <3>2, <3>3, <3>4
  <2>3. main = "open_sdr" /\ cfg' = cfg /\ num' = num /\ RadioRate' = RadioRate
    BY <1>9 DEF OpenSdr, RadioRate
  <2>4. CASE sdr' = "bladerf"
    <3>1. cfg.sdr_type = "bladerf" /\ radio' = RadioAfter(7) /\ main' = "open_recorder"
      BY <1>9, <2>1, <2>4 DEF OpenSdr, OpenFails, AbsentInv, NULL
    <3> QED BY <2>2, <2>3, <2>4, <3>1
  <2>5. CASE sdr' # "bladerf"
    <3>1. /\ DOMAIN radio' = {"open", "rate", "enabled"} /\ radio'.enabled = "none"
          /\ radio' = radio \/ (sdr' = NULL /\ main' = "out")
      <4>1. radio' = radio \/ (sdr' = NULL /\ main' = "out" /\ \E k \in 0 .. 6 : radio' = RadioAfter(k))
        BY <1>9, <2>1, <2>3, <2>5 DEF OpenSdr, OpenFails, AbsentInv
      <4> QED BY <1>9, <2>2, <2>3, <4>1 DEF AbsentInv, NULL
    <3>2. main' \in {"out", "open_recorder"}
      BY <1>9 DEF OpenSdr, OpenFails
    <3> QED BY <2>3, <2>5, <3>1, <3>2 DEF NULL
  <2> QED BY <2>4, <2>5
<1>4. CASE LoadFilter \/ LoadDevice
  BY <1>4 DEF LoadFilter, LoadDevice, txVars, ControlInv, AbsentInv, Interfaces, RadioRate, StagesInv, Validated, CfgFields, Pointers, Strings
<1>5. CASE Receive \/ TransmitZeros \/ TransmitReturns
  BY <1>5 DEF Receive, TransmitZeros, TransmitReturns, SetupDone, txVars, ControlInv, AbsentInv, Interfaces, RadioRate
<1>6. CASE TransmitGenerates \/ TransmitSends \/ Radiates
  BY <1>6 DEF TransmitGenerates, TransmitSends, Radiates, SetupDone, ControlInv, AbsentInv, Interfaces, RadioRate
<1>7. CASE CloseAll \/ DeinitCfg \/ DeinitFilter \/ ReadsWild
  BY <1>7 DEF CloseAll, DeinitCfg, DeinitFilter, ReadsWild, setup, txVars, ControlInv, AbsentInv, Interfaces, RadioRate
<1>8. CASE UNCHANGED vars
  BY <1>8 DEF vars, txVars, ControlInv, AbsentInv, Interfaces, RadioRate
<1> QED BY <1>1, <1>2, <1>3, <1>4, <1>5, <1>6, <1>7, <1>8, <1>9 DEF Next, Run

\* The rate of the device is no negative number, and not the mark.
LEMMA RateIsNat ==
    ASSUME SettingsInRange, DOMAIN num = DOMAIN Numbers, AbsentInv
    PROVE  num.samplerate \in Nat /\ DeviceRate \in Nat
<1>1. /\ "samplerate" \in DOMAIN Numbers
      /\ Numbers["samplerate"].parser = "suffix"
      /\ Numbers["samplerate"].min = 1
      /\ Numbers["samplerate"].max = 100 * MHz
  BY DEF Numbers
<1>2. num.samplerate \in 1 .. 100 * MHz \/ num.samplerate \in {0, UintMax}
  BY <1>1 DEF SettingsInRange
<1>3. num.samplerate \in Nat
  BY <1>2, ConversionAssumption
<1>4. filter = 0 \/ filter \in Nat \ {0}
  BY ProgramAssumption DEF AbsentInv
<1> QED BY <1>3, <1>4 DEF DeviceRate

\* What a step of the set-up has established is not undone.
LEMMA StagesInvNext == ControlInv /\ AbsentInv /\ SettingsInRange /\ StagesInv /\ [Next]_vars => StagesInv'
<1> SUFFICES ASSUME ControlInv, AbsentInv, SettingsInRange, StagesInv, [Next]_vars PROVE StagesInv'
  OBVIOUS
<1> USE DEF StagesInv, Goto, Failure, Setup4, Setup3, Setup2, Setup1, Sessions, After, Closed, Freeing
<1>1. ASSUME NEW o \in Options, ProcessOption(o) PROVE StagesInv'
  <2>1. main' \in {"process_cmdline", "returned_early"} /\ cfg'.rx_rec_input \in BOOLEAN
    BY <1>1, OptionEffect DEF ControlInv
  <2> QED BY <2>1 DEF SetUp
<1>2. CASE EndOfOptions \/ ValidateCfg
  <2>1. CASE EndOfOptions
    BY <1>2, <2>1 DEF EndOfOptions, ControlInv, CfgFields, Pointers, Strings, SetUp
  <2>2. CASE ValidateCfg
    BY <1>2, <2>2 DEF ValidateCfg, ValidCfg, ControlInv, SetUp, Validated
  <2> QED BY <1>2, <2>1, <2>2
<1>3. CASE OpenSdr \/ OpenRecorder
  <2>1. CASE OpenSdr
    <3>1. cfg' = cfg /\ main = "open_sdr"
      BY <2>1 DEF OpenSdr
    <3>2. \/ main' = "out" /\ exit' = "failure"
          \/ main' = "open_recorder" /\ SdrOpened'
      BY <2>1 DEF OpenSdr, OpenFails, SdrOpened, Interfaces
    <3> QED BY <3>1, <3>2 DEF ControlInv, SetUp, Validated
  <2>2. CASE OpenRecorder
    <3>1. cfg' = cfg /\ sdr' = sdr /\ main = "open_recorder"
      BY <2>2 DEF OpenRecorder
    <3>2. \/ main' = "out" /\ exit' = "failure"
          \/ main' = "load_filter" /\ RecorderOpened'
      BY <2>2 DEF OpenRecorder, RecorderOpened, AbsentInv, NULL
    <3> QED BY <3>1, <3>2 DEF ControlInv, SetUp, Validated, SdrOpened
  <2> QED BY <1>3, <2>1, <2>2
<1>4. CASE LoadFilter \/ LoadDevice
  <2>1. CASE LoadFilter
    <3>1. main = "load_filter" /\ sdr' = sdr /\ rx_recorder' = rx_recorder
      BY <2>1 DEF LoadFilter
    <3>2. CASE main' = "out"
      BY <2>1, <3>2 DEF LoadFilter, ControlInv, SetUp
    <3>3. CASE main' = "load_device"
      <4>1. /\ cfg' = [cfg EXCEPT !.rx_filter = FilterName, !.rx_rec_input = RecordsInput]
            /\ (MayLoad /\ LoadedFilter) \/ (~MustLoad /\ NoFilter)
        BY <2>1, <3>3 DEF LoadFilter
      <4>2. RecordsInput \in BOOLEAN /\ (filter' = 0 => RecordsInput)
        BY DEF RecordsInput
      <4>3. /\ cfg'.rx_filter = FilterName /\ cfg'.rx_rec_input = RecordsInput
            /\ \A f \in CfgFields \ {"rx_filter", "rx_rec_input"} : cfg'[f] = cfg[f]
        BY <4>1 DEF ControlInv, CfgFields, Pointers, Strings
      <4>4. Validated' /\ SdrOpened' /\ RecorderOpened'
        BY <3>1, <4>3 DEF Validated, SdrOpened, RecorderOpened, CfgFields, Pointers, Strings, FilterName
      <4>5. FilterLoaded'
        <5>1. filter' \in Decimations => filter' # 0
          BY ProgramAssumption
        <5>2. cfg'.rx_filter # DISABLE_FILTER /\ (cfg'.rx_filter # NULL => MustLoad)
          <6>1. DISABLE_FILTER # NULL
            BY DEF DISABLE_FILTER, NULL
          <6> QED BY <4>3, <6>1 DEF FilterName, MustLoad
        <5>3. cfg.direction = "tx" => ~MayLoad /\ filter = 0
          BY <3>1 DEF Validated, MayLoad, MustLoad, AbsentInv
        <5> QED BY <4>1, <4>2, <4>3, <5>1, <5>2, <5>3
                DEF FilterLoaded, LoadedFilter, NoFilter, MayLoad, CfgFields, Pointers, Strings
      <4> QED BY <3>3, <4>3, <4>4, <4>5, <4>2 DEF ControlInv, SetUp
    <3> QED BY <2>1, <3>2, <3>3 DEF LoadFilter
  <2>2. CASE LoadDevice
    <3>1. /\ main = "load_device" /\ main' \in {"out", "rx", "tx"}
          /\ cfg' = cfg /\ sdr' = sdr /\ rx_recorder' = rx_recorder /\ filter' = filter /\ num' = num
      BY <2>2 DEF LoadDevice, Validated
    <3>2. CASE main' = "out"
      BY <2>2, <3>1, <3>2 DEF LoadDevice, ControlInv, SetUp, Validated
    <3>3. CASE main' # "out"
      <4>1. DeviceRate \in Nat /\ DeviceRate' = DeviceRate
        BY <3>1, RateIsNat DEF ControlInv, DeviceRate
      <4>2. DeviceLoaded'
        BY <2>2, <3>1, <3>3, <4>1 DEF LoadDevice, DeviceLoaded, NoDevice, AbsentInv
      <4> QED BY <3>1, <4>2 DEF Validated, SdrOpened, RecorderOpened, FilterLoaded, SetUp
    <3> QED BY <3>2, <3>3
  <2> QED BY <1>4, <2>1, <2>2
<1>5. CASE Receive \/ TransmitZeros \/ TransmitReturns
  BY <1>5 DEF Receive, TransmitZeros, TransmitReturns, SetupDone, txVars, ControlInv, AbsentInv, Validated, SdrOpened, RecorderOpened, FilterLoaded, DeviceLoaded, SetUp, CfgFields, Pointers, Strings, DeviceRate
<1>6. CASE TransmitGenerates \/ TransmitSends \/ Radiates
  BY <1>6 DEF TransmitGenerates, TransmitSends, Radiates, SetupDone, ControlInv, AbsentInv, Validated, SdrOpened, RecorderOpened, FilterLoaded, DeviceLoaded, SetUp, CfgFields, Pointers, Strings, DeviceRate
<1>7. CASE CloseAll \/ DeinitCfg \/ DeinitFilter \/ ReadsWild
  BY <1>7 DEF CloseAll, DeinitCfg, DeinitFilter, ReadsWild, setup, txVars, ControlInv, AbsentInv, Validated, SdrOpened, RecorderOpened, FilterLoaded, DeviceLoaded, SetUp, CfgFields, Pointers, Strings, DeviceRate
<1>8. CASE UNCHANGED vars
  BY <1>8 DEF vars, txVars, ControlInv, AbsentInv, Validated, SdrOpened, RecorderOpened, FilterLoaded, DeviceLoaded, SetUp, CfgFields, Pointers, Strings, DeviceRate
<1> QED BY <1>1, <1>2, <1>3, <1>4, <1>5, <1>6, <1>7, <1>8 DEF Next, Run

\* A session is that of the direction.
LEMMA DirectionInvNext == ControlInv /\ StagesInv /\ TxInv /\ DirectionInv /\ [Next]_vars => DirectionInv'
<1> SUFFICES ASSUME ControlInv, StagesInv, TxInv, DirectionInv, [Next]_vars PROVE DirectionInv'
  OBVIOUS
<1> USE DEF DirectionInv, Goto, Failure, Setup4, Setup3, Setup2, Setup1, Sessions, After, Closed, Freeing
<1>1. ASSUME NEW o \in Options, ProcessOption(o) PROVE DirectionInv'
  BY <1>1, OptionEffect DEF setup, txVars, ControlInv, ControlInv, CfgFields, Pointers, Strings
<1>2. CASE EndOfOptions \/ ValidateCfg
  BY <1>2 DEF EndOfOptions, ValidateCfg, setup, txVars, ControlInv, CfgFields, Pointers, Strings
<1>3. CASE OpenSdr \/ OpenRecorder
  BY <1>3 DEF OpenSdr, OpenRecorder, OpenFails, txVars, ControlInv, CfgFields, Pointers, Strings
<1>4. CASE LoadFilter \/ LoadDevice
  BY <1>4 DEF LoadFilter, LoadDevice, txVars, StagesInv, Validated, CfgFields, Pointers, Strings, ControlInv
<1>5. CASE Receive \/ TransmitZeros \/ TransmitReturns
  BY <1>5 DEF Receive, TransmitZeros, TransmitReturns, SetupDone, txVars, ControlInv, CfgFields, Pointers, Strings
<1>6. CASE TransmitGenerates \/ TransmitSends \/ Radiates
  BY <1>6 DEF TransmitGenerates, TransmitSends, Radiates, SetupDone, ControlInv, Radiate
<1>7. CASE CloseAll \/ DeinitCfg \/ DeinitFilter \/ ReadsWild
  BY <1>7 DEF CloseAll, DeinitCfg, DeinitFilter, ReadsWild, setup, txVars, ControlInv, CfgFields, Pointers, Strings
<1>8. CASE UNCHANGED vars
  BY <1>8 DEF vars, txVars, ControlInv, CfgFields, Pointers, Strings
<1> QED BY <1>1, <1>2, <1>3, <1>4, <1>5, <1>6, <1>7, <1>8 DEF Next, Run

-----------------------------------------------------------------------------
(* The limits of the settings.                                             *)

\* What a conversion accepts is within the limits it is given.
LEMMA ConvertedInRange ==
    ASSUME NEW parser \in {"integer", "double", "suffix"}, NEW t, NEW lo, NEW hi,
           NEW v \in Converted(parser, t, lo, hi)
    PROVE  \/ v \in lo .. hi
           \/ parser = "double" /\ v = NaN
           \/ parser = "suffix" /\ v \in {0, UintMax}
<1>1. CASE parser = "integer"
  BY <1>1 DEF Converted, IntegerAccepts
<1>2. CASE parser = "double"
  BY <1>2 DEF Converted, DoubleAccepts, DoubleValue, IntegerAccepts
<1>3. CASE parser = "suffix"
  BY <1>3 DEF Converted, SuffixAccepts, SuffixValues
<1> QED BY <1>1, <1>2, <1>3

LEMMA SettingsInit == Init => SettingsInRange
<1> SUFFICES ASSUME Init, NEW n \in DOMAIN num,
                    ~(n = "rx_threshold" /\ cfg.device_params = NULL)
             PROVE  num[n] \in Numbers[n].min .. Numbers[n].max
  <2>1. Numbers["rx_threshold"].parser = "double"
    BY DEF Numbers
  <2> QED BY <2>1 DEF SettingsInRange
<1>1. n \in DOMAIN Numbers /\ num[n] = Numbers[n].init
  <2>1. CASE CfgInit
    BY <2>1 DEF CfgInit, DefaultNum
  <2>2. CASE CfgInitFails
    <3>1. cfg.device_params = NULL
      BY <2>2 DEF CfgInitFails, CfgFields, Pointers, Unset
    <3> QED BY <2>2, <3>1 DEF CfgInitFails, DefaultNum
  <2> QED BY <2>1, <2>2 DEF Init
<1>2. /\ UintMax \in Nat /\ UintMax >= 65535 /\ MHz \in Nat \ {0}
      /\ {TxCount, NumBuffers, SamplesPerBuffer} \subseteq 1 .. UintMax
  BY ConversionAssumption, ProgramAssumption
<1>3. /\ (43392 * MHz) \div 100 \in 0 .. 4000 * MHz
      /\ 3 * MHz \in 1 .. 100 * MHz /\ (3 * MHz) \div 2 \in 1 .. 100 * MHz
  BY <1>2
<1>4. Numbers[n].init \in Numbers[n].min .. Numbers[n].max
  BY <1>1, <1>2, <1>3 DEF Numbers
<1> QED BY <1>1, <1>4

\* The list of parameters is there from the beginning, or never.
LEMMA ParamsKept == ControlInv /\ [Next]_vars => cfg'.device_params = cfg.device_params
<1> SUFFICES ASSUME ControlInv, [Next]_vars PROVE cfg'.device_params = cfg.device_params
  OBVIOUS
<1>1. ASSUME NEW o \in Options, ProcessOption(o) PROVE cfg'.device_params = cfg.device_params
  BY <1>1, OptionEffect DEF ControlInv
<1>2. CASE EndOfOptions \/ LoadFilter
  BY <1>2 DEF EndOfOptions, LoadFilter, ControlInv, CfgFields, Pointers
<1>3. ASSUME ~(\E o \in Options : ProcessOption(o)), ~EndOfOptions, ~LoadFilter PROVE UNCHANGED cfg
  BY <1>3 DEF Next, Run, vars, ValidateCfg, OpenSdr, OpenRecorder, LoadDevice, ReadsWild, Receive,
              TransmitZeros, TransmitGenerates, TransmitSends, TransmitReturns, CloseAll,
              DeinitCfg, DeinitFilter, Radiates, SetupDone
<1> QED BY <1>1, <1>2, <1>3

LEMMA SettingsNext == SettingsInRange /\ ControlInv /\ [Next]_vars => SettingsInRange'
<1> SUFFICES ASSUME SettingsInRange, ControlInv, [Next]_vars PROVE SettingsInRange'
  OBVIOUS
<1>0. cfg'.device_params = cfg.device_params
  BY ParamsKept
<1>1. CASE UNCHANGED num
  BY <1>0, <1>1 DEF SettingsInRange
<1>2. ASSUME NEW o \in Options, ProcessOption(o), NumberOption(o), num' # num PROVE SettingsInRange'
  <2> DEFINE n == Numbers[o.name]
  <2>1. PICK v \in Converted(n.parser, o.arg, n.min, n.max) : num' = [num EXCEPT ![o.name] = v]
    BY <1>2 DEF NumberOption, CmdlineError, ReturnEarly
  <2>2. o.name \in DOMAIN Numbers /\ n.parser \in {"integer", "double", "suffix"}
    BY <1>2 DEF NumberOption, Numbers
  <2>3. \/ v \in n.min .. n.max
        \/ n.parser = "double" /\ v = NaN
        \/ n.parser = "suffix" /\ v \in {0, UintMax}
    BY <2>2, ConvertedInRange
  <2>4. DOMAIN num' = DOMAIN num /\ \A m \in DOMAIN num : num'[m] = IF m = o.name THEN v ELSE num[m]
    BY <2>1
  <2> QED BY <1>0, <2>3, <2>4 DEF SettingsInRange
<1>3. ASSUME NEW o \in Options, ProcessOption(o), ~NumberOption(o) PROVE UNCHANGED num
  BY <1>3 DEF ProcessOption, DirectionOption, StringOption, RecorderOption, FormatOption,
              ParamOption, PlainOption, SetString, CmdlineError, ReturnEarly
<1>4. ASSUME ~\E o \in Options : ProcessOption(o) PROVE UNCHANGED num
  BY <1>4 DEF Next, Run, vars, EndOfOptions, ValidateCfg, OpenSdr, OpenRecorder, LoadFilter,
              LoadDevice, ReadsWild, Receive, TransmitZeros, TransmitGenerates, TransmitSends,
              TransmitReturns, CloseAll, DeinitCfg, DeinitFilter, Radiates, SetupDone
<1> QED BY <1>1, <1>2, <1>3, <1>4

-----------------------------------------------------------------------------
(* The heap.                                                               *)

\* An option puts on the heap the strings it sets, and nothing else.
LEMMA OptionHeap ==
    ASSUME NEW o \in Options, ProcessOption(o), DOMAIN cfg = CfgFields
    PROVE  /\ heap \subseteq heap'
           /\ \A f \in Strings : OnHeap(f) => OnHeap(f)'
           /\ \A f \in Strings : OnHeap(f)' => OnHeap(f) \/ <<"cfg", f>> \in heap'
           /\ \A x \in heap' : x \in heap \/ \E f \in Strings : OnHeap(f)' /\ x = <<"cfg", f>>
           /\ \A f \in Strings : cfg'[f] = Wild => cfg[f] = Wild
<1> USE DEF SetString, CmdlineError, ReturnEarly, Goto, OnHeap
<1>1. CASE DirectionOption(o)
  <2>1. o.arg \notin {NULL, DISABLE_FILTER, Wild}
    BY <1>1, ProgramAssumption DEF DirectionOption, Texts, NoText
  <2> QED BY <1>1, <2>1 DEF DirectionOption, CfgFields, Pointers, Strings
<1>2. CASE StringOption(o)
  <2>1. o.arg \notin {NULL, DISABLE_FILTER, Wild} /\ DISABLE_FILTER # Wild
    BY <1>2, ProgramAssumption DEF StringOption, Texts, NoText, DISABLE_FILTER, Wild
  <2> QED BY <1>2, <2>1 DEF StringOption, CfgFields, Pointers, Strings
<1>3. CASE RecorderOption(o)
  <2>1. o.arg.file \notin {NULL, Wild} /\ o.arg.type # Wild
    BY <1>3, ProgramAssumption DEF RecorderOption, NoText
  <2> QED BY <1>3, <2>1 DEF RecorderOption, CfgFields, Pointers, Strings
<1>4. CASE NumberOption(o) \/ FormatOption(o) \/ ParamOption(o) \/ PlainOption(o)
  BY <1>4 DEF NumberOption, FormatOption, ParamOption, PlainOption, CfgFields, Pointers, Strings
<1> QED BY <1>1, <1>2, <1>3, <1>4 DEF ProcessOption

\* The parts of a back end are its owner's.
LEMMA BackEnds ==
    /\ BackEndParts("sdr", "bladerf") = RadioParts
    /\ \A owner : BackEndParts(owner, "bladerf_file") = FileParts(owner)
    /\ \A owner : BackEndParts(owner, NULL) = {}
    /\ \A owner : \A part \in FileParts(owner) : part[1] = owner
    /\ \A part \in RadioParts : part[1] = "sdr"
    /\ \A part \in CfgParts : part[1] = "cfg"
<1>1. /\ \A owner : \A part \in FileParts(owner) : part[1] = owner
      /\ \A part \in RadioParts : part[1] = "sdr"
  BY DEF FileParts, RadioParts, Owned
<1>2. \A part \in CfgParts : part[1] = "cfg"
  BY DEF CfgParts
<1>3. BackEndParts("sdr", "bladerf") = RadioParts
  BY DEF BackEndParts
<1>4. \A owner : BackEndParts(owner, "bladerf_file") = FileParts(owner)
  BY DEF BackEndParts
<1>5. \A owner : BackEndParts(owner, NULL) = {}
  BY DEF BackEndParts, NULL
<1> QED BY <1>1, <1>2, <1>3, <1>4, <1>5

\* A file handler that can not be set up leaves nothing behind.
LEMMA FailedInit ==
    ASSUME NEW owner, FileInitFails(owner)
    PROVE  heap' \subseteq heap /\ heap \ heap' \subseteq FileParts(owner)
<1>1. PICK k \in 1 .. Len(Parts) :
          heap' = FileDeinit(heap \cup Owned(owner, {Parts[n] : n \in 1 .. k - 1}), owner)
  BY DEF FileInitFails
<1>2. {Parts[n] : n \in 1 .. k - 1} \subseteq Range(Parts)
  BY DEF Range, Parts
<1>3. Owned(owner, {Parts[n] : n \in 1 .. k - 1}) \subseteq FileParts(owner)
  BY <1>2 DEF Owned, FileParts
<1> QED BY <1>1, <1>3 DEF FileDeinit

\* No step makes a pointer that is not set.
LEMMA WildNext == ControlInv /\ WildInv /\ [Next]_vars => WildInv'
<1> SUFFICES ASSUME ControlInv, WildInv, [Next]_vars,
                    \E f \in Pointers : cfg'[f] = Wild /\ cfg[f] # Wild
             PROVE  FALSE
  BY ParamsKept DEF WildInv
<1>1. PICK f \in Strings : cfg'[f] = Wild /\ cfg[f] # Wild
  BY ParamsKept DEF Pointers
<1>2. ASSUME NEW o \in Options, ProcessOption(o) PROVE FALSE
  BY <1>1, <1>2, OptionHeap DEF ControlInv
<1>3. CASE EndOfOptions
  BY <1>1, <1>3 DEF EndOfOptions, ControlInv, CfgFields, Pointers, Strings
<1>4. CASE LoadFilter
  <2>1. cfg' = cfg \/ cfg' = [cfg EXCEPT !.rx_filter = FilterName, !.rx_rec_input = RecordsInput]
    BY <1>4 DEF LoadFilter
  <2>2. FilterName \in {NULL, cfg.rx_filter} /\ NULL # Wild
    BY DEF FilterName, NULL, Wild
  <2> QED BY <1>1, <2>1, <2>2 DEF ControlInv, CfgFields, Pointers, Strings
<1>5. ASSUME ~(\E o \in Options : ProcessOption(o)), ~EndOfOptions, ~LoadFilter PROVE UNCHANGED cfg
  BY <1>5 DEF Next, Run, vars, ValidateCfg, OpenSdr, OpenRecorder, LoadDevice, ReadsWild, Receive,
              TransmitZeros, TransmitGenerates, TransmitSends, TransmitReturns, CloseAll,
              DeinitCfg, DeinitFilter, Radiates, SetupDone
<1> QED BY <1>1, <1>2, <1>3, <1>4, <1>5

LEMMA HeapNext ==
    ControlInv /\ StagesInv /\ AbsentInv /\ HeapInv /\ [Next]_vars => HeapInv'
<1> SUFFICES ASSUME ControlInv, StagesInv, AbsentInv, HeapInv, [Next]_vars PROVE HeapInv'
  OBVIOUS
<1> USE DEF Goto, Failure, Setup4, Setup3, Setup2, Setup1, Sessions, After, Closed, Freeing
<1>w. WildInv'
  BY WildNext DEF HeapInv
<1>f. bad_frees' = {} \/ UNCHANGED <<cfg, exit, bad_frees>> => FreesItsOwn'
  BY DEF HeapInv, FreesItsOwn
<1>1. ASSUME NEW o \in Options, ProcessOption(o) PROVE HeapInv'
  <2>1. /\ UNCHANGED setup /\ main = "process_cmdline" /\ main' \in {"process_cmdline", "returned_early"}
    BY <1>1, OptionEffect DEF ControlInv
  <2>4. CfgParts \subseteq heap /\ bad_frees = {} /\ heap \subseteq MayBeLeft
    BY <2>1 DEF HeapInv
  <2>5. /\ heap \subseteq heap'
        /\ \A f \in Pointers : OnHeap(f) => OnHeap(f)'
        /\ \A f \in Pointers : OnHeap(f)' => OnHeap(f) \/ <<"cfg", f>> \in heap'
        /\ \A x \in heap' : x \in heap \/ \E f \in Pointers : OnHeap(f)' /\ x = <<"cfg", f>>
    <3>1. OnHeap("device_params")' <=> OnHeap("device_params")
      BY <1>1, OptionEffect DEF ControlInv, OnHeap
    <3> QED BY <1>1, <3>1, OptionHeap DEF ControlInv, Pointers
  <2>2. CfgParts' \subseteq heap' /\ CfgParts \subseteq CfgParts' /\ heap' \subseteq heap \cup CfgParts'
    BY <2>4, <2>5 DEF CfgParts
  <2>3. BackEndParts("sdr", sdr)' = BackEndParts("sdr", sdr)
        /\ BackEndParts("rx_recorder", rx_recorder)' = BackEndParts("rx_recorder", rx_recorder)
    BY <2>1 DEF setup
  <2> QED BY <1>w, <1>f, <2>1, <2>2, <2>3, <2>4 DEF HeapInv, MayBeLeft, setup
\* Steps that leave cfg as it is.
<1>c. UNCHANGED cfg => CfgParts' = CfgParts
  BY DEF CfgParts, OnHeap
<1>b. /\ UNCHANGED sdr => BackEndParts("sdr", sdr)' = BackEndParts("sdr", sdr)
      /\ UNCHANGED rx_recorder =>
             BackEndParts("rx_recorder", rx_recorder)' = BackEndParts("rx_recorder", rx_recorder)
  OBVIOUS
<1>2. CASE EndOfOptions \/ ValidateCfg
  <2>1. /\ UNCHANGED setup /\ heap' = heap /\ main \in Setup1 /\ main' \in Setup3 \cup {"out"}
        /\ main' = "out" => exit' = "failure"
    BY <1>2 DEF EndOfOptions, ValidateCfg, setup
  <2>2. \A f \in Pointers : cfg'[f] = cfg[f]
    BY <1>2 DEF EndOfOptions, ValidateCfg, ControlInv, CfgFields, Pointers, Strings
  <2>3. CfgParts' = CfgParts
    BY <2>2 DEF CfgParts, OnHeap
  <2> QED BY <1>w, <1>f, <1>b, <2>1, <2>3 DEF HeapInv, MayBeLeft, setup
<1>3. CASE OpenSdr
  <2>1. /\ UNCHANGED <<cfg, rx_recorder, bad_frees>> /\ main = "open_sdr"
        /\ main' \in {"open_recorder", "out"} /\ (main' = "out" => exit' = "failure")
    BY <1>3 DEF OpenSdr, OpenFails
  <2>2. \/ heap' \subseteq heap /\ heap \ heap' \subseteq FileParts("sdr") /\ sdr' = sdr
        \/ sdr' = "bladerf_file" /\ heap' = heap \cup FileParts("sdr")
        \/ sdr' = "bladerf" /\ heap' = heap \cup RadioParts
    BY <1>3, FailedInit DEF OpenSdr, OpenFails
  <2>3. sdr = NULL /\ CfgParts' = CfgParts
    BY <1>c, <2>1 DEF AbsentInv
  <2>4. /\ heap' \subseteq heap \cup BackEndParts("sdr", sdr)'
        /\ CfgParts' \subseteq heap'
    BY <2>1, <2>2, <2>3, BackEnds DEF HeapInv
  <2>5. BackEndParts("sdr", sdr) \subseteq BackEndParts("sdr", sdr)'
    BY <2>3, BackEnds
  <2> QED BY <1>w, <1>f, <1>b, <2>1, <2>3, <2>4, <2>5 DEF HeapInv, MayBeLeft
<1>4. CASE OpenRecorder
  <2>1. /\ UNCHANGED <<cfg, sdr, bad_frees>> /\ main = "open_recorder"
        /\ main' \in {"load_filter", "out"} /\ (main' = "out" => exit' = "failure")
    BY <1>4 DEF OpenRecorder
  <2>2. \/ heap' \subseteq heap /\ heap \ heap' \subseteq FileParts("rx_recorder")
            /\ rx_recorder' = rx_recorder
        \/ rx_recorder' = "bladerf_file" /\ heap' = heap \cup FileParts("rx_recorder")
    BY <1>4, FailedInit DEF OpenRecorder
  <2>3. rx_recorder = NULL /\ CfgParts' = CfgParts
    BY <1>c, <2>1 DEF AbsentInv
  <2>4. /\ heap' \subseteq heap \cup BackEndParts("rx_recorder", rx_recorder)'
        /\ CfgParts' \subseteq heap'
    BY <2>1, <2>2, <2>3, BackEnds DEF HeapInv
  <2>5. BackEndParts("rx_recorder", rx_recorder) \subseteq BackEndParts("rx_recorder", rx_recorder)'
    BY <2>3, BackEnds
  <2> QED BY <1>w, <1>f, <1>b, <2>1, <2>3, <2>4, <2>5 DEF HeapInv, MayBeLeft
<1>6. CASE LoadFilter
  <2>1. /\ UNCHANGED <<sdr, rx_recorder, bad_frees>> /\ main = "load_filter"
        /\ main' \in {"load_device", "out"} /\ (main' = "out" => exit' = "failure")
        /\ heap \subseteq heap' /\ heap' \subseteq heap \cup {<<"main", "filter">>}
    BY <1>6 DEF LoadFilter, LoadedFilter, NoFilter
  <2>2. cfg' = cfg \/ cfg' = [cfg EXCEPT !.rx_filter = FilterName, !.rx_rec_input = RecordsInput]
    BY <1>6 DEF LoadFilter
  <2>3. \A f \in Pointers : OnHeap(f)' <=> OnHeap(f)
    <3>1. CASE cfg' = cfg
      BY <3>1 DEF OnHeap
    <3>2. CASE cfg' = [cfg EXCEPT !.rx_filter = FilterName, !.rx_rec_input = RecordsInput]
      BY <3>2 DEF OnHeap, FilterName, ControlInv, CfgFields, Pointers, Strings
    <3> QED BY <2>2, <3>1, <3>2
  <2>4. CfgParts' = CfgParts
    BY <2>3 DEF CfgParts
  <2>5. bad_frees' = {}
    BY <2>1 DEF HeapInv
  <2> QED BY <1>w, <1>f, <1>b, <2>1, <2>4, <2>5 DEF HeapInv, MayBeLeft
<1>7. CASE LoadDevice \/ Receive \/ TransmitZeros
  <2>1. /\ UNCHANGED <<cfg, sdr, rx_recorder, bad_frees>> /\ main \in {"load_device", "rx", "tx"}
        /\ main' \in Sessions \cup {"out"} /\ heap \subseteq heap'
        /\ heap' \subseteq heap \cup {<<"main", "dev">>, <<"tx", "zeros">>}
        /\ main = "load_device" /\ main' = "out" => exit' = "failure"
    BY <1>7 DEF LoadDevice, Receive, TransmitZeros, SetupDone, StagesInv, Validated
  <2>2. main \in {"rx", "tx"} => cfg.rx_filter # DISABLE_FILTER
    BY DEF StagesInv, SetUp, FilterLoaded
  <2> QED BY <1>w, <1>f, <1>b, <1>c, <2>1, <2>2 DEF HeapInv, MayBeLeft
<1>8. CASE TransmitGenerates \/ TransmitSends \/ TransmitReturns \/ Radiates
  <2>1. CASE TransmitGenerates \/ TransmitSends
    <3>1. /\ UNCHANGED <<cfg, sdr, rx_recorder, bad_frees, main, exit>> /\ main = "transmitting"
          /\ heap \subseteq heap'
          /\ heap' \subseteq heap \cup {<<"tx", "samples">>, <<"tx", "lost">>}
      BY <2>1 DEF TransmitGenerates, TransmitSends, SetupDone
    <3> QED BY <1>w, <1>f, <1>b, <1>c, <3>1 DEF HeapInv, MayBeLeft
  <2>2. CASE TransmitReturns
    <3>1. /\ UNCHANGED <<cfg, sdr, rx_recorder, bad_frees>> /\ main = "transmitting" /\ main' = "out"
          /\ heap' = heap \ {<<"tx", "samples">>}
      BY <2>2 DEF TransmitReturns, SetupDone
    <3>2. cfg.rx_filter # DISABLE_FILTER
      BY <3>1 DEF StagesInv, SetUp, FilterLoaded
    <3>3. <<"tx", "samples">> \notin CfgParts
      BY DEF CfgParts
    <3> QED BY <1>w, <1>f, <1>b, <1>c, <3>1, <3>2, <3>3 DEF HeapInv, MayBeLeft
  <2>3. CASE Radiates
    BY <1>w, <1>f, <1>b, <1>c, <2>3 DEF Radiates, SetupDone, HeapInv, MayBeLeft
  <2> QED BY <1>8, <2>1, <2>2, <2>3
<1>9. CASE CloseAll \/ DeinitCfg \/ DeinitFilter \/ ReadsWild
  <2>1. CASE CloseAll
    <3>1. /\ UNCHANGED <<cfg, sdr, rx_recorder, bad_frees, exit>> /\ main = "out" /\ main' = "cfg_deinit"
          /\ heap' = heap \ ({<<"main", "dev">>} \cup BackEndParts("sdr", sdr)
                                 \cup BackEndParts("rx_recorder", rx_recorder))
      BY <2>1 DEF CloseAll
    <3>2. CfgParts \subseteq heap'
      <4>1. \A part \in CfgParts : part \notin {<<"main", "dev">>}
        BY DEF CfgParts
      <4>2. \A part \in CfgParts : part \notin BackEndParts("sdr", sdr)
        BY BackEnds DEF AbsentInv, Interfaces
      <4>3. \A part \in CfgParts : part \notin BackEndParts("rx_recorder", rx_recorder)
        BY BackEnds DEF AbsentInv
      <4> QED BY <3>1, <4>1, <4>2, <4>3 DEF HeapInv
    <3> QED BY <1>w, <1>f, <1>c, <3>1, <3>2 DEF HeapInv, MayBeLeft
  <2>2. CASE DeinitCfg
    <3>1. /\ UNCHANGED <<cfg, exit>> /\ main = "cfg_deinit" /\ main' \in {"fir_deinit", "aborted"}
          /\ bad_frees' = Freed \ heap /\ heap' = heap \ Freed
      BY <2>2 DEF DeinitCfg
    <3>2. CfgParts \subseteq Freed /\ CfgParts \subseteq heap
      BY <3>1 DEF CfgParts, Freed, OnHeap, HeapInv
    <3>3. \A part \in Freed \ CfgParts :
              \/ cfg.device_params = NULL /\ cfg[part[2]] = Wild
              \/ part = <<"cfg", "rx_filter">> /\ cfg.rx_filter = DISABLE_FILTER
      <4> TAKE part \in Freed \ CfgParts
      <4>1. PICK f \in Pointers : part = <<"cfg", f>> /\ cfg[f] # NULL
        BY DEF Freed
      <4>2. ~OnHeap(f)
        BY <4>1 DEF CfgParts
      <4>3. cfg[f] = Wild => cfg.device_params = NULL
        BY DEF HeapInv, WildInv
      <4> QED BY <4>1, <4>2, <4>3 DEF OnHeap
    <3>4. FreesItsOwn'
      <4>1. \A part \in bad_frees' : part \in Freed \ CfgParts
        BY <3>1, <3>2
      <4>2. cfg.rx_filter = DISABLE_FILTER => exit = "failure"
        BY <3>1 DEF HeapInv
      <4> QED BY <3>1, <3>3, <4>1, <4>2 DEF FreesItsOwn
    <3>5. main' = "fir_deinit" => heap' \subseteq MayBeLeft'
      <4>1. heap' \subseteq MayBeLeft \ CfgParts
        BY <3>1, <3>2 DEF HeapInv
      <4> QED BY <3>1, <4>1 DEF MayBeLeft
    <3> QED BY <1>w, <3>1, <3>4, <3>5 DEF HeapInv
  <2>3. CASE DeinitFilter
    BY <1>w, <1>f, <2>3 DEF DeinitFilter, HeapInv, MayBeLeft
  <2>4. CASE ReadsWild
    <3>1. /\ main' = "aborted" /\ UNCHANGED <<cfg, exit, bad_frees>>
      BY <2>4 DEF ReadsWild, setup
    <3> QED BY <1>w, <1>f, <3>1 DEF HeapInv
  <2> QED BY <1>9, <2>1, <2>2, <2>3, <2>4
<1>10. CASE UNCHANGED vars
  BY <1>w, <1>f, <1>10, <1>c DEF vars, HeapInv, MayBeLeft
<1> QED BY <1>1, <1>2, <1>3, <1>4, <1>6, <1>7, <1>8, <1>9, <1>10 DEF Next, Run

\* Samples are only lost by a generation that fails, and nothing is sent then.
LEMMA LostNext ==
    ControlInv /\ StagesInv /\ AbsentInv /\ TxInv /\ LostInv /\ [Next]_vars => LostInv'
<1> SUFFICES ASSUME ControlInv, StagesInv, AbsentInv, TxInv, LostInv, [Next]_vars PROVE LostInv'
  OBVIOUS
<1> USE DEF Goto, Failure, Setup4, Setup3, Setup2, Setup1, Sessions, After, Closed, Freeing
<1> DEFINE lost == <<"tx", "lost">>
\* Before the transmission nothing is lost.
<1>0. ASSUME main \in Setup4 \cup {"rx", "tx"}, \A x \in heap' \ heap : x[1] # "tx" \/ x[2] # "lost"
      PROVE  LostInv'
  <2>1. lost \notin heap
    BY <1>0 DEF LostInv
  <2>2. lost[1] = "tx" /\ lost[2] = "lost"
    OBVIOUS
  <2>3. lost \notin heap'
    BY <1>0, <2>1, <2>2
  <2> QED BY <2>3 DEF LostInv
<1>1. ASSUME NEW o \in Options, ProcessOption(o) PROVE LostInv'
  <2>1. \A x \in heap' \ heap : x[1] # "tx"
    BY <1>1, OptionHeap DEF ControlInv
  <2> QED BY <1>0, <1>1, <2>1 DEF ProcessOption
<1>2. CASE EndOfOptions \/ ValidateCfg \/ Receive \/ ReadsWild
  <2>1. heap' = heap /\ main \in Setup4 \cup {"rx", "tx"}
    BY <1>2 DEF EndOfOptions, ValidateCfg, Receive, ReadsWild
  <2> QED BY <1>0, <2>1
<1>3. CASE OpenSdr \/ OpenRecorder
  <2>1. \A x \in heap' \ heap : x[1] \in {"sdr", "rx_recorder"}
    <3>1. \/ heap' \subseteq heap
          \/ heap' = heap \cup FileParts("sdr") \/ heap' = heap \cup RadioParts
          \/ heap' = heap \cup FileParts("rx_recorder")
      BY <1>3, FailedInit DEF OpenSdr, OpenRecorder, OpenFails
    <3> QED BY <3>1, BackEnds
  <2>2. main \in {"open_sdr", "open_recorder"}
    BY <1>3 DEF OpenSdr, OpenRecorder
  <2> QED BY <1>0, <2>1, <2>2
<1>4. CASE LoadFilter \/ LoadDevice \/ TransmitZeros
  <2>1. heap' \subseteq heap \cup {<<"main", "filter">>, <<"main", "dev">>, <<"tx", "zeros">>}
    BY <1>4 DEF LoadFilter, LoadedFilter, NoFilter, LoadDevice, TransmitZeros
  <2>2. main \in Setup4 \cup {"rx", "tx"}
    BY <1>4 DEF LoadFilter, LoadDevice, TransmitZeros
  <2> QED BY <1>0, <2>1, <2>2
<1>5. CASE TransmitGenerates
  <2>1. /\ main = "transmitting" /\ main' = main /\ pc = "generate" /\ tape' = tape
        /\ pc' # "returned" => heap' = heap \cup {<<"tx", "samples">>}
    BY <1>5 DEF TransmitGenerates, Generate
  <2>2. lost \notin heap /\ tape = <<>>
    BY <2>1 DEF LostInv, TxInv, Sent, TxPlace, TxIdle
  <2>3. pc' = "returned" => status' = "error"
    BY <1>5 DEF TransmitGenerates, Generate, Turn, Call, TxReturn
  <2> QED BY <2>1, <2>2, <2>3 DEF LostInv
<1>6. CASE TransmitSends
  <2>1. heap' = heap /\ pc # "returned"
    BY <1>6 DEF TransmitSends, Sends, NextChunk, Accept, CallDone, SyncFails, Sending
  <2> QED BY <2>1 DEF LostInv
<1>7. CASE Radiates
  BY <1>7 DEF Radiates, Radiate, LostInv
<1>8. CASE TransmitReturns
  BY <1>8 DEF TransmitReturns, LostInv, txVars
<1>9. CASE CloseAll \/ DeinitCfg \/ DeinitFilter
  BY <1>9 DEF CloseAll, DeinitCfg, DeinitFilter, LostInv, txVars
<1>10. CASE UNCHANGED vars
  BY <1>10 DEF vars, txVars, LostInv
<1> QED BY <1>1, <1>2, <1>3, <1>4, <1>5, <1>6, <1>7, <1>8, <1>9, <1>10 DEF Next, Run

-----------------------------------------------------------------------------
(* The transmission.                                                       *)

\* Copies one after the other.
LEMMA Copies ==
    ASSUME NEW a \in Nat, NEW b \in Nat
    PROVE  /\ Period \in Nat \ {0} /\ a * Period \in Nat
           /\ (a + 1) * Period = a * Period + Period
           /\ a <= b => a * Period <= b * Period
           /\ a < b => a * Period + Period <= b * Period
<1>1. Period \in Nat \ {0}
  BY TxAssumption DEF Period
<1>2. \A c \in Nat : c * Period \in Nat /\ (c + 1) * Period = c * Period + Period
  BY <1>1
<1>3. ASSUME NEW c \in Nat, NEW d \in Nat, c <= d PROVE c * Period <= d * Period
  <2>1. d - c \in Nat /\ d = c + (d - c)
    BY <1>3
  <2>2. d * Period = c * Period + (d - c) * Period /\ (d - c) * Period \in Nat
    BY <1>1, <2>1
  <2> QED BY <1>2, <2>2
<1>4. a < b => (a + 1) * Period <= b * Period
  BY <1>3
<1> QED BY <1>1, <1>2, <1>3, <1>4

\* The samples of a delay are of no message, nor is what follows the last.
LEMMA OutsideMessages ==
    ASSUME NEW n \in Nat, NEW k \in Nat, n > k * Period,
           n <= k * Period + DelaySamples \/ k = TxCount
    PROVE  ~OfMessage(n)
<1> SUFFICES ASSUME NEW c \in 0 .. TxCount - 1,
                    n \in c * Period + DelaySamples + 1 .. (c + 1) * Period
             PROVE  FALSE
  BY DEF OfMessage
<1>1. c \in Nat /\ TxCount \in Nat /\ DelaySamples \in Nat /\ c < TxCount
  BY TxAssumption
<1>2. /\ c * Period \in Nat /\ k * Period \in Nat /\ (c + 1) * Period = c * Period + Period
      /\ c < k => c * Period + Period <= k * Period
      /\ k <= c => k * Period <= c * Period
  BY <1>1, Copies
<1> DEFINE here == c * Period
           there == k * Period
           next == (c + 1) * Period
<1>3. /\ here \in Nat /\ there \in Nat /\ next = here + Period
      /\ c < k => here + Period <= there
      /\ k <= c => there <= here
      /\ n \in here + DelaySamples + 1 .. next
      /\ n > there /\ (n <= there + DelaySamples \/ k = TxCount)
  BY <1>2
<1> HIDE DEF here, there, next
<1>4. Period \in Nat
  BY Copies, <1>1
<1> QED BY <1>1, <1>3, <1>4

LEMMA BufferType == BufLen \in Nat \ {0} /\ FlushLength \in Nat /\ NumBuffers * SamplesPerBuffer \in Nat
<1>1. NumBuffers \in Nat \ {0} /\ SamplesPerBuffer \in Nat \ {0}
  BY TxAssumption
<1>2. NumBuffers * SamplesPerBuffer \in Nat
      /\ (NumBuffers + 1) * SamplesPerBuffer = NumBuffers * SamplesPerBuffer + SamplesPerBuffer
  BY <1>1
<1> QED BY <1>1, <1>2 DEF BufLen, FlushLength

LEMMA CallTypes ==
    ASSUME Sending, copy \in Nat, pc \in {"delay", "message"} => copy < TxCount
    PROVE  /\ Length \in Nat /\ Before \in Nat
           /\ Before + Length <= TxCount * Period + FlushLength
           /\ TxCount * Period \in Nat
<1>1. TxCount \in Nat /\ DelaySamples \in Nat /\ MessageSamples \in Nat /\ FlushLength \in Nat
  BY TxAssumption, BufferType
<1>2. TxCount * Period \in Nat /\ copy * Period \in Nat
      /\ (copy < TxCount => copy * Period + Period <= TxCount * Period)
  BY <1>1, Copies
<1> DEFINE here == copy * Period
           all == TxCount * Period
<1>3. here \in Nat /\ all \in Nat /\ (copy < TxCount => here + Period <= all)
  BY <1>2
<1> HIDE DEF here, all
<1>4. CASE pc = "delay"
  <2>1. Length = DelaySamples /\ Before = here
    BY <1>4 DEF Length, Before, here
  <2> QED BY <1>1, <1>3, <1>4, <2>1 DEF Period, all
<1>5. CASE pc = "message"
  <2>1. Length = MessageSamples /\ Before = here + DelaySamples
    BY <1>5 DEF Length, Before, here
  <2> QED BY <1>1, <1>3, <1>5, <2>1 DEF Period, all
<1>6. CASE pc = "flush"
  <2>1. Length = FlushLength /\ Before = all
    BY <1>6 DEF Length, Before, all, FlushLength
  <2> QED BY <1>1, <1>3, <2>1 DEF all
<1> QED BY <1>4, <1>5, <1>6 DEF Sending

\* Before the first call nothing is sent, whatever the back end.
LEMMA IdleIsSent == TxIdle => Sent
<1> SUFFICES ASSUME TxIdle PROVE Sent
  OBVIOUS
<1>1. tape \in Seq({"signal", "zero"}) /\ Len(tape) = 0 /\ DOMAIN tape = {}
  BY DEF TxIdle
<1>2. FlushLength \in Nat /\ NumBuffers * SamplesPerBuffer \in Nat /\ TxCount * Period \in Nat
  BY BufferType, Copies, TxAssumption
<1> QED BY <1>1, <1>2 DEF TxIdle, Sent, TxPlace, TapeIsTransmission, Waiting, Sending

\* A sample goes to its place.
LEMMA AcceptKeepsSent == Sent /\ Accept /\ sdr' = sdr => Sent'
<1> SUFFICES ASSUME Sent, Accept, sdr' = sdr PROVE Sent'
  OBVIOUS
<1> DEFINE n == Len(tape)
           x == IF pc = "message" THEN "signal" ELSE "zero"
<1>1. /\ Sending /\ chunk > 0 /\ chunk' = chunk - 1 /\ UNCHANGED <<pc, status, copy, total, radiated>>
      /\ tape' = Append(tape, x) /\ pc # "generate" /\ pc # "returned"
      /\ sdr = "bladerf" => n - radiated < NumBuffers * SamplesPerBuffer
  BY DEF Accept, Sending
<1>2. /\ copy \in Nat /\ total \in Nat /\ chunk \in Nat /\ radiated \in Nat
      /\ tape \in Seq({"signal", "zero"}) /\ x \in {"signal", "zero"}
      /\ pc \in {"delay", "message"} => copy < TxCount
      /\ total <= Length /\ chunk <= total /\ n = Before + total - chunk
  BY <1>1 DEF Sent, TxPlace
<1>3. /\ n \in Nat /\ DOMAIN tape = 1 .. n /\ Len(tape') = n + 1 /\ DOMAIN tape' = 1 .. n + 1
      /\ tape' \in Seq({"signal", "zero"}) /\ tape'[n + 1] = x
      /\ \A k \in 1 .. n : tape'[k] = tape[k]
  BY <1>1, <1>2
<1>4. /\ Length \in Nat /\ Before \in Nat /\ TxCount * Period \in Nat
      /\ Before + Length <= TxCount * Period + FlushLength
  BY <1>1, <1>2, CallTypes
<1>5. Before' = Before /\ Length' = Length /\ FlushLength' = FlushLength /\ Sending' = Sending
  BY <1>1 DEF Before, Length, FlushLength, BufLen, Sending
<1>6. n + 1 \in Before + 1 .. Before + Length
  BY <1>1, <1>2, <1>4
<1>7. TxPlace'
  <2>1. Sending' /\ chunk' \in Nat /\ chunk' <= total' /\ total' <= Length'
    BY <1>1, <1>2, <1>5
  <2>2. Len(tape') = Before' + total' - chunk'
    BY <1>1, <1>2, <1>3, <1>4, <1>5
  <2> QED BY <1>1, <1>2, <1>3, <2>1, <2>2 DEF TxPlace, Sent
<1>8. x = IF OfMessage(n + 1) THEN "signal" ELSE "zero"
  <2>0. copy \in Nat /\ n + 1 \in Nat
    BY <1>2, <1>3
  <2>1. copy * Period \in Nat /\ (copy + 1) * Period = copy * Period + Period /\ n + 1 \in Nat
    BY <2>0, Copies
  <2>2. CASE pc = "delay"
    <3>1. n + 1 > copy * Period /\ n + 1 <= copy * Period + DelaySamples
      BY <1>6, <2>1, <2>2, TxAssumption DEF Before, Length
    <3>2. ~OfMessage(n + 1)
      BY <1>2, <2>1, <3>1, OutsideMessages
    <3> QED BY <2>2, <3>2
  <2>3. CASE pc = "message"
    <3>1. n + 1 \in copy * Period + DelaySamples + 1 .. (copy + 1) * Period
      BY <1>6, <2>1, <2>3, TxAssumption DEF Before, Length, Period
    <3>2. copy \in 0 .. TxCount - 1
      BY <1>2, <2>3, TxAssumption
    <3> QED BY <2>3, <3>1, <3>2 DEF OfMessage
  <2>4. CASE pc = "flush"
    <3>1. n + 1 > TxCount * Period
      BY <1>4, <1>6, <2>4 DEF Before
    <3>2. ~OfMessage(n + 1)
      BY <2>1, <3>1, OutsideMessages, TxAssumption
    <3> QED BY <2>4, <3>2
  <2> QED BY <1>1, <2>2, <2>3, <2>4 DEF Sending
<1>9. TapeIsTransmission'
  <2>1. \A k \in 1 .. n + 1 : tape'[k] = IF OfMessage(k) THEN "signal" ELSE "zero"
    <3> TAKE k \in 1 .. n + 1
    <3>1. CASE k = n + 1
      BY <1>3, <1>8, <3>1
    <3>2. CASE k # n + 1
      BY <1>3, <3>2 DEF Sent, TapeIsTransmission
    <3> QED BY <3>1, <3>2
  <2>2. n + 1 <= TxCount * Period + FlushLength
    BY <1>3, <1>4, <1>6, BufferType
  <2>3. status' # "ok"
    BY <1>1 DEF Sent, TxPlace
  <2> QED BY <1>3, <1>5, <2>1, <2>2, <2>3 DEF TapeIsTransmission
<1>10. Waiting'
  BY <1>1, <1>2, <1>3, BufferType DEF Waiting
<1> QED BY <1>7, <1>9, <1>10 DEF Sent

\* The calls and the loops around them.
LEMMA CallsKeepSent ==
    Sent /\ sdr' = sdr /\ (Generate \/ NextChunk \/ SyncFails \/ CallDone \/ Radiate) => Sent'
<1> SUFFICES ASSUME Sent, sdr' = sdr, Generate \/ NextChunk \/ SyncFails \/ CallDone \/ Radiate
             PROVE  Sent'
  OBVIOUS
<1>1. /\ pc \in {"generate", "delay", "message", "flush", "returned"}
      /\ copy \in Nat /\ total \in Nat /\ chunk \in Nat /\ radiated \in Nat
      /\ tape \in Seq({"signal", "zero"}) /\ Len(tape) \in Nat
      /\ pc = "generate" => TxIdle
      /\ pc \in {"delay", "message"} => copy < TxCount
      /\ Sending => total <= Length /\ chunk <= total /\ Len(tape) = Before + total - chunk
      /\ status = "ok" => pc = "returned"
  BY DEF Sent, TxPlace
<1>2. FlushLength' = FlushLength /\ BufLen' = BufLen /\ tape' = tape
  BY DEF FlushLength, BufLen, Generate, NextChunk, SyncFails, CallDone, Radiate
<1>3. TxCount \in Nat /\ DelaySamples \in Nat /\ MessageSamples \in Nat
      /\ BufLen \in Nat \ {0} /\ FlushLength \in Nat /\ SamplesPerBuffer \in Nat \ {0}
  BY TxAssumption, BufferType
<1>4. Sending => Length \in Nat /\ Before \in Nat
  BY <1>1, CallTypes
<1>5. CASE Radiate
  <2>1. /\ UNCHANGED <<pc, status, copy, total, chunk>> /\ radiated' = radiated + SamplesPerBuffer
        /\ sdr = "bladerf" /\ Len(tape) - radiated >= SamplesPerBuffer
    BY <1>5 DEF Radiate
  <2>2. Length' = Length /\ Before' = Before /\ Sending' = Sending
    BY <1>2, <2>1 DEF Length, Before, Sending
  <2>3. pc # "generate"
    BY <1>1, <1>3, <2>1 DEF TxIdle
  <2>4. Waiting'
    BY <1>1, <1>2, <1>3, <2>1, BufferType DEF Waiting, Sent
  <2> QED BY <1>1, <1>2, <1>3, <2>1, <2>2, <2>3, <2>4 DEF Sent, TxPlace, TapeIsTransmission
<1>6. CASE NextChunk
  <2>1. /\ UNCHANGED <<pc, status, copy, radiated>> /\ Sending /\ chunk = 0 /\ total < Length
        /\ chunk' = ToWrite /\ total' = total + ToWrite
    BY <1>6 DEF NextChunk
  <2>2. Length' = Length /\ Before' = Before /\ Sending' = Sending
    BY <1>2, <2>1 DEF Length, Before, Sending
  <2>3. ToWrite \in Nat /\ ToWrite <= Length - total
    BY <1>1, <1>3, <1>4, <2>1 DEF ToWrite
  <2>4. pc # "generate"
    BY <2>1 DEF Sending
  <2> QED BY <1>1, <1>2, <1>4, <2>1, <2>2, <2>3, <2>4 DEF Sent, TxPlace, TapeIsTransmission, Waiting
<1>7. CASE SyncFails
  <2>1. /\ UNCHANGED <<copy, radiated, total, chunk>> /\ pc' = "returned" /\ status' = "error"
    BY <1>7 DEF SyncFails, TxReturn
  <2>2. ~Sending'
    BY <2>1 DEF Sending
  <2> QED BY <1>1, <1>2, <2>1, <2>2 DEF Sent, TxPlace, TapeIsTransmission, Waiting
\* The next turn after c copies.
<1>8. ASSUME NEW c \in Nat, Turn(c), copy' = c, radiated' = radiated, status # "ok",
             c <= TxCount, Len(tape) = c * Period
      PROVE  Sent'
  <2>1. /\ total' = 0 /\ chunk' = 0 /\ status' = status
        /\ pc' = IF c < TxCount THEN "delay" ELSE "flush"
    BY <1>8 DEF Turn, Call
  <2>2. Before' = c * Period
    BY <1>8, <1>3, <2>1 DEF Before
  <2>3. Length' \in Nat
    BY <1>2, <1>3, <2>1 DEF Length
  <2>4. c * Period + 0 - 0 = c * Period
    BY <1>1, <1>8
  <2> QED BY <1>1, <1>2, <1>8, <2>1, <2>2, <2>3, <2>4 DEF Sent, TxPlace, TapeIsTransmission, Waiting, Sending
<1>9. CASE Generate
  <2>1. pc = "generate" /\ TxIdle /\ copy' = copy /\ radiated' = radiated
    BY <1>1, <1>9 DEF Generate
  <2>2. CASE Turn(0)
    <3>1. 0 * Period = 0 /\ Len(tape) = 0 /\ copy = 0 /\ status # "ok"
      BY <2>1, Copies, TxAssumption DEF TxIdle, Period
    <3> QED BY <1>3, <1>8, <2>1, <2>2, <3>1
  <2>3. CASE TxReturn("error")
    <3>1. ~Sending' /\ pc' = "returned" /\ status' = "error" /\ total' = total /\ chunk' = chunk
      BY <2>3 DEF TxReturn, Sending
    <3> QED BY <1>1, <1>2, <2>1, <3>1 DEF Sent, TxPlace, TapeIsTransmission, Waiting
  <2> QED BY <1>9, <2>2, <2>3 DEF Generate
<1>10. CASE CallDone
  <2>1. Sending /\ chunk = 0 /\ total = Length /\ radiated' = radiated
    BY <1>10 DEF CallDone
  <2>2. Len(tape) = Before + Length
    BY <1>1, <1>4, <2>1
  <2>3. status # "ok"
    BY <1>1, <2>1 DEF Sending
  <2>4. CASE pc = "delay"
    <3>1. pc' = "message" /\ total' = 0 /\ chunk' = 0 /\ status' = status /\ copy' = copy
      BY <1>10, <2>4 DEF CallDone, Call
    <3>2. copy * Period \in Nat
      BY <1>1, Copies
    <3>3. Before' = Before + Length
      BY <2>4, <3>1 DEF Before, Length
    <3>4. Length' \in Nat
      BY <1>3, <3>1 DEF Length
    <3>5. Len(tape') = Before' + total' - chunk'
      BY <1>1, <1>2, <1>4, <2>1, <2>2, <3>1, <3>3
    <3>6. copy' < TxCount /\ total' <= Length' /\ chunk' <= total'
      BY <1>1, <2>4, <3>1, <3>4
    <3>7. TxPlace'
      BY <1>1, <1>2, <2>1, <2>3, <3>1, <3>5, <3>6 DEF TxPlace
    <3> QED BY <1>2, <2>1, <2>3, <3>1, <3>7 DEF Sent, TapeIsTransmission, Waiting
  <2>5. CASE pc = "message"
    <3>1. Turn(copy + 1) /\ copy' = copy + 1
      BY <1>10, <2>5 DEF CallDone
    <3>2. Len(tape) = (copy + 1) * Period
      <4>1. Before = copy * Period + DelaySamples /\ Length = MessageSamples
        BY <2>5 DEF Before, Length
      <4>2. copy * Period \in Nat /\ (copy + 1) * Period = copy * Period + Period
        BY <1>1, Copies
      <4> QED BY <1>3, <2>2, <4>1, <4>2 DEF Period
    <3>3. copy + 1 \in Nat /\ copy + 1 <= TxCount
      BY <1>1, <1>3, <2>5
    <3> QED BY <1>8, <2>1, <2>3, <3>1, <3>2, <3>3
  <2>6. CASE pc = "flush"
    <3>1. pc' = "returned" /\ status' = "ok" /\ copy' = copy /\ total' = total /\ chunk' = chunk
      BY <1>10, <2>6 DEF CallDone, TxReturn
    <3>2. Len(tape) = TxCount * Period + FlushLength
      BY <2>2, <2>6 DEF Before, Length, FlushLength
    <3>3. ~Sending'
      BY <3>1 DEF Sending
    <3> QED BY <1>1, <1>2, <2>1, <3>1, <3>2, <3>3 DEF Sent, TxPlace, TapeIsTransmission, Waiting
  <2> QED BY <2>1, <2>4, <2>5, <2>6 DEF Sending
<1> QED BY <1>5, <1>6, <1>7, <1>9, <1>10

LEMMA TxNext == ControlInv /\ StagesInv /\ TxInv /\ [Next]_vars => TxInv'
<1> SUFFICES ASSUME ControlInv, StagesInv, TxInv, [Next]_vars PROVE TxInv'
  OBVIOUS
<1> USE DEF Goto, Failure, Setup4, Setup3, Setup2, Setup1, Sessions, After, Closed, Freeing
\* Before the transmission.
<1>1. ASSUME UNCHANGED txVars, TxIdle PROVE TxInv'
  <2>1. TxIdle'
    BY <1>1 DEF txVars, TxIdle
  <2>2. TxIdle' => Sent'
    BY IdleIsSent, PTL
  <2> QED BY <2>1, <2>2 DEF TxInv
\* After it.
<1>2. ASSUME UNCHANGED <<txVars, sdr>>, main' \notin Setup4 \cup {"rx", "tx"} PROVE TxInv'
  <2>1. Sent'
    BY <1>2 DEF TxInv, Sent, TxPlace, TxIdle, TapeIsTransmission, Waiting, txVars, Sending, Length,
                Before, BufLen, FlushLength
  <2> QED BY <1>2, <2>1 DEF TxInv
\* During it.
<1>3. ASSUME Generate \/ Sends \/ Radiate, sdr' = sdr, main' = main, main \notin Setup4 \cup {"rx", "tx"}
      PROVE  TxInv'
  BY <1>3, AcceptKeepsSent, CallsKeepSent DEF TxInv, Sends
<1>4. ASSUME NEW o \in Options, ProcessOption(o) PROVE TxInv'
  BY <1>1, <1>4 DEF ProcessOption, setup, TxInv
<1>5. CASE EndOfOptions \/ ValidateCfg \/ OpenSdr \/ OpenRecorder \/ LoadFilter \/ LoadDevice
  BY <1>1, <1>5 DEF EndOfOptions, ValidateCfg, OpenSdr, OpenRecorder, LoadFilter, LoadDevice, setup, TxInv
<1>6. CASE Receive \/ TransmitZeros
  BY <1>1, <1>6 DEF Receive, TransmitZeros, TxInv
<1>7. CASE TransmitGenerates \/ TransmitSends
  BY <1>3, <1>7 DEF TransmitGenerates, TransmitSends, SetupDone
<1>8. CASE TransmitReturns
  BY <1>2, <1>8 DEF TransmitReturns, SetupDone
<1>9. CASE Radiates
  <2>1. Radiate /\ sdr' = sdr /\ main' = main
    BY <1>9 DEF Radiates, SetupDone
  <2>2. ~TxIdle
    BY <2>1, TxAssumption DEF Radiate, TxIdle
  <2> QED BY <1>3, <2>1, <2>2 DEF TxInv
<1>10. CASE CloseAll \/ DeinitCfg \/ DeinitFilter
  BY <1>2, <1>10 DEF CloseAll, DeinitCfg, DeinitFilter
<1>11. CASE ReadsWild
  <2>1. UNCHANGED <<txVars, sdr>> /\ main' = "aborted"
    BY <1>11 DEF ReadsWild, setup
  <2> QED BY <1>2, <2>1
<1>12. CASE UNCHANGED vars
  BY <1>1, <1>2, <1>12 DEF vars, TxInv
<1> QED BY <1>4, <1>5, <1>6, <1>7, <1>8, <1>9, <1>10, <1>11, <1>12 DEF Next, Run

-----------------------------------------------------------------------------
(* The theorems.                                                           *)

LEMMA ProgramInit == Init => ProgramInv
<1> SUFFICES ASSUME Init PROVE ProgramInv
  OBVIOUS
<1> USE DEF Setup4, Setup3, Setup2, Setup1, Sessions, After, Closed, Freeing
<1>1. /\ main = "process_cmdline" /\ exit = "unset" /\ sdr = NULL /\ rx_recorder = NULL /\ filter = 0
      /\ dev = NoDevice /\ bad_frees = {}
      /\ radio = [open |-> FALSE, rate |-> 0, enabled |-> "none"]
  BY DEF Init
\* Either all of cfg is set, or the list is not there.
<1>2. /\ DOMAIN cfg = CfgFields /\ DOMAIN num = DOMAIN Numbers /\ cfg.rx_rec_input \in BOOLEAN
      /\ CfgParts = heap /\ heap \subseteq {<<"cfg", "device_params">>} /\ WildInv
  <2>0. /\ "list" # NULL /\ "list" # Wild /\ NULL # Wild
        /\ "device_params" # "rx_filter" /\ DISABLE_FILTER # Wild
    BY DEF NULL, Wild, DISABLE_FILTER
  <2>1. CASE CfgInit
    <3>1. /\ DOMAIN cfg = CfgFields /\ DOMAIN num = DOMAIN Numbers /\ cfg.rx_rec_input = FALSE
          /\ cfg.device_params = "list" /\ \A f \in Strings : cfg[f] = NULL
      BY <2>1 DEF CfgInit, DefaultCfg, DefaultNum, CfgFields, Pointers, Strings
    <3>2. \A f \in Pointers : OnHeap(f) <=> f = "device_params"
      BY <2>0, <3>1 DEF OnHeap, Pointers
    <3>3. CfgParts = {<<"cfg", "device_params">>}
      BY <3>2 DEF CfgParts, Pointers
    <3> QED BY <2>0, <2>1, <3>1, <3>3 DEF CfgInit, WildInv, Pointers
  <2>2. CASE CfgInitFails
    <3>1. PICK old \in Leftovers :
              cfg = [f \in CfgFields |-> IF f \in Unset THEN old[f]
                                         ELSE IF f = "device_params" THEN NULL ELSE DefaultCfg[f]]
      BY <2>2 DEF CfgInitFails
    <3>2. /\ cfg.device_params = NULL /\ cfg.rx_rec_input \in BOOLEAN
          /\ \A f \in Strings : cfg[f] \in {NULL, Wild}
      BY <3>1, ProgramAssumption DEF DefaultCfg, CfgFields, Pointers, Strings, Unset
    <3>3. \A f \in Pointers : ~OnHeap(f)
      BY <3>2 DEF OnHeap, Pointers
    <3>4. CfgParts = {}
      BY <3>3 DEF CfgParts
    <3> QED BY <2>2, <3>1, <3>2, <3>4 DEF CfgInitFails, DefaultNum, WildInv
  <2> QED BY <2>1, <2>2 DEF Init
<1>3. ControlInv /\ AbsentInv
  BY <1>1, <1>2 DEF ControlInv, AbsentInv
<1>4. StagesInv /\ DirectionInv
  BY <1>1, <1>2 DEF StagesInv, DirectionInv, SetUp
<1>5. RadioInv
  BY <1>1 DEF RadioInv, NULL
<1>6. HeapInv
  BY <1>1, <1>2 DEF HeapInv, MayBeLeft, FreesItsOwn
<1>7. LostInv
  BY <1>2 DEF LostInv
<1>8. TxInv
  <2>1. TxIdle
    BY DEF Init, TxInit, TxIdle
  <2> QED BY <2>1, IdleIsSent DEF TxInv
<1> QED BY <1>3, <1>4, <1>5, <1>6, <1>7, <1>8, SettingsInit DEF ProgramInv

LEMMA AlwaysProgramInv == Spec => []ProgramInv
<1>1. ProgramInv /\ [Next]_vars => ProgramInv'
  BY ControlNext, AbsentInvNext, StagesInvNext, DirectionInvNext, RadioInvNext, HeapNext, LostNext,
     TxNext, SettingsNext DEF ProgramInv
<1> QED BY ProgramInit, <1>1, PTL DEF Spec

\* However sdr_tx() is cut into chunks and wherever a call fails, the back end
\* is given the transmission and nothing else (ookiedokie.c, ookiedokie_tx()).
THEOREM TransmitsTheMessage == Spec => []TapeIsTransmission
<1>1. ProgramInv => TapeIsTransmission
  BY DEF ProgramInv, TxInv, Sent
<1> QED BY <1>1, AlwaysProgramInv, PTL

\* For every number and size of the buffers the flush is long enough for the
\* whole message to leave the radio (sdr.c:114).
THEOREM RadiatesTheMessage == Spec => []MessageIsRadiated
<1>1. ProgramInv => MessageIsRadiated
  <2> SUFFICES ASSUME ProgramInv, sdr = "bladerf", status = "ok",
                      NEW n \in radiated + 1 .. Len(tape)
               PROVE  tape[n] = "zero"
    BY DEF MessageIsRadiated
  <2>1. /\ radiated \in Nat /\ Len(tape) \in Nat /\ DOMAIN tape = 1 .. Len(tape)
        /\ Len(tape) = TxCount * Period + FlushLength
        /\ Len(tape) - radiated <= NumBuffers * SamplesPerBuffer
    BY DEF ProgramInv, TxInv, Sent, TxPlace, TapeIsTransmission, Waiting
  <2>2. /\ NumBuffers \in Nat /\ SamplesPerBuffer \in Nat \ {0} /\ TxCount \in Nat
        /\ TxCount * Period \in Nat
    BY TxAssumption, Copies
  <2>3. FlushLength = NumBuffers * SamplesPerBuffer + SamplesPerBuffer
        /\ NumBuffers * SamplesPerBuffer \in Nat
    BY <2>2 DEF FlushLength, BufLen
  <2>4. n \in Nat /\ n > TxCount * Period /\ n \in DOMAIN tape
    BY <2>1, <2>2, <2>3
  <2>5. ~OfMessage(n)
    BY <2>2, <2>4, OutsideMessages
  <2> QED BY <2>4, <2>5 DEF ProgramInv, TxInv, Sent, TapeIsTransmission
<1> QED BY <1>1, AlwaysProgramInv, PTL

\* No option, and no default, leaves a number outside of its limits, but for a
\* NaN (conversions.c:195) and a threshold that was never set (main.c:579).
THEOREM SettingsStayInRange == Spec => []SettingsInRange
<1>1. ProgramInv => SettingsInRange
  BY DEF ProgramInv
<1> QED BY <1>1, AlwaysProgramInv, PTL

\* Whatever fails in main(), its clean-up closes and frees everything but the
\* zeros of a transmission, the samples of one that could not be generated
\* (state_machine.c:871), of which nothing is sent, and a radio that could not
\* be set up (bladeRF.c:195).
THEOREM LeavesNothing == Spec => []NothingLeft
<1>1. ProgramInv => NothingLeft
  <2> SUFFICES ASSUME ProgramInv, main = "exited"
               PROVE  /\ heap \subseteq {<<"tx", "zeros">>, <<"tx", "lost">>}
                      /\ <<"tx", "lost">> \in heap =>
                             exit = "failure" /\ status = "error" /\ tape = <<>>
                      /\ radio.enabled = "none"
                      /\ radio.open => sdr = NULL
    BY DEF NothingLeft
  <2>1. heap \subseteq {<<"tx", "zeros">>, <<"tx", "lost">>}
    BY DEF ProgramInv, HeapInv, MayBeLeft, Freeing, Closed
  <2> QED BY <2>1 DEF ProgramInv, LostInv, RadioInv, After, Closed, Freeing
<1> QED BY <1>1, AlwaysProgramInv, PTL

\* Whatever main() does before, ookiedokie_cfg_deinit() frees no pointer that
\* process_cmdline() did not allocate but the mark of "--rx-filter none", and
\* then only when main() has failed; or ookiedokie_cfg_init() has failed.
THEOREM FreesOnlyItsOwn == Spec => []FreesItsOwn
<1>1. ProgramInv => FreesItsOwn
  BY DEF ProgramInv, HeapInv
<1> QED BY <1>1, AlwaysProgramInv, PTL

\* A session starts with everything it uses, as it was configured.
THEOREM SessionStartsSetUp == Spec => []SessionIsSetUp
<1>1. ProgramInv => SessionIsSetUp
  <2> SUFFICES ASSUME ProgramInv, InSession PROVE SessionIsSetUp
    BY DEF SessionIsSetUp
  <2>1. main \in Sessions /\ SetUp
    BY DEF InSession, Sessions, SetUp
  <2>2. Validated /\ SdrOpened /\ RecorderOpened /\ FilterLoaded /\ DeviceLoaded
    BY <2>1 DEF ProgramInv, StagesInv
  <2>3. sdr = "bladerf" => radio.open /\ radio.enabled = cfg.direction /\ radio.rate = RadioRate
    BY <2>1 DEF ProgramInv, RadioInv
  <2>4. num.samplerate \in 2 * MHz .. 40 * MHz => TimesTheRadio
    <3>1. ASSUME num.samplerate \in 2 * MHz .. 40 * MHz PROVE RadioRate = num.samplerate
      BY <3>1, ConversionAssumption DEF RadioRate
    <3> QED BY <2>2, <2>3, <3>1 DEF TimesTheRadio, DeviceLoaded, DeviceRate
  <2>5. main = "rx" => RxConfig \in Config /\ Valid(RxConfig)
    <3> SUFFICES ASSUME main = "rx" PROVE RxConfig \in Config /\ Valid(RxConfig)
      OBVIOUS
    <3>1. cfg.direction = "rx"
      BY DEF ProgramInv, DirectionInv
    <3>2. \/ cfg.device # NULL \/ cfg.rx_rec_filename # NULL \/ cfg.rx_rec_dig # NULL
      BY <2>2, <3>1 DEF Validated
    <3> QED BY <2>2, <3>2 DEF RxConfig, Config, Valid, SdrOpened, Interfaces, RecorderOpened,
                              DeviceLoaded, FilterLoaded
  <2>6. main # "rx" => dev # NoDevice /\ filter = 0 /\ rx_recorder = NULL
    BY <2>1, <2>2 DEF ProgramInv, DirectionInv, Sessions, Validated, FilterLoaded, RecorderOpened,
                      DeviceLoaded
  <2> QED BY <2>2, <2>3, <2>4, <2>5, <2>6
          DEF SessionIsSetUp, SdrOpened, DeviceLoaded
<1> QED BY <1>1, AlwaysProgramInv, PTL

\* The program reports success only when the session ended well, with every
\* file that was asked for.
THEOREM StatusIsTrue == Spec => []StatusTellsOutcome
<1>1. ProgramInv => StatusTellsOutcome
  BY DEF ProgramInv, StagesInv, DirectionInv, StatusTellsOutcome, SetUp, SdrOpened, RecorderOpened,
         FilterLoaded, After, Closed, Freeing, Interfaces, NULL
<1> QED BY <1>1, AlwaysProgramInv, PTL
=============================================================================
