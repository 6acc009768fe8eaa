------------------------------- MODULE Program -------------------------------
(***************************************************************************)
(* One run of the program, main() of src/src/main.c: the options of the    *)
(* command line one after the other, the checks of validate_cfg(), the     *)
(* opening of the SDR, the recorder, the filter and the device, the        *)
(* session, and the clean-up.  A transmission is module TxSession; a       *)
(* reception is module RxSession, of which only the result is seen here,   *)
(* as are loading a filter and a device (module Loading).                  *)
(*                                                                         *)
(* `heap` holds what is allocated or open, each named by its owner and the *)
(* part; memory may run out and files may fail to open at every call.      *)
(***************************************************************************)
EXTENDS TxSession, SessionConfig, Conversions, Functions

CONSTANTS
    Options,        \* the options a command line may hold, [name, arg] each
    MaxOptions,     \* bound: options on one command line
    Leftovers,      \* what may be in the fields of cfg that were not set
    Decimations     \* total decimations of the filters that can be loaded

VARIABLES
    main,           \* where main() is
    argc,           \* options processed
    cfg,            \* struct ookiedokie_cfg, without the numbers
    num,            \* the numbers in it
    heap,           \* what is allocated or open
    radio,          \* the bladeRF: [open, rate, enabled]
    rx_recorder,    \* the interface of the recorder, NULL if none
    filter,         \* total decimation of the filter, 0 if none
    dev,            \* the sample rate given to device_init(), NoDevice if none
    exit,           \* what main() returns
    bad_frees       \* history: pointers given to free() that were no allocation

vars == <<main, argc, cfg, num, heap, radio, rx_recorder, filter, dev, exit, bad_frees,
          sdr, txVars>>
setup == <<radio, sdr, rx_recorder, filter, dev, bad_frees, txVars>>

NoDevice == -1
DISABLE_FILTER == "(void *) -1"
Goto(label) == main' = label

\* struct ookiedokie_cfg: the strings and the list on the heap, and the rest.
Strings == {"sdr_type", "sdr_args", "device", "rx_filter", "rx_rec_filename",
            "rx_rec_type", "rx_rec_dig"}
Pointers == Strings \cup {"device_params"}
CfgFields == Pointers \cup {"direction", "rx_fmt", "rx_rec_input"}

\* The fields that ookiedokie_cfg_init() sets last, the threshold aside; and
\* a pointer that was never set, and is not NULL.
Unset == {"device", "rx_filter", "rx_rec_filename", "rx_rec_type", "rx_rec_dig",
          "rx_fmt", "rx_rec_input"}
Wild == "uninitialized"

\* An argument is a text, which is not NULL, not the mark and allocated; the
\* numbers of the session are ones that their options accept.
Texts == {"rx", "tx", "device", "rx_filter", "rx_rec_dig", "sdr_args"}
NoText == {NULL, DISABLE_FILTER, Wild}
ASSUME ProgramAssumption ==
    /\ \A o \in Options :
           /\ o.name \in Texts => o.arg \notin NoText
           /\ o.name = "rx_rec" => o.arg.file \notin NoText /\ o.arg.type # Wild
    /\ \A old \in Leftovers :
           /\ \A f \in Unset \cap Pointers : old[f] \in {NULL, Wild}
           /\ old.rx_rec_input \in BOOLEAN
    /\ {TxCount, NumBuffers, SamplesPerBuffer} \subseteq 1 .. UintMax
    /\ Decimations \subseteq Nat \ {0}

\* The options with a number: their field, its conversion and its limits.
\* The threshold is in tenths.
Numbers ==
    [tx_delay_us        |-> [parser |-> "integer", min |-> 0, max |-> UintMax, init |-> 4000],
     tx_count           |-> [parser |-> "integer", min |-> 1, max |-> UintMax, init |-> TxCount],
     rx_threshold       |-> [parser |-> "double", min |-> 0, max |-> 10, init |-> 1],
     frequency          |-> [parser |-> "suffix", min |-> 0, max |-> 4000 * MHz, init |-> (43392 * MHz) \div 100],
     samplerate         |-> [parser |-> "suffix", min |-> 1, max |-> 100 * MHz, init |-> 3 * MHz],
     bandwidth          |-> [parser |-> "suffix", min |-> 1, max |-> 100 * MHz, init |-> (3 * MHz) \div 2],
     gain               |-> [parser |-> "integer", min |-> -100, max |-> 100, init |-> 35],
     num_buffers        |-> [parser |-> "integer", min |-> 1, max |-> UintMax, init |-> NumBuffers],
     samples_per_buffer |-> [parser |-> "integer", min |-> 1, max |-> UintMax,
                             init |-> SamplesPerBuffer],
     num_transfers      |-> [parser |-> "integer", min |-> 1, max |-> UintMax, init |-> 16],
     stream_timeout_ms  |-> [parser |-> "integer", min |-> 0, max |-> UintMax, init |-> 1500],
     sync_timeout_ms    |-> [parser |-> "integer", min |-> 0, max |-> UintMax, init |-> 3000]]

\* ookiedokie_cfg_init().  When the list can not be allocated it returns with
\* the rest of cfg unset, and main() goes on.
DefaultCfg == [f \in CfgFields |-> CASE f = "device_params" -> "list"
                                    [] f \in Strings -> NULL
                                    [] f = "rx_rec_input" -> FALSE
                                    [] OTHER -> "invalid"]
DefaultNum == [n \in DOMAIN Numbers |-> Numbers[n].init]

CfgInit ==
    /\ cfg = DefaultCfg
    /\ num = DefaultNum
    /\ heap = {<<"cfg", "device_params">>}

CfgInitFails ==
    \E old \in Leftovers :
        /\ cfg = [f \in CfgFields |-> IF f \in Unset THEN old[f]
                                     ELSE IF f = "device_params" THEN NULL ELSE DefaultCfg[f]]
        /\ num = [DefaultNum EXCEPT !.rx_threshold = old.rx_threshold]
        /\ heap = {}

Init ==
    /\ main = "process_cmdline"
    /\ argc = 0
    /\ CfgInit \/ CfgInitFails
    /\ radio = [open |-> FALSE, rate |-> 0, enabled |-> "none"]
    /\ sdr = NULL
    /\ rx_recorder = NULL
    /\ filter = 0
    /\ dev = NoDevice
    /\ exit = "unset"
    /\ bad_frees = {}
    /\ TxInit

-----------------------------------------------------------------------------
\* process_cmdline().  main() returns at once on help, version and errors.
ReturnEarly(s) ==
    /\ Goto("returned_early")
    /\ exit' = s
    /\ UNCHANGED <<cfg, num, heap>>

CmdlineError == ReturnEarly("failure")

\* strdup() of the argument into a field of cfg.
SetString(c, f, text) ==
    \/ /\ cfg' = [c EXCEPT ![f] = text]
       /\ heap' = heap \cup {<<"cfg", f>>}
       /\ UNCHANGED <<main, num, exit>>
    \/ CmdlineError

\* --rx and --tx, given the SDR type.
DirectionOption(o) ==
    /\ o.name \in {"rx", "tx"}
    /\ IF cfg.direction \in {"rx", "tx"} \ {o.name} \/ cfg.sdr_type # NULL
       THEN CmdlineError
       ELSE SetString([cfg EXCEPT !.direction = o.name], "sdr_type", o.arg)

\* --device, --rx-filter, --rx-rec-dig and --sdr-args, each at most once.
StringOption(o) ==
    /\ o.name \in {"device", "rx_filter", "rx_rec_dig", "sdr_args"}
    /\ IF cfg[o.name] # NULL THEN CmdlineError
       ELSE IF o.name = "rx_filter" /\ o.arg = "none"
       THEN cfg' = [cfg EXCEPT !.rx_filter = DISABLE_FILTER] /\ UNCHANGED <<main, num, heap, exit>>
       ELSE SetString(cfg, o.name, o.arg)

\* get_rx_recorder(): --rx-rec [type,]file.  The type is copied last.
RecorderOption(o) ==
    /\ o.name = "rx_rec"
    /\ IF cfg.rx_rec_filename # NULL \/ cfg.rx_rec_type # NULL THEN CmdlineError
       ELSE IF o.arg.type = NULL THEN SetString(cfg, "rx_rec_filename", o.arg.file)
       ELSE \/ /\ cfg' = [cfg EXCEPT !.rx_rec_filename = o.arg.file, !.rx_rec_type = o.arg.type]
               /\ heap' = heap \cup {<<"cfg", "rx_rec_filename">>, <<"cfg", "rx_rec_type">>}
               /\ UNCHANGED <<main, num, exit>>
            \/ CmdlineError

NumberOption(o) ==
    /\ o.name \in DOMAIN Numbers
    /\ LET n == Numbers[o.name]
           values == Converted(n.parser, o.arg, n.min, n.max)
       IN  \/ values = {} /\ CmdlineError
           \/ /\ \E v \in values : num' = [num EXCEPT ![o.name] = v]
              /\ UNCHANGED <<main, cfg, heap, exit>>

\* --rx-fmt, at most once.
FormatOption(o) ==
    /\ o.name = "rx_fmt"
    /\ IF cfg.rx_fmt # "invalid" \/ o.arg \notin {"pretty", "csv"} THEN CmdlineError
       ELSE cfg' = [cfg EXCEPT !.rx_fmt = o.arg] /\ UNCHANGED <<main, num, heap, exit>>

\* append_device_param(); the list is module KeyvalList, and nothing can be
\* appended when there is none.
ParamOption(o) ==
    /\ o.name = "tx_param"
    /\ IF o.arg = "no =" \/ cfg.device_params = NULL THEN CmdlineError
       ELSE UNCHANGED <<main, cfg, num, heap, exit>> \/ CmdlineError

\* --rx-rec-input, --verbosity with or without a known level, --help,
\* --version, and what getopt_long() does not know.
PlainOption(o) ==
    \/ /\ o.name = "rx_rec_input"
       /\ cfg' = [cfg EXCEPT !.rx_rec_input = TRUE]
       /\ UNCHANGED <<main, num, heap, exit>>
    \/ o.name = "verbosity" /\ UNCHANGED <<main, cfg, num, heap, exit>>
    \/ o.name \in {"help", "version"} /\ ReturnEarly("success")
    \/ o.name \in {"verbosity", "unknown"} /\ CmdlineError

ProcessOption(o) ==
    /\ main = "process_cmdline" /\ argc < MaxOptions
    /\ argc' = argc + 1
    /\ \/ DirectionOption(o) \/ StringOption(o) \/ RecorderOption(o) \/ NumberOption(o)
       \/ FormatOption(o) \/ ParamOption(o) \/ PlainOption(o)
    /\ UNCHANGED setup

EndOfOptions ==
    /\ main = "process_cmdline"
    /\ cfg' = [cfg EXCEPT !.rx_fmt = IF @ = "invalid" THEN "pretty" ELSE @]
    /\ Goto("validate_cfg")
    /\ UNCHANGED <<argc, num, heap, exit, setup>>

-----------------------------------------------------------------------------
Failure == Goto("out") /\ exit' = "failure"

ValidCfg ==
    \/ /\ cfg.direction = "rx"
       /\ \E f \in {"device", "rx_rec_filename", "rx_rec_dig"} : cfg[f] # NULL
    \/ /\ cfg.direction = "tx" /\ cfg.device # NULL
       /\ cfg.rx_rec_filename = NULL /\ cfg.rx_filter = NULL

ValidateCfg ==
    /\ main = "validate_cfg"
    /\ IF ValidCfg THEN Goto("open_sdr") /\ UNCHANGED exit ELSE Failure
    /\ UNCHANGED <<argc, cfg, num, heap, setup>>

\* sdr_bladerf_file_init() for this owner: it succeeds, or fails once some
\* of its parts are there, which are then given back.
Parts == <<"handle", "buf", "file">>
Owned(owner, parts) == {owner} \X parts
FileParts(owner) == Owned(owner, Range(Parts))
FileDeinit(h, owner) == h \ FileParts(owner)
FileInitFails(owner) ==
    \E k \in 1 .. Len(Parts) :
        heap' = FileDeinit(heap \cup Owned(owner, {Parts[n] : n \in 1 .. k - 1}), owner)

\* sdr_bladerf_init(): the calls that open and set up the radio, and what
\* they have done to it when the first k of them have succeeded.  Nothing
\* is closed when the next one fails.
RadioSteps == <<"open", "set_frequency", "set_sample_rate", "set_bandwidth", "set_gain",
                "sync_config", "enable_module">>

RadioRate ==
    IF num.samplerate < 2 * MHz THEN 2 * MHz
    ELSE IF num.samplerate > 40 * MHz THEN 40 * MHz ELSE num.samplerate

RadioAfter(k) ==
    [open |-> k >= 1, rate |-> IF k >= 3 THEN RadioRate ELSE 0,
     enabled |-> IF k >= 7 THEN cfg.direction ELSE "none"]

RadioParts == Owned("sdr", {"handle", "buf"})

\* sdr_init(): the type is looked up without regard to case, and a file
\* handler needs a name.
OpenFails == Failure /\ UNCHANGED sdr

OpenSdr ==
    /\ main = "open_sdr"
    /\ \/ /\ \/ cfg.sdr_type \notin Interfaces
             \/ cfg.sdr_type = "bladerf_file" /\ cfg.sdr_args = NULL
          /\ OpenFails /\ UNCHANGED <<heap, radio>>
       \/ /\ cfg.sdr_type = "bladerf_file" /\ cfg.sdr_args # NULL
          /\ \/ FileInitFails("sdr") /\ OpenFails
             \/ /\ heap' = heap \cup FileParts("sdr")
                /\ sdr' = "bladerf_file" /\ Goto("open_recorder") /\ UNCHANGED exit
          /\ UNCHANGED radio
       \/ /\ cfg.sdr_type = "bladerf"
          /\ \/ /\ \E k \in 0 .. Len(RadioSteps) - 1 : radio' = RadioAfter(k)
                /\ OpenFails /\ UNCHANGED heap
             \/ /\ radio' = RadioAfter(Len(RadioSteps))
                /\ heap' = heap \cup RadioParts
                /\ sdr' = "bladerf" /\ Goto("open_recorder") /\ UNCHANGED exit
    /\ UNCHANGED <<argc, cfg, num, rx_recorder, filter, dev, bad_frees, txVars>>

\* The recorder is a file handler: the one named, or the one of the SDR,
\* which for both interfaces is bladerf_file.
OpenRecorder ==
    /\ main = "open_recorder"
    /\ \/ /\ cfg.rx_rec_filename = NULL
          /\ Goto("load_filter") /\ UNCHANGED <<heap, rx_recorder, exit>>
       \/ /\ cfg.rx_rec_filename # NULL /\ cfg.rx_rec_type \notin {NULL, "bladerf_file"}
          /\ Failure /\ UNCHANGED <<heap, rx_recorder>>
       \/ /\ cfg.rx_rec_filename # NULL /\ cfg.rx_rec_type \in {NULL, "bladerf_file", Wild}
          /\ \/ FileInitFails("rx_recorder") /\ Failure /\ UNCHANGED rx_recorder
             \/ /\ heap' = heap \cup FileParts("rx_recorder")
                /\ rx_recorder' = "bladerf_file"
                /\ Goto("load_filter") /\ UNCHANGED exit
    /\ UNCHANGED <<argc, cfg, num, radio, sdr, filter, dev, bad_frees, txVars>>

\* fir_init()
LoadedFilter ==
    /\ filter' \in Decimations
    /\ heap' = heap \cup {<<"main", "filter">>}
NoFilter == UNCHANGED <<filter, heap>>

\* "Force any file recording to occur pre-filter"
RecordsInput == cfg.rx_rec_input \/ filter' = 0

\* Mutant: a filter that can not be loaded is left out.
MustLoadNothing == FALSE

\* A filter that is asked for must load; the default one may be missing.
MustLoad == cfg.rx_filter \notin {NULL, DISABLE_FILTER}

MayLoad == MustLoad \/ (cfg.rx_filter = NULL /\ cfg.direction = "rx")

\* Mutant: the mark stays in cfg, for ookiedokie_cfg_deinit() to free.
FilterNameKept == cfg.rx_filter

FilterName == IF cfg.rx_filter = DISABLE_FILTER THEN NULL ELSE cfg.rx_filter

LoadFilter ==
    /\ main = "load_filter"
    /\ \/ /\ (MayLoad /\ LoadedFilter) \/ (~MustLoad /\ NoFilter)
          /\ cfg' = [cfg EXCEPT !.rx_filter = FilterName, !.rx_rec_input = RecordsInput]
          /\ Goto("load_device") /\ UNCHANGED exit
       \/ /\ MustLoad /\ NoFilter
          /\ Failure /\ UNCHANGED cfg
    /\ UNCHANGED <<argc, num, radio, sdr, rx_recorder, dev, bad_frees, txVars>>

\* Mutant: the decimation of the filter is not accounted for.
DeviceRateUndecimated == num.samplerate

\* cfg.samplerate / decimation
DeviceRate == num.samplerate \div (IF filter = 0 THEN 1 ELSE filter)

LoadDevice ==
    /\ main = "load_device"
    /\ \/ /\ cfg.device = NULL
          /\ Goto(cfg.direction) /\ UNCHANGED <<heap, dev, exit>>
       \/ /\ cfg.device # NULL
          /\ dev' = DeviceRate
          /\ heap' = heap \cup {<<"main", "dev">>}
          /\ Goto(cfg.direction) /\ UNCHANGED exit
       \/ cfg.device # NULL /\ Failure /\ UNCHANGED <<heap, dev>>
    /\ UNCHANGED <<argc, cfg, num, radio, sdr, rx_recorder, filter, bad_frees, txVars>>

\* A step that reads a text of cfg through a pointer that was never set need
\* not return; if it does, the text is any text.
ReadsWild ==
    /\ \/ main = "open_recorder" /\ cfg.rx_rec_filename # NULL
          /\ Wild \in {cfg.rx_rec_filename, cfg.rx_rec_type}
       \/ main = "load_filter" /\ cfg.rx_filter = Wild
       \/ main = "load_device" /\ cfg.device = Wild
       \/ main = "rx" /\ cfg.rx_rec_dig = Wild
    /\ Goto("aborted")
    /\ UNCHANGED <<argc, cfg, num, heap, exit, setup>>

-----------------------------------------------------------------------------
SetupDone == <<argc, cfg, num, radio, sdr, rx_recorder, filter, dev, bad_frees>>

\* ookiedokie_rx(), with rx_init() and rx_deinit(), in module RxSession.
Receive ==
    /\ main = "rx"
    /\ Goto("out")
    /\ exit' \in {"success", "failure"}
    /\ UNCHANGED <<SetupDone, heap, txVars>>

\* ookiedokie_tx(): the samples of the delay and of the message.
TransmitZeros ==
    /\ main = "tx"
    /\ \/ /\ heap' = heap \cup {<<"tx", "zeros">>}
          /\ Goto("transmitting") /\ UNCHANGED exit
       \/ Failure /\ UNCHANGED heap
    /\ UNCHANGED <<SetupDone, txVars>>

\* device_generate().  sm_generate() returns NULL when the generation fails,
\* and the samples it had by then are lost.
TransmitGenerates ==
    /\ main = "transmitting" /\ Generate
    /\ IF pc' = "returned" THEN heap' \in {heap, heap \cup {<<"tx", "lost">>}}
       ELSE heap' = heap \cup {<<"tx", "samples">>}
    /\ UNCHANGED <<main, exit, SetupDone>>

TransmitSends ==
    /\ main = "transmitting" /\ Sends
    /\ UNCHANGED <<main, exit, heap, SetupDone>>

\* Mutant: the samples are only freed when all went well.
TransmitReturnsLeaks ==
    /\ main = "transmitting" /\ pc = "returned"
    /\ heap' = IF status = "ok" THEN heap \ {<<"tx", "samples">>} ELSE heap
    /\ Goto("out")
    /\ exit' = IF status = "ok" THEN "success" ELSE "failure"
    /\ UNCHANGED <<SetupDone, txVars>>

TransmitReturns ==
    /\ main = "transmitting" /\ pc = "returned"
    /\ heap' = heap \ {<<"tx", "samples">>}
    /\ Goto("out")
    /\ exit' = IF status = "ok" THEN "success" ELSE "failure"
    /\ UNCHANGED <<SetupDone, txVars>>

\* The hardware goes on until its module is disabled.
Radiates ==
    /\ radio.enabled = "tx" /\ Radiate
    /\ UNCHANGED <<main, exit, heap, SetupDone>>

-----------------------------------------------------------------------------
\* out: device_deinit() and sdr_deinit() of the SDR and of the recorder; for
\* a radio that is bladerf_enable_module() and bladerf_close().
BackEndParts(owner, interface) ==
    CASE interface = "bladerf" -> RadioParts
      [] interface = "bladerf_file" -> FileParts(owner)
      [] OTHER -> {}

CloseAll ==
    /\ main = "out"
    /\ heap' = heap \ ({<<"main", "dev">>} \cup BackEndParts("sdr", sdr)
                          \cup BackEndParts("rx_recorder", rx_recorder))
    /\ radio' = IF sdr = "bladerf" THEN [radio EXCEPT !.open = FALSE, !.enabled = "none"] ELSE radio
    /\ Goto("cfg_deinit")
    /\ UNCHANGED <<argc, cfg, num, sdr, rx_recorder, filter, dev, exit, bad_frees, txVars>>

\* ookiedokie_cfg_deinit() frees every pointer that is not NULL.  The C
\* library may stop a program that frees what it did not allocate.
Freed == {<<"cfg", f>> : f \in {f \in Pointers : cfg[f] # NULL}}

DeinitCfg ==
    /\ main = "cfg_deinit"
    /\ bad_frees' = Freed \ heap
    /\ heap' = heap \ Freed
    /\ \/ Goto("fir_deinit")
       \/ bad_frees' # {} /\ Goto("aborted")
    /\ UNCHANGED <<argc, cfg, num, radio, sdr, rx_recorder, filter, dev, exit, txVars>>

DeinitFilter ==
    /\ main = "fir_deinit"
    /\ heap' = heap \ {<<"main", "filter">>}
    /\ Goto("exited")
    /\ UNCHANGED <<argc, cfg, num, radio, sdr, rx_recorder, filter, dev, exit, bad_frees, txVars>>

Run == (\E o \in Options : ProcessOption(o)) \/ EndOfOptions \/ ValidateCfg \/ OpenSdr
           \/ OpenRecorder \/ LoadFilter \/ LoadDevice \/ ReadsWild \/ Receive \/ TransmitZeros
           \/ TransmitGenerates \/ TransmitSends \/ TransmitReturns \/ CloseAll
           \/ DeinitCfg \/ DeinitFilter

Next == Run \/ Radiates

Spec == Init /\ [][Next]_vars

\* The program runs on, its calls return, and the hardware does not stop
\* sending full buffers while it is enabled.
FairSpec == Spec /\ WF_vars(Run) /\ WF_vars(Radiates)

-----------------------------------------------------------------------------
Done == main \in {"exited", "returned_early", "aborted"}
InSession == main \in {"rx", "tx", "transmitting"}

\* Every number is within the limits of its option, whatever the suffix and
\* the order of the options; but a threshold may be a NaN, or anything when
\* ookiedokie_cfg_init() has failed, and a frequency that is a NaN converts
\* to anything (conversions.c:195).
SettingsInRange ==
    \A n \in DOMAIN num :
        \/ num[n] \in Numbers[n].min .. Numbers[n].max
        \/ Numbers[n].parser = "double" /\ (num[n] = NaN \/ cfg.device_params = NULL)
        \/ Numbers[n].parser = "suffix" /\ num[n] \in {0, UintMax}

\* Whatever fails, and whenever, main() leaves its clean-up with nothing
\* allocated but the zeros of a transmission (ookiedokie.c:315) and, when it
\* could not be generated and nothing was sent, the samples there were of it
\* (state_machine.c:871); no module enabled, and no radio open but one that
\* could not be set up (bladeRF.c:195).
NothingLeft ==
    main = "exited" =>
        /\ heap \subseteq {<<"tx", "zeros">>, <<"tx", "lost">>}
        /\ <<"tx", "lost">> \in heap => exit = "failure" /\ status = "error" /\ tape = <<>>
        /\ radio.enabled = "none"
        /\ radio.open => sdr = NULL

\* ookiedokie_cfg_deinit() frees what process_cmdline() has allocated.  There
\* are two exceptions: the mark of "--rx-filter none", when main() fails
\* before it has replaced it (main.c:663), and what was in cfg before when
\* ookiedokie_cfg_init() has failed, which main() does not notice (main.c:579).
FreesItsOwn ==
    \A part \in bad_frees :
        \/ cfg.device_params = NULL /\ cfg[part[2]] = Wild
        \/ /\ part = <<"cfg", "rx_filter">> /\ cfg.rx_filter = DISABLE_FILTER
           /\ exit = "failure"

RxConfig ==
    [sdr |-> sdr,
     filter |-> filter # 0,
     recorder |-> IF rx_recorder = NULL THEN "none"
                  ELSE IF cfg.rx_rec_input THEN "input" ELSE "filtered",
     dig |-> cfg.rx_rec_dig # NULL, device |-> dev # NoDevice]

TimesTheRadio ==
    sdr = "bladerf" /\ dev # NoDevice => dev = radio.rate \div (IF filter = 0 THEN 1 ELSE filter)

\* The session starts with all it will use: an open SDR, a radio enabled in
\* the direction of the session, a device when one was asked for, which
\* counts the samples that the radio and the filter will give it as long as
\* the rate is one the radio has, and when receiving a configuration
\* RxSession starts from.
SessionIsSetUp ==
    InSession =>
        /\ sdr = cfg.sdr_type /\ sdr \in Interfaces
        /\ sdr = "bladerf" => radio.open /\ radio.enabled = cfg.direction
        /\ (dev # NoDevice) = (cfg.device # NULL)
        /\ num.samplerate \in 2 * MHz .. 40 * MHz => TimesTheRadio
        /\ main = "rx" => RxConfig \in Config /\ Valid(RxConfig)
        /\ main # "rx" => dev # NoDevice /\ filter = 0 /\ rx_recorder = NULL

\* The exit status is success when the user asked for help or the session
\* ended well, and then every file asked for was there.
StatusTellsOutcome ==
    main = "exited" /\ exit = "success" =>
        /\ sdr # NULL
        /\ cfg.direction = "tx" => status = "ok"
        /\ cfg.rx_rec_filename # NULL => rx_recorder # NULL
        /\ cfg.rx_filter # NULL => filter # 0

\* Every run of the program ends: bladerf_sync_tx() never waits for a buffer
\* that can not become free, and no failure leaves main() stuck.
Ends == <>Done
=============================================================================
