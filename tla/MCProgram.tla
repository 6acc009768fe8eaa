------------------------------ MODULE MCProgram ------------------------------
(***************************************************************************)
(* Program for command lines of up to five options, good and bad, a        *)
(* message of eight samples sent twice through two buffers of two samples, *)
(* and filters that decimate by 1 or 4.  A MHz is 1000 units.  Of what     *)
(* was in cfg before a failed ookiedokie_cfg_init() there are three cases. *)
(***************************************************************************)
EXTENDS Program

Option(name, arg) == [name |-> name, arg |-> arg]
Number(v, rest) == [kind |-> "number", value |-> v, rest |-> rest]
NotANumber == [kind |-> "nan", value |-> 0, rest |-> ""]
NoNumber == [kind |-> "none", value |-> 0, rest |-> "x"]

CommonOptions == {
    Option("rx", "bladerf"), Option("rx", "bladerf_file"), Option("tx", "bladerf"),
    Option("device", "nexa"), Option("sdr_args", "file"),
    Option("rx_filter", "none"), Option("rx_filter", "lowpass"),
    Option("rx_rec", [type |-> NULL, file |-> "rec"]) }

RareOptions == {
    Option("tx", "bladerf_file"), Option("rx", "unknown"),
    Option("rx_rec", [type |-> "bladerf", file |-> "rec"]),
    Option("rx_rec", [type |-> "bladerf_file", file |-> "rec"]),
    Option("rx_rec_input", NULL), Option("rx_rec_dig", "csv"),
    Option("samplerate", Number(1, "M")), Option("samplerate", Number(101, "MHz")),
    Option("samplerate", NotANumber), Option("rx_threshold", NotANumber),
    Option("gain", Number(101, "")), Option("tx_count", NoNumber),
    Option("rx_fmt", "csv"), Option("rx_fmt", "xml"),
    Option("tx_param", "unit=1"), Option("tx_param", "no ="),
    Option("verbosity", "debug"), Option("help", NULL), Option("unknown", NULL) }

\* Pointers that were not set, and a threshold out of its range.
Leftover(wild) ==
    [f \in Unset \cup {"rx_threshold"} |->
        CASE f \in wild -> Wild
          [] f \in Pointers \ wild -> NULL
          [] f = "rx_rec_input" -> wild # {}
          [] f = "rx_fmt" -> "invalid"
          [] OTHER -> 99]
SomeLeftovers ==
    {Leftover({}), Leftover({"device", "rx_rec_dig"}),
     Leftover({"rx_filter", "rx_rec_filename", "rx_rec_type"})}

AllOptions == CommonOptions \cup RareOptions
=============================================================================
