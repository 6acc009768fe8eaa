---------------------------- MODULE SessionConfig ----------------------------
(***************************************************************************)
(* What main() of src/src/main.c hands to ookiedokie_rx(), as far as it    *)
(* decides what the loop does.  Program shows that every configuration it  *)
(* starts a session with is valid; RxSession starts from all of these.     *)
(***************************************************************************)

\* Samples come from a file or from a radio, and the recorder is given them
\* before or after the filter.
Config == [sdr : {"bladerf", "bladerf_file"}, filter : BOOLEAN,
           recorder : {"none", "input", "filtered"}, dig : BOOLEAN, device : BOOLEAN]

\* There is a device or something to record, and without a filter the
\* recorder records the input.
Valid(c) ==
    /\ c.device \/ c.dig \/ c.recorder # "none"
    /\ c.recorder = "filtered" => c.filter
=============================================================================
