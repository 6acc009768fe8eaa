----------------------------- MODULE NexaDevice -----------------------------
(***************************************************************************)
(* The states, triggers, durations and timeouts of the shipped device      *)
(* description devices/p3l-nexa2012.json, as values for the constants of   *)
(* StateMachineRx.  Times are in ticks, and a sample is SampleUs of them,  *)
(* so that a sample of any rate is a whole number: R samples per second    *)
(* are TicksPerUs = R with SampleUs = 1000000, or both over a common       *)
(* divisor (3 and 1 for the default of 3 million).                         *)
(***************************************************************************)
EXTENDS Naturals

CONSTANT TicksPerUs     \* ticks, the unit of all times, in a microsecond

ASSUME TickAssumption == TicksPerUs \in Nat \ {0}

Ticks(us) == us * TicksPerUs

On(c, d, a, n) == [condition |-> c, duration_us |-> d, action |-> a, next_state |-> n]

NexaStates == {"reset", "idle", "initial_bit_pulse", "initial_off_time",
               "bit_pulse", "bit_off_time"}

NexaTriggers ==
    [reset             |-> <<On("always", 0, "none", "idle")>>,
     idle              |-> <<On("pulse_start", 0, "none", "initial_bit_pulse")>>,
     initial_bit_pulse |-> <<On("pulse_end", 0, "none", "initial_off_time"),
                             On("timeout", 0, "none", "reset")>>,
     initial_off_time  |-> <<On("pulse_start", 0, "none", "bit_pulse"),
                             On("timeout", 0, "none", "reset")>>,
     bit_pulse         |-> <<On("msg_complete", 0, "output_data", "reset"),
                             On("pulse_end", 0, "none", "bit_off_time"),
                             On("timeout", 0, "none", "reset")>>,
     bit_off_time      |-> <<On("pulse_start", Ticks(2000), "append_0", "bit_pulse"),
                             On("pulse_start", Ticks(4000), "append_1", "bit_pulse"),
                             On("timeout", 0, "none", "reset")>>]

NexaDuration == [s \in NexaStates |->
    CASE s = "initial_bit_pulse" -> Ticks(500)
      [] s = "initial_off_time"  -> Ticks(8700)
      [] s = "bit_pulse"         -> Ticks(500)
      [] OTHER                   -> 0]

NexaTimeout == [s \in NexaStates |->
    CASE s = "initial_bit_pulse" -> Ticks(1500)
      [] s = "initial_off_time"  -> Ticks(16400)
      [] s = "bit_pulse"         -> Ticks(1000)
      [] s = "bit_off_time"      -> Ticks(6000)
      [] OTHER                   -> 0]
=============================================================================
