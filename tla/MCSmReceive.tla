----------------------------- MODULE MCSmReceive -----------------------------
(***************************************************************************)
(* SmReceive for the shipped device devices/p3l-nexa2012.json, with its    *)
(* states, triggers, durations and timeouts, a message of MaxBits bits in  *)
(* place of 36 and a sample every SampleUs microseconds.                   *)
(***************************************************************************)
EXTENDS SmReceive, NexaDevice

ASSUME NexaWellFormed == WellFormed /\ OutputsOnCompletion

\* When the line stops changing, silent or stuck on, the machine gives up
\* whatever it was decoding and goes back to wait for a pulse in idle (the
\* timeouts of the device, state_machine.c:463).
QuietLineReturnsToIdle ==
    (<>[](sm.prev_bit) \/ <>[](~sm.prev_bit)) => <>[](sm.curr_state = "idle")
=============================================================================
