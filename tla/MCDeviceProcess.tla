--------------------------- MODULE MCDeviceProcess ---------------------------
(***************************************************************************)
(* DeviceProcess for a device of one bit per message, so that one buffer   *)
(* can hold two messages: a pulse lasts two samples, the gap after it one  *)
(* sample for a 0 and two for a 1.  Buffers are all sequences of up to     *)
(* three samples, the waveform of two messages, and the same with a pulse  *)
(* of the wrong length in between.                                         *)
(***************************************************************************)
EXTENDS DeviceProcess

On(c, d, a, n) == [condition |-> c, duration_us |-> d, action |-> a, next_state |-> n]

ShortStates == {"reset", "idle", "pulse", "gap"}

ShortTriggers ==
    [reset |-> <<On("always", 0, "none", "idle")>>,
     idle  |-> <<On("pulse_start", 0, "none", "pulse")>>,
     pulse |-> <<On("msg_complete", 0, "output_data", "reset"),
                 On("pulse_end", 0, "none", "gap"),
                 On("timeout", 0, "none", "reset")>>,
     gap   |-> <<On("pulse_start", 1, "append_1", "pulse"),
                 On("pulse_start", 0, "append_0", "pulse"),
                 On("timeout", 0, "none", "reset")>>]

ShortDuration == [s \in ShortStates |-> IF s = "pulse" THEN 1 ELSE 0]
ShortTimeout == [s \in ShortStates |-> CASE s = "pulse" -> 2 [] s = "gap" -> 2 [] OTHER -> 0]

OneField == <<"state">>

T == TRUE
F == FALSE
Zero == <<T, T, F, T, T, F>>
One == <<T, T, F, F, T, T, F>>
Glitch == <<T, F>>

ShortBuffers ==
    UNION {[1 .. n -> BOOLEAN] : n \in 0 .. 3}
    \cup {Zero \o One, One \o Zero, Zero \o Glitch \o One, One \o Zero \o One}
=============================================================================
