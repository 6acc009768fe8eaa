----------------------------- MODULE SmGenerate -----------------------------
(***************************************************************************)
(* sm_generate() of src/src/state_machine.c: the same device description,  *)
(* walked to craft the samples of one message.  One HandleTx step is one   *)
(* handle_tx_triggers() call of the loop in generate().  The signal is     *)
(* kept as runs of equal samples; `count` and `alloc_len` count samples.   *)
(*                                                                         *)
(* Durations are converted at one sample every SampleUs units of time.     *)
(* realloc() does not fail in the model; the code treats a failure as it   *)
(* does the overflow of alloc_len, which is modelled.                      *)
(***************************************************************************)
EXTENDS StateMachineRx

CONSTANTS
    InitialAlloc,   \* samples allocated at first, 16384 in the code
    UintMax         \* UINT_MAX

ASSUME AllocAssumption ==
    /\ InitialAlloc \in Nat \ {0}
    /\ UintMax \in Nat
    /\ InitialAlloc <= UintMax

VARIABLES
    pc,         \* "generate" while the loops run, then "done" or "failed"
    message,    \* the bits to send, data[] of sm_generate()
    bit,        \* i of sm_generate(); MaxBits for the remainder of the signal
    curr_state, \* sm->curr_state
    num_bits,   \* sm->num_bits
    logic,      \* gen.curr_logic_val
    runs,       \* gen.samples, as runs [value, length]
    count,      \* gen.count
    alloc_len   \* gen.alloc_len

genVars == <<curr_state, num_bits, logic, runs, count, alloc_len>>
txVars == <<pc, message, bit, genVars>>

Gen == [curr_state : States, num_bits : 0 .. MaxBits, logic : BOOLEAN,
        runs : Seq([value : BOOLEAN, length : Nat]), count : Nat, alloc_len : Nat]

\* to_sample_count(): to the nearest sample.
SampleCount(duration) == (2 * duration + SampleUs) \div (2 * SampleUs)

\* The signal generator as it stands, for the operators below.
CurrentGen == [curr_state |-> curr_state, num_bits |-> num_bits, logic |-> logic,
               runs |-> runs, count |-> count, alloc_len |-> alloc_len]

-----------------------------------------------------------------------------
\* Mutant: what is already written is forgotten.
NeedsRoomFromStart(g, duration) == g.alloc_len < SampleCount(duration)

\* append_samples(): whether it finds room, and what it leaves.  The free
\* space is an unsigned difference; alloc_len is doubled once.
NeedsRoom(g, duration) ==
    (g.alloc_len - g.count) % (UintMax + 1) < SampleCount(duration)

AppendFails(g, duration) ==
    /\ NeedsRoom(g, duration)
    /\ \/ 2 * g.alloc_len > UintMax
       \/ UintMax - g.count < SampleCount(duration)

AppendSamples(g, duration) ==
    IF AppendFails(g, duration) THEN g
    ELSE [g EXCEPT !.runs = Append(@, [value |-> g.logic, length |-> SampleCount(duration)]),
                   !.count = @ + SampleCount(duration),
                   !.alloc_len = IF NeedsRoom(g, duration) THEN 2 * @ ELSE @]

\* get_tx_trigger(): the triggers that can be active for bit value b.
BitAction(t, b) ==
    t.action \in {IF b THEN "append_1" ELSE "append_0", "output_data"}

Candidates(g, b, checkBitAction) ==
    {k \in DOMAIN Triggers[g.curr_state] :
        LET t == Triggers[g.curr_state][k]
        IN  /\ checkBitAction => BitAction(t, b)
            /\ t.condition = "msg_complete" => g.num_bits = MaxBits}

\* Mutant: only a trigger for this bit will do.
AvailableStrict(g, b) == Candidates(g, b, TRUE)

\* First a trigger for this bit, else the first one of the state.
Available(g, b) ==
    IF Candidates(g, b, TRUE) # {} THEN Candidates(g, b, TRUE) ELSE Candidates(g, b, FALSE)

\* The trigger can not be followed: a timeout, or an edge the signal already made.
Refused(g, t) ==
    \/ t.condition = "timeout"
    \/ t.condition = "pulse_start" /\ g.logic
    \/ t.condition = "pulse_end" /\ ~g.logic

\* The time spent in the state before the trigger; its result is not looked at.
HoldState(g, t) ==
    IF Duration[g.curr_state] = 0 /\ t.duration_us # 0
    THEN AppendSamples(g, t.duration_us) ELSE g

CountsBit(g, t) == t.action \in AppendActions /\ g.num_bits < MaxBits

\* *done of handle_tx_triggers().
Completes(g, t) == CountsBit(g, t) \/ t.action = "output_data"

FollowTrigger(g, t) ==
    [HoldState(g, t) EXCEPT
        !.logic = CASE t.condition = "pulse_start" -> TRUE
                    [] t.condition = "pulse_end"   -> FALSE
                    [] OTHER                       -> @,
        !.num_bits = IF CountsBit(g, t) THEN @ + 1 ELSE @,
        !.curr_state = t.next_state]

-----------------------------------------------------------------------------
StartsWith(m) ==
    /\ pc = "generate"
    /\ message = m
    /\ bit = 0
    /\ curr_state = Reset
    /\ num_bits = 0
    /\ logic = FALSE
    /\ runs = <<>>
    /\ count = 0
    /\ alloc_len = InitialAlloc

Init == \E m \in [1 .. MaxBits -> BOOLEAN] : StartsWith(m)

\* The remainder of the signal is generated as if for a 0.
BitValue == bit < MaxBits /\ message[bit + 1]

SetGen(g) ==
    /\ curr_state' = g.curr_state
    /\ num_bits' = g.num_bits
    /\ logic' = g.logic
    /\ runs' = g.runs
    /\ count' = g.count
    /\ alloc_len' = g.alloc_len

\* No trigger, a refused one, or no room for the next state: give up.
Fail ==
    /\ pc' = "failed"
    /\ UNCHANGED <<message, bit, genVars>>

HandleTx ==
    /\ pc = "generate"
    /\ LET g == CurrentGen
           t == Triggers[g.curr_state][Min(Available(g, BitValue))]
           f == FollowTrigger(g, t)
           held == Duration[f.curr_state]
       IN  IF Available(g, BitValue) = {} THEN Fail
           ELSE IF Refused(g, t) THEN Fail
           ELSE IF held # 0 /\ AppendFails(f, held) THEN Fail
           ELSE /\ SetGen(IF held = 0 THEN f ELSE AppendSamples(f, held))
                /\ IF Completes(g, t)
                   THEN /\ bit' = bit + 1
                        /\ pc' = IF bit = MaxBits THEN "done" ELSE "generate"
                   ELSE UNCHANGED <<pc, bit>>
                /\ UNCHANGED message

Spec == Init /\ [][HandleTx]_txVars

-----------------------------------------------------------------------------
\* A device none of whose durations is longer than the first allocation: one
\* doubling always makes room.
DurationsFit ==
    \A s \in States :
        /\ SampleCount(Duration[s]) <= InitialAlloc
        /\ \A k \in DOMAIN Triggers[s] :
               SampleCount(Triggers[s][k].duration_us) <= InitialAlloc

\* The samples written fit in the memory allocated for them ("Verify that we
\* won't overrun buffer count", state_machine.c:597).
WithinAllocation == count <= alloc_len

\* Generation of a device that describes a signal comes to its end: the loop
\* in generate() has no bound of its own (state_machine.c:818).
Succeeds == <>(pc = "done")
=============================================================================
