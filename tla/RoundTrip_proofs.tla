--------------------------- MODULE RoundTrip_proofs ---------------------------
(***************************************************************************)
(* The samples that sm_generate() writes stay within their allocation when *)
(* no state lasts longer than the first allocation, for every device,      *)
(* message, sample rate and size of an unsigned int.  For the shipped      *)
(* device they do so at every rate at which the first pulse and the pause  *)
(* after it fit in twice that allocation (RateFits), the signal is the one *)
(* that the device describes, and a receiver of the same device prints the *)
(* message that was sent, at most once a copy, whatever the length of the  *)
(* message and the number of copies.                                       *)
(***************************************************************************)
EXTENDS ShippedLink, Arithmetic, SequenceTheorems

HasRoom(g) ==
    /\ g \in Gen
    /\ InitialAlloc <= g.alloc_len /\ g.alloc_len <= UintMax
    /\ g.count <= g.alloc_len

GenInv == HasRoom(CurrentGen)

LEMMA SampleCountType == ASSUME NEW d \in Nat PROVE SampleCount(d) \in Nat
<1> DEFINE x == 2 * d + SampleUs
           y == 2 * SampleUs
<1>1. x \in Nat /\ y \in Nat \ {0}
  BY DeviceAssumption
<1> HIDE DEF x, y
<1>2. x \div y \in Nat
  BY <1>1, QuotientAndRest
<1> QED BY <1>2 DEF SampleCount, x, y

\* As many samples as were allocated at first always fit in twice the array.
LEMMA ShortFits ==
    ASSUME NEW g, HasRoom(g), NEW d \in Nat, SampleCount(d) <= InitialAlloc
    PROVE  g.count + SampleCount(d) <= 2 * g.alloc_len
<1>1. /\ g.count \in Nat /\ g.alloc_len \in Nat /\ InitialAlloc \in Nat
      /\ InitialAlloc <= g.alloc_len /\ g.count <= g.alloc_len
  BY AllocAssumption DEF HasRoom, Gen
<1>2. SampleCount(d) \in Nat
  BY SampleCountType
<1> QED BY <1>1, <1>2

\* What append_samples() does with samples that fit in twice the array.
LEMMA AppendKeepsRoom ==
    ASSUME NEW g, HasRoom(g), NEW d \in Nat, g.count + SampleCount(d) <= 2 * g.alloc_len
    PROVE  /\ HasRoom(AppendSamples(g, d))
           /\ AppendSamples(g, d).curr_state = g.curr_state
           /\ AppendSamples(g, d).num_bits = g.num_bits
<1> DEFINE c == SampleCount(d)
<1>1. c \in Nat /\ g.count + c <= 2 * g.alloc_len
  BY SampleCountType
<1>2. /\ g.count \in Nat /\ g.alloc_len \in Nat /\ g.logic \in BOOLEAN
      /\ g.runs \in Seq([value : BOOLEAN, length : Nat])
      /\ UintMax \in Nat /\ InitialAlloc \in Nat
      /\ InitialAlloc <= g.alloc_len /\ g.alloc_len <= UintMax /\ g.count <= g.alloc_len
  BY AllocAssumption DEF HasRoom, Gen
<1>3. (g.alloc_len - g.count) % (UintMax + 1) = g.alloc_len - g.count
  <2> DEFINE x == g.alloc_len - g.count
             y == UintMax + 1
  <2>1. x \in Nat /\ y \in Nat \ {0} /\ x < y
    BY <1>2
  <2> HIDE DEF x, y
  <2>2. x = 0 * y + x /\ 0 \in Nat
    BY <2>1
  <2>3. x % y = x
    BY <2>1, <2>2, FitsOnce
  <2> QED BY <2>3 DEF x, y
<1> HIDE DEF c
<1>4. CASE AppendFails(g, d)
  BY <1>4 DEF AppendSamples
<1>5. CASE ~AppendFails(g, d)
  <2> DEFINE more == Append(g.runs, [value |-> g.logic, length |-> c])
             total == g.count + c
             room == IF NeedsRoom(g, d) THEN 2 * g.alloc_len ELSE g.alloc_len
  <2>1. NeedsRoom(g, d) <=> g.alloc_len - g.count < c
    BY <1>3 DEF NeedsRoom, c
  <2>2. room \in Nat /\ InitialAlloc <= room /\ room <= UintMax /\ total \in Nat /\ total <= room
    <3>1. CASE NeedsRoom(g, d)
      <4>1. 2 * g.alloc_len <= UintMax /\ room = 2 * g.alloc_len
        BY <1>2, <1>5, <3>1 DEF AppendFails
      <4> QED BY <1>1, <1>2, <4>1
    <3>2. CASE ~NeedsRoom(g, d)
      <4>1. room = g.alloc_len
        BY <3>2
      <4> QED BY <1>1, <1>2, <2>1, <3>2, <4>1
    <3> QED BY <3>1, <3>2
  <2>3. more \in Seq([value : BOOLEAN, length : Nat])
    BY <1>1, <1>2
  <2>4. AppendSamples(g, d) = [g EXCEPT !.runs = more, !.count = total, !.alloc_len = room]
    BY <1>5 DEF AppendSamples, c
  <2> HIDE DEF more, total, room
  <2> QED BY <2>2, <2>3, <2>4 DEF HasRoom, Gen
<1> QED BY <1>4, <1>5

LEMMA FollowKeepsRoom ==
    ASSUME DurationsFit, NEW g, HasRoom(g), NEW t,
           NEW i \in DOMAIN Triggers[g.curr_state], t = Triggers[g.curr_state][i]
    PROVE  HasRoom(FollowTrigger(g, t))
<1>1. g \in Gen /\ g.curr_state \in States
  BY DEF HasRoom, Gen
<1>2. t \in Trigger /\ SampleCount(t.duration_us) <= InitialAlloc
  BY <1>1, DeviceAssumption DEF DurationsFit
<1>3. t.next_state \in States /\ t.duration_us \in Nat
  BY <1>2 DEF Trigger
<1> DEFINE h == HoldState(g, t)
<1>4. HasRoom(h) /\ h.num_bits = g.num_bits
  BY <1>2, <1>3, ShortFits, AppendKeepsRoom DEF HoldState
<1> HIDE DEF h
<1>5. h \in Gen
  BY <1>4 DEF HasRoom
<1> DEFINE value == CASE t.condition = "pulse_start" -> TRUE
                      [] t.condition = "pulse_end"   -> FALSE
                      [] OTHER                       -> h.logic
           bits == IF CountsBit(g, t) THEN h.num_bits + 1 ELSE h.num_bits
<1>6. value \in BOOLEAN
  BY <1>5 DEF Gen
<1>7. bits \in 0 .. MaxBits
  <2>1. h.num_bits \in 0 .. MaxBits /\ g.num_bits = h.num_bits /\ MaxBits \in Nat
    BY <1>4, <1>5, DeviceAssumption DEF Gen
  <2>2. CASE CountsBit(g, t)
    <3>1. g.num_bits < MaxBits
      BY <2>2 DEF CountsBit
    <3> QED BY <2>1, <2>2, <3>1
  <2> QED BY <2>1, <2>2
<1>8. FollowTrigger(g, t) = [h EXCEPT !.logic = value, !.num_bits = bits, !.curr_state = t.next_state]
  BY DEF FollowTrigger, h
<1> HIDE DEF value, bits
<1> QED BY <1>3, <1>4, <1>5, <1>6, <1>7, <1>8 DEF HasRoom, Gen

LEMMA InitGen == Init => GenInv
<1>1. <<>> \in Seq([value : BOOLEAN, length : Nat])
  OBVIOUS
<1>2. Reset \in States /\ MaxBits \in Nat /\ InitialAlloc \in Nat /\ InitialAlloc <= UintMax
  BY DeviceAssumption, AllocAssumption
<1> SUFFICES ASSUME Init PROVE GenInv
  OBVIOUS
<1>3. CurrentGen = [curr_state |-> Reset, num_bits |-> 0, logic |-> FALSE, runs |-> <<>>,
                    count |-> 0, alloc_len |-> InitialAlloc]
  BY DEF Init, StartsWith, CurrentGen
<1>4. CurrentGen \in Gen
  BY <1>1, <1>2, <1>3 DEF Gen
<1> QED BY <1>2, <1>3, <1>4 DEF GenInv, HasRoom

LEMMA NextGen == DurationsFit /\ GenInv /\ [HandleTx]_txVars => GenInv'
<1> SUFFICES ASSUME DurationsFit, GenInv, [HandleTx]_txVars PROVE GenInv'
  OBVIOUS
<1> DEFINE g == CurrentGen
           i == Min(Available(g, BitValue))
           t == Triggers[g.curr_state][i]
           f == FollowTrigger(g, t)
           held == Duration[f.curr_state]
           n == IF held = 0 THEN f ELSE AppendSamples(f, held)
<1>1. CASE UNCHANGED genVars
  BY <1>1 DEF genVars, GenInv, CurrentGen
<1>2. CASE Available(g, BitValue) # {} /\ SetGen(n)
  <2>1. g \in Gen /\ g.curr_state \in States
    BY DEF GenInv, HasRoom, Gen
  <2>2. i \in DOMAIN Triggers[g.curr_state]
    <3>1. Available(g, BitValue) \subseteq DOMAIN Triggers[g.curr_state]
      BY DEF Available, Candidates
    <3>2. DOMAIN Triggers[g.curr_state] \in SUBSET Nat
      BY <2>1, DeviceAssumption
    <3>3. \E x \in Available(g, BitValue) : \A y \in Available(g, BitValue) : x <= y
      BY <1>2, <3>1, <3>2, Least
    <3> QED BY <3>1, <3>3 DEF Min
  <2>3. HasRoom(f)
    BY <2>2, FollowKeepsRoom DEF GenInv
  <2>4. HasRoom(n)
    <3> HIDE DEF f
    <3>1. f.curr_state \in States
      BY <2>3 DEF HasRoom, Gen
    <3>2. held \in Nat /\ SampleCount(held) <= InitialAlloc
      BY <3>1, DeviceAssumption DEF DurationsFit
    <3> HIDE DEF held
    <3> QED BY <2>3, <3>2, ShortFits, AppendKeepsRoom
  <2> HIDE DEF n
  <2>5. n \in Gen
    BY <2>4 DEF HasRoom
  <2>6. CurrentGen' = n
    BY <1>2, <2>5 DEF SetGen, CurrentGen, Gen
  <2> QED BY <2>4, <2>6 DEF GenInv
<1> QED BY <1>1, <1>2, Zenon DEF HandleTx, Fail, txVars

\* A device whose durations all fit in the first allocation never makes
\* append_samples() write past the end of the array (state_machine.c:590),
\* whatever the message.
THEOREM StaysWithinAllocation == ASSUME DurationsFit PROVE Spec => []WithinAllocation
<1>1. GenInv => WithinAllocation
  BY DEF GenInv, HasRoom, CurrentGen, WithinAllocation
<1> QED BY <1>1, InitGen, NextGen, PTL DEF Spec

\* In the round trip the generator is the one of SmGenerate: the loop of
\* ookiedokie_tx() and the receiver leave it alone.
THEOREM GeneratesAlone == RTSpec => Spec
<1>1. RTInit => Init
  BY DEF RTInit
<1>2. [RTNext]_rtVars => [HandleTx]_txVars
  BY DEF RTNext, Generate, Send, NextRun, rtVars
<1> QED BY <1>1, <1>2, PTL DEF RTSpec, Spec

\* So the samples that are sent fit as well.
THEOREM RoundTripWithinAllocation == ASSUME DurationsFit PROVE RTSpec => []WithinAllocation
BY GeneratesAlone, StaysWithinAllocation, PTL
-----------------------------------------------------------------------------
(* The shipped device: the signal of a message.                            *)

LEMMA ShippedStates ==
    ASSUME ShippedDevice
    PROVE  /\ "reset" \in States /\ "idle" \in States /\ "initial_bit_pulse" \in States
           /\ "initial_off_time" \in States /\ "bit_pulse" \in States
           /\ "bit_off_time" \in States
           /\ Triggers["reset"] = <<On("always", 0, "none", "idle")>>
           /\ Triggers["idle"] = <<On("pulse_start", 0, "none", "initial_bit_pulse")>>
           /\ Triggers["initial_bit_pulse"] = <<On("pulse_end", 0, "none", "initial_off_time"),
                                                On("timeout", 0, "none", "reset")>>
           /\ Triggers["initial_off_time"] = <<On("pulse_start", 0, "none", "bit_pulse"),
                                               On("timeout", 0, "none", "reset")>>
           /\ Triggers["bit_pulse"] = <<On("msg_complete", 0, "output_data", "reset"),
                                        On("pulse_end", 0, "none", "bit_off_time"),
                                        On("timeout", 0, "none", "reset")>>
           /\ Triggers["bit_off_time"] = <<On("pulse_start", GapTime(FALSE), "append_0", "bit_pulse"),
                                           On("pulse_start", GapTime(TRUE), "append_1", "bit_pulse"),
                                           On("timeout", 0, "none", "reset")>>
BY DEF ShippedDevice, NexaStates, NexaTriggers, GapTime, Ticks

LEMMA ShippedTimes ==
    ASSUME ShippedDevice
    PROVE  /\ Duration["reset"] = 0 /\ Duration["idle"] = 0
           /\ Duration["initial_bit_pulse"] = PulseTime /\ Duration["initial_off_time"] = PauseTime
           /\ Duration["bit_pulse"] = PulseTime /\ Duration["bit_off_time"] = 0
           /\ Timeout["reset"] = 0 /\ Timeout["idle"] = 0
           /\ Timeout["initial_bit_pulse"] = Ticks(1500)
           /\ Timeout["initial_off_time"] = Ticks(16400)
           /\ Timeout["bit_pulse"] = Ticks(1000) /\ Timeout["bit_off_time"] = Ticks(6000)
BY DEF ShippedDevice, NexaStates, NexaDuration, NexaTimeout, PulseTime, PauseTime, Ticks

\* The least of a set of numbers.
LEMMA MinIs ==
    ASSUME NEW S \in SUBSET Nat, NEW x \in S, \A y \in S : x <= y
    PROVE  Min(S) = x
<1>1. Min(S) \in S /\ \A y \in S : Min(S) <= y
  BY DEF Min
<1>2. PICK z \in S : z = Min(S) /\ \A y \in S : z <= y
  BY <1>1
<1>3. x \in Nat /\ z \in Nat /\ x <= z /\ z <= x
  BY <1>2
<1> QED BY <1>2, <1>3

\* One turn of handle_tx_triggers() that finds a trigger and follows it.
Turn(g, b, n, done) ==
    LET t == Triggers[g.curr_state][Min(Available(g, b))]
        f == FollowTrigger(g, t)
        held == Duration[f.curr_state]
    IN  /\ Available(g, b) # {} /\ ~Refused(g, t)
        /\ held = 0 \/ ~AppendFails(f, held)
        /\ n = IF held = 0 THEN f ELSE AppendSamples(f, held)
        /\ done = Completes(g, t)

LEMMA TurnTaken ==
    ASSUME HandleTx, NEW n, NEW done, Turn(CurrentGen, BitValue, n, done)
    PROVE  /\ SetGen(n) /\ message' = message
           /\ done => bit' = bit + 1 /\ pc' = IF bit = MaxBits THEN "done" ELSE "generate"
           /\ ~done => bit' = bit /\ pc' = pc
BY DEF HandleTx, Turn

LEMMA RoomIsKept ==
    ASSUME NEW n, SetGen(n), HasRoom(n)
    PROVE  GenInv'
<1>1. n \in Gen
  BY DEF HasRoom
<1>2. CurrentGen' = n
  BY <1>1 DEF SetGen, CurrentGen, Gen
<1> QED BY <1>2 DEF GenInv

\* Appending samples for which UINT_MAX leaves room.
LEMMA AppendWorks ==
    ASSUME NEW g, HasRoom(g), NEW d \in Nat, g.count + SampleCount(d) <= 2 * g.alloc_len,
           2 * (g.count + SampleCount(d)) <= UintMax
    PROVE  /\ ~AppendFails(g, d)
           /\ HasRoom(AppendSamples(g, d))
           /\ AppendSamples(g, d).runs = Append(g.runs, [value |-> g.logic,
                                                         length |-> SampleCount(d)])
           /\ AppendSamples(g, d).count = g.count + SampleCount(d)
           /\ AppendSamples(g, d).logic = g.logic
           /\ AppendSamples(g, d).curr_state = g.curr_state
           /\ AppendSamples(g, d).num_bits = g.num_bits
<1> DEFINE c == SampleCount(d)
<1>1. c \in Nat
  BY SampleCountType
<1>2. /\ g.count \in Nat /\ g.alloc_len \in Nat /\ g \in Gen
      /\ UintMax \in Nat /\ g.alloc_len <= UintMax /\ g.count <= g.alloc_len
  BY AllocAssumption DEF HasRoom, Gen
<1>3. (g.alloc_len - g.count) % (UintMax + 1) = g.alloc_len - g.count
  <2> DEFINE x == g.alloc_len - g.count
             y == UintMax + 1
  <2>1. x \in Nat /\ y \in Nat \ {0} /\ x < y
    BY <1>2
  <2> HIDE DEF x, y
  <2>2. x = 0 * y + x /\ 0 \in Nat
    BY <2>1
  <2>3. x % y = x
    BY <2>1, <2>2, FitsOnce
  <2> QED BY <2>3 DEF x, y
<1>4. ~AppendFails(g, d)
  <2>1. NeedsRoom(g, d) => g.alloc_len - g.count < c
    BY <1>3 DEF NeedsRoom
  <2>2. 2 * (g.count + c) <= UintMax
    OBVIOUS
  <2> HIDE DEF c
  <2>3. NeedsRoom(g, d) => ~(2 * g.alloc_len > UintMax) /\ ~(UintMax - g.count < c)
    BY <1>1, <1>2, <2>1, <2>2
  <2> QED BY <2>3 DEF AppendFails, c
<1>5. HasRoom(AppendSamples(g, d))
  BY AppendKeepsRoom
<1>6. AppendSamples(g, d)
          = [g EXCEPT !.runs = Append(@, [value |-> g.logic, length |-> c]),
                      !.count = @ + c,
                      !.alloc_len = IF NeedsRoom(g, d) THEN 2 * @ ELSE @]
  BY <1>4 DEF AppendSamples
<1> HIDE DEF c
<1> QED BY <1>2, <1>4, <1>5, <1>6 DEF Gen, c

\* Trigger k is the one that is followed, h being the generator after the time
\* spent in the state before it.
Followed(g, b, k, t, h) ==
    /\ HasRoom(g) /\ k \in Available(g, b)
    /\ Available(g, b) \subseteq Nat /\ \A y \in Available(g, b) : k <= y
    /\ t = Triggers[g.curr_state][k] /\ ~Refused(g, t)
    /\ h = HoldState(g, t) /\ HasRoom(h) /\ h.num_bits = g.num_bits
    /\ t.next_state \in States /\ Duration[t.next_state] \in Nat
    /\ Duration[t.next_state] # 0 =>
           /\ h.count + SampleCount(Duration[t.next_state]) <= 2 * h.alloc_len
           /\ 2 * (h.count + SampleCount(Duration[t.next_state])) <= UintMax

\* The generator n that is left then.
Leaves(g, t, h, n) ==
    /\ HasRoom(n)
    /\ n.curr_state = t.next_state
    /\ n.num_bits = IF CountsBit(g, t) THEN g.num_bits + 1 ELSE g.num_bits
    /\ n.logic = CASE t.condition = "pulse_start" -> TRUE
                   [] t.condition = "pulse_end"   -> FALSE
                   [] OTHER                       -> h.logic
    /\ IF Duration[t.next_state] = 0 THEN n.runs = h.runs /\ n.count = h.count
       ELSE /\ n.runs = Append(h.runs, [value |-> n.logic,
                                        length |-> SampleCount(Duration[t.next_state])])
            /\ n.count = h.count + SampleCount(Duration[t.next_state])

LEMMA TurnLeaves ==
    ASSUME NEW g, NEW b, NEW k, NEW t, NEW h, Followed(g, b, k, t, h)
    PROVE  \E n : Turn(g, b, n, Completes(g, t)) /\ Leaves(g, t, h, n)
<1>0. /\ HasRoom(g) /\ k \in Available(g, b)
      /\ Available(g, b) \subseteq Nat /\ \A y \in Available(g, b) : k <= y
      /\ t = Triggers[g.curr_state][k] /\ ~Refused(g, t)
      /\ h = HoldState(g, t) /\ HasRoom(h) /\ h.num_bits = g.num_bits
      /\ t.next_state \in States
  BY DEF Followed
<1> PICK held \in Nat : held = Duration[t.next_state]
  BY DEF Followed
<1>a. held # 0 => /\ h.count + SampleCount(held) <= 2 * h.alloc_len
                  /\ 2 * (h.count + SampleCount(held)) <= UintMax
  BY DEF Followed
<1> DEFINE value == CASE t.condition = "pulse_start" -> TRUE
                      [] t.condition = "pulse_end"   -> FALSE
                      [] OTHER                       -> h.logic
           more == IF CountsBit(g, t) THEN g.num_bits + 1 ELSE g.num_bits
           f == FollowTrigger(g, t)
<1>1. h \in Gen /\ g \in Gen
  BY <1>0 DEF HasRoom
<1>2. value \in BOOLEAN
  BY <1>1 DEF Gen
<1>3. more \in 0 .. MaxBits
  <2>1. g.num_bits \in 0 .. MaxBits /\ MaxBits \in Nat
    BY <1>1, DeviceAssumption DEF Gen
  <2> QED BY <2>1 DEF CountsBit
<1>4. f = [h EXCEPT !.logic = value, !.num_bits = more, !.curr_state = t.next_state]
  BY <1>0 DEF FollowTrigger
<1> HIDE DEF value, more, f
<1>5. /\ f \in Gen /\ f.logic = value /\ f.num_bits = more /\ f.curr_state = t.next_state
      /\ f.runs = h.runs /\ f.count = h.count /\ f.alloc_len = h.alloc_len
  BY <1>0, <1>1, <1>2, <1>3, <1>4 DEF Gen
<1>6. HasRoom(f)
  BY <1>0, <1>5 DEF HasRoom
<1>7. Min(Available(g, b)) = k
  BY <1>0, MinIs
<1>8. Available(g, b) # {}
  BY <1>0
<1>9. CASE held = 0
  <2>1. Turn(g, b, f, Completes(g, t))
    BY <1>0, <1>5, <1>7, <1>8, <1>9 DEF Turn, f
  <2>2. Leaves(g, t, h, f)
    BY <1>5, <1>6, <1>9 DEF value, more, Leaves
  <2> QED BY <2>1, <2>2
<1>10. CASE held # 0
  <2>1. /\ ~AppendFails(f, held)
        /\ HasRoom(AppendSamples(f, held))
        /\ AppendSamples(f, held).runs = Append(f.runs, [value |-> f.logic,
                                                         length |-> SampleCount(held)])
        /\ AppendSamples(f, held).count = f.count + SampleCount(held)
        /\ AppendSamples(f, held).logic = f.logic
        /\ AppendSamples(f, held).curr_state = f.curr_state
        /\ AppendSamples(f, held).num_bits = f.num_bits
    BY <1>a, <1>5, <1>6, <1>10, AppendWorks
  <2>2. PICK n : n = AppendSamples(f, held)
    OBVIOUS
  <2>3. Turn(g, b, n, Completes(g, t))
    BY <1>0, <1>5, <1>7, <1>8, <1>10, <2>1, <2>2 DEF Turn, f
  <2>4. Leaves(g, t, h, n)
    BY <1>5, <1>10, <2>1, <2>2 DEF value, more, Leaves
  <2> QED BY <2>3, <2>4
<1> QED BY <1>9, <1>10

\* Outside of bit_pulse and bit_off_time the first trigger is followed,
\* whatever the bit.
LEMMA TurnLead ==
    ASSUME ShippedDevice, NEW g, NEW b \in BOOLEAN, HasRoom(g),
           g.curr_state \in {"reset", "idle", "initial_bit_pulse", "initial_off_time"},
           NEW t, t = Triggers[g.curr_state][1], ~Refused(g, t),
           Duration[t.next_state] # 0 =>
               /\ g.count + SampleCount(Duration[t.next_state]) <= 2 * g.alloc_len
               /\ 2 * (g.count + SampleCount(Duration[t.next_state])) <= UintMax
    PROVE  ~CountsBit(g, t) /\ \E n : Turn(g, b, n, FALSE) /\ Leaves(g, t, g, n)
<1>1. \A y \in DOMAIN Triggers[g.curr_state] :
          /\ Triggers[g.curr_state][y].action = "none"
          /\ Triggers[g.curr_state][y].condition # "msg_complete"
  BY ShippedStates DEF On
<1>2. /\ DOMAIN Triggers[g.curr_state] = 1 .. Len(Triggers[g.curr_state])
      /\ 1 \in DOMAIN Triggers[g.curr_state]
  BY ShippedStates
<1>3. Candidates(g, b, TRUE) = {}
  BY <1>1 DEF Candidates, BitAction
<1>4. Candidates(g, b, FALSE) = DOMAIN Triggers[g.curr_state]
  BY <1>1 DEF Candidates
<1>5. Available(g, b) = DOMAIN Triggers[g.curr_state]
  BY <1>3, <1>4 DEF Available
<1>6. /\ Available(g, b) \subseteq Nat /\ 1 \in Available(g, b)
      /\ \A y \in Available(g, b) : 1 <= y
  BY <1>2, <1>5, ShippedStates
<1>7. /\ t.next_state \in States /\ t.duration_us = 0 /\ t.action = "none"
  BY ShippedStates DEF On
<1>8. g = HoldState(g, t)
  BY <1>7 DEF HoldState
<1>9. Duration[t.next_state] \in Nat
  BY <1>7, DeviceAssumption
<1>10. CountsBit(g, t) = FALSE /\ Completes(g, t) = FALSE
  BY <1>7 DEF CountsBit, Completes, AppendActions
<1>11. Followed(g, b, 1, t, g)
  BY <1>6, <1>7, <1>8, <1>9 DEF Followed
<1>12. PICK n : Turn(g, b, n, Completes(g, t)) /\ Leaves(g, t, g, n)
  BY <1>11, TurnLeaves, Zenon
<1>13. Turn(g, b, n, FALSE)
  BY <1>10, <1>12, Zenon
<1> QED BY <1>10, <1>12, <1>13, Zenon

\* In bit_pulse the pulse ends, unless it was the last one.
LEMMA TurnPulse ==
    ASSUME ShippedDevice, NEW g, NEW b \in BOOLEAN, HasRoom(g),
           g.curr_state = "bit_pulse", g.logic, g.num_bits < MaxBits
    PROVE  \E n :
               /\ Turn(g, b, n, FALSE)
               /\ HasRoom(n)
               /\ n.curr_state = "bit_off_time" /\ n.num_bits = g.num_bits /\ ~n.logic
               /\ n.runs = g.runs /\ n.count = g.count
<1>1. PICK t : t = Triggers["bit_pulse"][2]
  OBVIOUS
<1>2. t = On("pulse_end", 0, "none", "bit_off_time")
  BY <1>1, ShippedStates
<1>3. DOMAIN Triggers[g.curr_state] = 1 .. 3
  BY ShippedStates
<1>4. \A y \in 1 .. 3 : y # 1 => /\ Triggers[g.curr_state][y].action = "none"
                                 /\ Triggers[g.curr_state][y].condition # "msg_complete"
  BY ShippedStates DEF On
<1>5. Triggers[g.curr_state][1].condition = "msg_complete" /\ g.num_bits # MaxBits
  <2>1. g.num_bits \in 0 .. MaxBits /\ MaxBits \in Nat
    BY DeviceAssumption DEF HasRoom, Gen
  <2> QED BY <2>1, ShippedStates DEF On
<1>6. Candidates(g, b, TRUE) = {}
  BY <1>3, <1>4, <1>5 DEF Candidates, BitAction
<1>7. Candidates(g, b, FALSE) = {2, 3}
  BY <1>3, <1>4, <1>5 DEF Candidates
<1>8. Available(g, b) = {2, 3}
  BY <1>6, <1>7 DEF Available
<1>9. /\ 2 \in Available(g, b) /\ Available(g, b) \subseteq Nat
      /\ \A y \in Available(g, b) : 2 <= y
  BY <1>8
<1>10. /\ ~Refused(g, t) /\ g = HoldState(g, t)
       /\ CountsBit(g, t) = FALSE /\ Completes(g, t) = FALSE
  BY <1>2 DEF Refused, HoldState, CountsBit, Completes, AppendActions, On
<1>11. t.next_state = "bit_off_time" /\ t.condition = "pulse_end"
  BY <1>2 DEF On
<1>12. t.next_state \in States /\ Duration[t.next_state] = 0 /\ t = Triggers[g.curr_state][2]
  BY <1>1, <1>11, ShippedStates, ShippedTimes
<1>13. Followed(g, b, 2, t, g)
  BY <1>9, <1>10, <1>12 DEF Followed
<1>14. PICK n : Turn(g, b, n, Completes(g, t)) /\ Leaves(g, t, g, n)
  BY <1>13, TurnLeaves, Zenon
<1> QED BY <1>10, <1>11, <1>12, <1>14 DEF Leaves

\* The last pulse completes the message.
LEMMA TurnLast ==
    ASSUME ShippedDevice, NEW g, NEW b \in BOOLEAN, HasRoom(g),
           g.curr_state = "bit_pulse", g.num_bits = MaxBits
    PROVE  \E n :
               /\ Turn(g, b, n, TRUE)
               /\ HasRoom(n)
               /\ n.runs = g.runs /\ n.count = g.count
<1>1. PICK t : t = Triggers["bit_pulse"][1]
  OBVIOUS
<1>2. t = On("msg_complete", 0, "output_data", "reset")
  BY <1>1, ShippedStates
<1>3. DOMAIN Triggers[g.curr_state] = 1 .. 3
  BY ShippedStates
<1>4. \A y \in 1 .. 3 : y # 1 => Triggers[g.curr_state][y].action = "none"
  BY ShippedStates DEF On
<1>5. Triggers[g.curr_state][1] = t /\ t.action = "output_data"
  BY <1>1, <1>2 DEF On
<1>6. Candidates(g, b, TRUE) = {1}
  BY <1>3, <1>4, <1>5 DEF Candidates, BitAction
<1>7. Available(g, b) = {1}
  BY <1>6 DEF Available
<1>8. /\ 1 \in Available(g, b) /\ Available(g, b) \subseteq Nat
      /\ \A y \in Available(g, b) : 1 <= y
  BY <1>7
<1>9. /\ ~Refused(g, t) /\ g = HoldState(g, t)
      /\ CountsBit(g, t) = FALSE /\ Completes(g, t) = TRUE
  BY <1>2 DEF Refused, HoldState, CountsBit, Completes, AppendActions, On
<1>10. t.next_state \in States /\ Duration[t.next_state] = 0
  BY <1>2, ShippedStates, ShippedTimes DEF On
<1>11. Followed(g, b, 1, t, g)
  BY <1>5, <1>8, <1>9, <1>10 DEF Followed
<1>12. PICK n : Turn(g, b, n, Completes(g, t)) /\ Leaves(g, t, g, n)
  BY <1>11, TurnLeaves, Zenon
<1>13. Turn(g, b, n, TRUE)
  BY <1>9, <1>12, Zenon
<1>14. HasRoom(n) /\ n.runs = g.runs /\ n.count = g.count
  BY <1>10, <1>12 DEF Leaves
<1> QED BY <1>13, <1>14, Zenon

\* The times of the line and their samples are numbers.
LEMMA LineTypes ==
    /\ PulseTime \in Nat \ {0} /\ PauseTime \in Nat \ {0}
    /\ \A b \in BOOLEAN : GapTime(b) \in Nat \ {0}
    /\ SampleCount(PulseTime) \in Nat /\ SampleCount(PauseTime) \in Nat
    /\ \A b \in BOOLEAN : SampleCount(GapTime(b)) \in Nat
    /\ SampleCount(GapTime(FALSE)) \in Nat /\ SampleCount(GapTime(TRUE)) \in Nat
    /\ SampleCount(GapTime(FALSE)) <= SampleCount(GapTime(TRUE))
<1>1. /\ PulseTime \in Nat \ {0} /\ PauseTime \in Nat \ {0}
      /\ \A b \in BOOLEAN : GapTime(b) \in Nat \ {0}
      /\ GapTime(FALSE) <= GapTime(TRUE)
  BY TickAssumption DEF PulseTime, PauseTime, GapTime, Ticks
<1>2. \A d \in Nat : SampleCount(d) \in Nat
  BY SampleCountType
<1>3. ASSUME NEW d \in Nat, NEW e \in Nat, d <= e PROVE SampleCount(d) <= SampleCount(e)
  <2> DEFINE x == 2 * d + SampleUs
             y == 2 * e + SampleUs
             z == 2 * SampleUs
  <2>1. x \in Nat /\ y \in Nat /\ z \in Nat \ {0} /\ x <= y
    BY <1>3, DeviceAssumption
  <2> HIDE DEF x, y, z
  <2>2. x \div z <= y \div z
    BY <2>1, DivisionMonotone
  <2> QED BY <2>2 DEF SampleCount, x, y, z
<1> QED BY <1>1, <1>2, <1>3

\* The gap of a bit, and the pulse that ends it.
GapWritten(g, d, n) ==
    /\ HasRoom(n)
    /\ n.curr_state = "bit_pulse" /\ n.num_bits = g.num_bits + 1 /\ n.logic
    /\ n.runs = Append(Append(g.runs, [value |-> FALSE, length |-> SampleCount(d)]),
                       [value |-> TRUE, length |-> SampleCount(PulseTime)])
    /\ n.count = g.count + SampleCount(d) + SampleCount(PulseTime)

LEMMA TurnGap ==
    ASSUME ShippedDevice, RateFits, NEW g, NEW b \in BOOLEAN, HasRoom(g),
           g.curr_state = "bit_off_time", ~g.logic, g.num_bits < MaxBits,
           NEW d, d = GapTime(b),
           2 * (g.count + SampleCount(d) + SampleCount(PulseTime)) <= UintMax
    PROVE  \E n : Turn(g, b, n, TRUE) /\ GapWritten(g, d, n)
<1> PICK k \in {1, 2} : k = IF b THEN 2 ELSE 1
  OBVIOUS
<1> PICK action : action = IF b THEN "append_1" ELSE "append_0"
  OBVIOUS
<1>0. d \in Nat \ {0} /\ PulseTime \in Nat \ {0}
  BY LineTypes
<1>1. PICK t : t = Triggers["bit_off_time"][k]
  OBVIOUS
<1>2. t = On("pulse_start", d, action, "bit_pulse")
  <2>1. CASE b = TRUE
    BY <1>1, <2>1, ShippedStates DEF GapTime
  <2>2. CASE b = FALSE
    BY <1>1, <2>2, ShippedStates DEF GapTime
  <2> QED BY <2>1, <2>2
<1>3. DOMAIN Triggers[g.curr_state] = 1 .. 3 /\ k \in 1 .. 3
  BY ShippedStates
<1>4. \A y \in 1 .. 3 : /\ Triggers[g.curr_state][y].action = action <=> y = k
                        /\ Triggers[g.curr_state][y].action # "output_data"
                        /\ Triggers[g.curr_state][y].condition # "msg_complete"
  BY ShippedStates DEF On
<1>5. Candidates(g, b, TRUE) = {k}
  BY <1>3, <1>4 DEF Candidates, BitAction
<1>6. Available(g, b) = {k}
  <2>1. {k} # {}
    OBVIOUS
  <2> QED BY <1>5, <2>1, Zenon DEF Available
<1>7. /\ k \in Nat /\ k \in Available(g, b) /\ Available(g, b) \subseteq Nat
      /\ \A y \in Available(g, b) : k <= y
  BY <1>6
<1>8. /\ t.condition = "pulse_start" /\ t.duration_us = d /\ d # 0
      /\ t.action = action /\ t.next_state = "bit_pulse"
  BY <1>0, <1>2 DEF On
<1>9. /\ ~Refused(g, t) /\ CountsBit(g, t) = TRUE /\ Completes(g, t) = TRUE
  BY <1>8 DEF Refused, CountsBit, Completes, AppendActions
<1>10. g.curr_state \in States /\ k \in DOMAIN Triggers[g.curr_state] /\ t = Triggers[g.curr_state][k]
  BY <1>1, <1>3, ShippedStates
<1>11. SampleCount(d) <= InitialAlloc /\ SampleCount(PulseTime) <= InitialAlloc
  BY DEF RateFits
<1>12. /\ g.count \in Nat /\ SampleCount(d) \in Nat /\ SampleCount(PulseTime) \in Nat
       /\ UintMax \in Nat
  <2>2. SampleCount(d) \in Nat
    BY <1>0, SampleCountType
  <2>3. SampleCount(PulseTime) \in Nat
    BY <1>0, SampleCountType
  <2>4. g.count \in Nat
    BY DEF HasRoom, Gen
  <2> QED BY <2>2, <2>3, <2>4, AllocAssumption
<1>13. PICK h : h = AppendSamples(g, d)
  OBVIOUS
<1>14. h = HoldState(g, t)
  <2>1. Duration[g.curr_state] = 0
    BY ShippedTimes
  <2> QED BY <1>8, <1>13, <2>1 DEF HoldState
<1>15. 2 * (g.count + SampleCount(d)) <= UintMax
  BY <1>12
<1>16. /\ HasRoom(h)
       /\ h.runs = Append(g.runs, [value |-> FALSE, length |-> SampleCount(d)])
       /\ h.count = g.count + SampleCount(d)
       /\ h.num_bits = g.num_bits
  <2>1. g.logic = FALSE
    BY DEF HasRoom, Gen
  <2>2. /\ HasRoom(AppendSamples(g, d))
        /\ AppendSamples(g, d).runs = Append(g.runs, [value |-> g.logic,
                                                      length |-> SampleCount(d)])
        /\ AppendSamples(g, d).count = g.count + SampleCount(d)
        /\ AppendSamples(g, d).num_bits = g.num_bits
    BY <1>0, <1>11, <1>15, ShortFits, AppendWorks
  <2>3. h.runs = Append(g.runs, [value |-> FALSE, length |-> SampleCount(d)])
    BY <1>13, <2>1, <2>2, Zenon
  <2> QED BY <1>13, <2>2, <2>3
<1>17. /\ t.next_state \in States /\ PulseTime = Duration[t.next_state]
       /\ 2 * (h.count + SampleCount(PulseTime)) <= UintMax
       /\ h.count + SampleCount(PulseTime) <= 2 * h.alloc_len
  <2>1. t.next_state \in States /\ PulseTime = Duration[t.next_state]
    BY <1>8, ShippedStates, ShippedTimes
  <2>2. 2 * (h.count + SampleCount(PulseTime)) <= UintMax
    BY <1>12, <1>16
  <2>3. h.count + SampleCount(PulseTime) <= 2 * h.alloc_len
    BY <1>0, <1>11, <1>16, ShortFits
  <2> QED BY <2>1, <2>2, <2>3
<1>18. Followed(g, b, k, t, h)
  BY <1>7, <1>9, <1>10, <1>11, <1>14, <1>16, <1>17, <1>0 DEF Followed
<1>19. PICK n : Turn(g, b, n, Completes(g, t)) /\ Leaves(g, t, h, n)
  BY <1>18, TurnLeaves, Zenon
<1>20. /\ n.logic = TRUE /\ n.curr_state = "bit_pulse" /\ n.num_bits = g.num_bits + 1
       /\ n.runs = Append(h.runs, [value |-> n.logic, length |-> SampleCount(PulseTime)])
       /\ n.count = h.count + SampleCount(PulseTime)
  BY <1>8, <1>9, <1>17, <1>19, <1>0 DEF Leaves
<1>21. /\ n.runs = Append(Append(g.runs, [value |-> FALSE, length |-> SampleCount(d)]),
                          [value |-> TRUE, length |-> SampleCount(PulseTime)])
       /\ n.count = g.count + SampleCount(d) + SampleCount(PulseTime)
  BY <1>16, <1>20
<1>22. Turn(g, b, n, TRUE) /\ HasRoom(n)
  BY <1>9, <1>19, Zenon DEF Leaves
<1>23. GapWritten(g, d, n)
  BY <1>20, <1>21, <1>22, Zenon DEF GapWritten
<1> QED BY <1>22, <1>23

\* The runs of a pulse of the bits, and of a gap of d ticks.
High == [value |-> TRUE, length |-> SampleCount(PulseTime)]
Low(d) == [value |-> FALSE, length |-> SampleCount(d)]

\* The runs r are the signal of the first k bits of message m.
SignalOf(r, m, k) ==
    /\ Len(r) = 3 + 2 * k
    /\ r[1] = High /\ r[2] = Low(PauseTime) /\ r[3] = High
    /\ \A x \in 1 .. k : r[2 + 2 * x] = Low(GapTime(m[x])) /\ r[3 + 2 * x] = High

\* Before the first pulse of the bits, a run has been written for each state
\* that was entered.
LeadInv ==
    /\ bit = 0 /\ num_bits = 0
    /\ \/ curr_state \in {"reset", "idle"} /\ runs = <<>> /\ ~logic /\ count = 0
       \/ /\ curr_state = "initial_bit_pulse" /\ Len(runs) = 1 /\ runs[1] = High /\ logic
          /\ count = SampleCount(PulseTime)
       \/ /\ curr_state = "initial_off_time" /\ Len(runs) = 2 /\ ~logic
          /\ runs[1] = High /\ runs[2] = Low(PauseTime)
          /\ count = SampleCount(PulseTime) + SampleCount(PauseTime)

\* Then as many bits as are counted.
BodyInv ==
    /\ bit = num_bits
    /\ \/ curr_state = "bit_pulse" /\ logic
       \/ curr_state = "bit_off_time" /\ ~logic /\ num_bits < MaxBits
    /\ SignalOf(runs, message, num_bits)
    /\ count <= LeadSamples + num_bits * BitSamples

SignalInv ==
    /\ message \in [1 .. MaxBits -> BOOLEAN]
    /\ \/ pc = "generate" /\ (LeadInv \/ BodyInv)
       \/ pc = "done" /\ SignalOf(runs, message, MaxBits)

\* A message with k bits leaves room for as many samples again.
LEMMA RoomFor ==
    ASSUME MessageFits, NEW k \in 0 .. MaxBits
    PROVE  /\ LeadSamples \in Nat /\ BitSamples \in Nat /\ k * BitSamples \in Nat
           /\ (k + 1) * BitSamples = k * BitSamples + BitSamples
           /\ 2 * (LeadSamples + k * BitSamples) <= UintMax
<1>1. LeadSamples \in Nat
  BY LineTypes DEF LeadSamples
<1>2. PICK w \in Nat : w = BitSamples
  <2>1. PICK x \in Nat : x = SampleCount(GapTime(TRUE))
    BY LineTypes, Zenon
  <2>2. PICK y \in Nat : y = SampleCount(PulseTime)
    BY LineTypes
  <2>3. BitSamples = x + y
    BY <2>1, <2>2, Zenon DEF BitSamples
  <2>4. x + y \in Nat
    OBVIOUS
  <2> QED BY <2>3, <2>4
<1>3. MaxBits \in Nat /\ k \in Nat /\ k <= MaxBits /\ UintMax \in Nat
  BY DeviceAssumption, AllocAssumption
<1>4. k * w <= MaxBits * w /\ k * w \in Nat /\ (k + 1) * w = k * w + w
  BY <1>3, Multiply
<1>5. MaxBits * w \in Nat
  BY <1>3, Multiply
<1>6. 2 * (LeadSamples + MaxBits * w) <= UintMax
  BY <1>2 DEF MessageFits
<1> QED BY <1>1, <1>2, <1>3, <1>4, <1>5, <1>6

\* One more bit of the signal.
LEMMA SignalGrows ==
    ASSUME NEW r \in Seq([value : BOOLEAN, length : Nat]), NEW m, NEW k \in Nat,
           SignalOf(r, m, k), NEW b \in BOOLEAN, b = m[k + 1]
    PROVE  SignalOf(Append(Append(r, Low(GapTime(b))), High), m, k + 1)
<1> DEFINE E == [value : BOOLEAN, length : Nat]
<1>1. Low(GapTime(b)) \in E /\ High \in E
  BY LineTypes DEF Low, High
<1>0. r \in Seq(E)
  OBVIOUS
<1> HIDE DEF E
<1>2. PICK q \in Seq(E) : q = Append(r, Low(GapTime(b)))
  BY <1>0, <1>1, AppendProperties
<1>3. PICK s \in Seq(E) : s = Append(q, High)
  BY <1>1, AppendProperties
<1>4. Len(r) = 3 + 2 * k
  BY DEF SignalOf
<1>5. /\ Len(q) = 4 + 2 * k /\ q[4 + 2 * k] = Low(GapTime(b))
      /\ \A x \in 1 .. 3 + 2 * k : q[x] = r[x]
  BY <1>0, <1>1, <1>2, <1>4, AppendProperties
<1>6. /\ Len(s) = 5 + 2 * k /\ s[5 + 2 * k] = High /\ s[4 + 2 * k] = Low(GapTime(b))
      /\ \A x \in 1 .. 3 + 2 * k : s[x] = r[x]
  <2>1. /\ Len(s) = 5 + 2 * k /\ s[5 + 2 * k] = High
        /\ \A x \in 1 .. 4 + 2 * k : s[x] = q[x]
    BY <1>1, <1>3, <1>5, AppendProperties
  <2>2. /\ 4 + 2 * k \in 1 .. 4 + 2 * k
        /\ \A x \in 1 .. 3 + 2 * k : x \in 1 .. 4 + 2 * k
    OBVIOUS
  <2> QED BY <1>5, <2>1, <2>2
<1>7. s[1] = High /\ s[2] = Low(PauseTime) /\ s[3] = High
  <2>1. r[1] = High /\ r[2] = Low(PauseTime) /\ r[3] = High
    BY DEF SignalOf
  <2>2. 1 \in 1 .. 3 + 2 * k /\ 2 \in 1 .. 3 + 2 * k /\ 3 \in 1 .. 3 + 2 * k
    OBVIOUS
  <2>3. s[1] = r[1] /\ s[2] = r[2] /\ s[3] = r[3]
    BY <1>6, <2>2
  <2> QED BY <2>1, <2>3, Zenon
<1>8. ASSUME NEW x \in 1 .. k + 1
      PROVE  s[2 + 2 * x] = Low(GapTime(m[x])) /\ s[3 + 2 * x] = High
  <2>1. CASE x = k + 1
    BY <1>6, <2>1
  <2>2. CASE x # k + 1
    <3>1. x \in 1 .. k /\ 2 + 2 * x \in 1 .. 3 + 2 * k /\ 3 + 2 * x \in 1 .. 3 + 2 * k
      BY <2>2
    <3> QED BY <1>6, <3>1 DEF SignalOf
  <2> QED BY <2>1, <2>2
<1>9. Len(s) = 3 + 2 * (k + 1)
  BY <1>6
<1> QED BY <1>2, <1>3, <1>7, <1>8, <1>9 DEF SignalOf

LEMMA InitSignal == ShippedDevice /\ Init => SignalInv
BY DEF Init, StartsWith, SignalInv, LeadInv, ShippedDevice

\* What TurnLead says of a step, primes and all.
LEMMA LeadTurn ==
    ASSUME ShippedDevice, GenInv, HandleTx,
           curr_state \in {"reset", "idle", "initial_bit_pulse", "initial_off_time"},
           NEW t, t = Triggers[curr_state][1], ~Refused(CurrentGen, t),
           NEW held \in Nat, held = Duration[t.next_state],
           held # 0 => /\ count + SampleCount(held) <= 2 * alloc_len
                       /\ 2 * (count + SampleCount(held)) <= UintMax
    PROVE  /\ GenInv' /\ message' = message /\ bit' = bit /\ pc' = pc
           /\ curr_state' = t.next_state /\ num_bits' = num_bits
           /\ logic' = CASE t.condition = "pulse_start" -> TRUE
                         [] t.condition = "pulse_end"   -> FALSE
                         [] OTHER                       -> logic
           /\ runs' = IF held = 0 THEN runs
                      ELSE Append(runs, [value |-> logic', length |-> SampleCount(held)])
           /\ count' = IF held = 0 THEN count ELSE count + SampleCount(held)
<1>1. PICK g : g = CurrentGen
  OBVIOUS
<1>2. PICK b \in BOOLEAN : b = BitValue
  BY DEF BitValue
<1>3. /\ g.curr_state = curr_state /\ g.num_bits = num_bits /\ g.logic = logic
      /\ g.runs = runs /\ g.count = count /\ g.alloc_len = alloc_len
  BY <1>1 DEF CurrentGen
<1>4. HasRoom(g) /\ ~Refused(g, t)
  BY <1>1 DEF GenInv
<1>5. ~CountsBit(g, t) /\ \E n : Turn(g, b, n, FALSE) /\ Leaves(g, t, g, n)
  <2>1. /\ g.curr_state \in {"reset", "idle", "initial_bit_pulse", "initial_off_time"}
        /\ t = Triggers[g.curr_state][1]
    BY <1>3
  <2>2. Duration[t.next_state] # 0 =>
            /\ g.count + SampleCount(Duration[t.next_state]) <= 2 * g.alloc_len
            /\ 2 * (g.count + SampleCount(Duration[t.next_state])) <= UintMax
    BY <1>3
  <2> QED BY <1>4, <2>1, <2>2, TurnLead, Zenon
<1> PICK n : Turn(g, b, n, FALSE) /\ Leaves(g, t, g, n)
  BY <1>5
<1>6. Turn(CurrentGen, BitValue, n, FALSE)
  BY <1>1, <1>2, Zenon
<1>7. SetGen(n) /\ message' = message /\ bit' = bit /\ pc' = pc
  BY <1>6, TurnTaken
<1>8. GenInv'
  BY <1>7, RoomIsKept DEF Leaves
<1> QED BY <1>3, <1>5, <1>7, <1>8 DEF SetGen, Leaves

\* The runs after another one.
LEMMA RunAppended ==
    ASSUME NEW r, r \in Seq([value : BOOLEAN, length : Nat]), NEW q,
           NEW e, e \in [value : BOOLEAN, length : Nat], q = Append(r, e),
           NEW k \in Nat, Len(r) = k
    PROVE  Len(q) = k + 1 /\ q[k + 1] = e /\ \A x \in 1 .. k : q[x] = r[x]
<1> DEFINE E == [value : BOOLEAN, length : Nat]
<1>1. r \in Seq(E) /\ e \in E
  OBVIOUS
<1> HIDE DEF E
<1> QED BY <1>1, AppendProperties

LEMMA LeadStep ==
    ASSUME ShippedDevice, RateFits, MessageFits, GenInv, HandleTx,
           message \in [1 .. MaxBits -> BOOLEAN], pc = "generate", LeadInv
    PROVE  GenInv' /\ SignalInv'
<1>0. /\ runs \in Seq([value : BOOLEAN, length : Nat])
      /\ High \in [value : BOOLEAN, length : Nat]
      /\ Low(PauseTime) \in [value : BOOLEAN, length : Nat]
  BY LineTypes DEF GenInv, HasRoom, Gen, CurrentGen, High, Low
<1>1. /\ SampleCount(PulseTime) \in Nat /\ SampleCount(PauseTime) \in Nat
      /\ PulseTime \in Nat \ {0} /\ PauseTime \in Nat \ {0}
      /\ 2 * LeadSamples <= UintMax /\ UintMax \in Nat
      /\ LeadSamples = 2 * SampleCount(PulseTime) + SampleCount(PauseTime)
      /\ BitSamples \in Nat /\ LeadSamples \in Nat
  <2>1. 0 \in 0 .. MaxBits /\ UintMax \in Nat
    BY DeviceAssumption, AllocAssumption
  <2>2. /\ LeadSamples \in Nat /\ BitSamples \in Nat
        /\ 2 * (LeadSamples + 0 * BitSamples) <= UintMax
    BY <2>1, RoomFor
  <2>3. 2 * LeadSamples <= UintMax
    BY <2>2
  <2> QED BY <2>1, <2>2, <2>3, LineTypes DEF LeadSamples
<1>a. /\ SampleCount(PulseTime) <= InitialAlloc
      /\ SampleCount(PulseTime) + SampleCount(PauseTime) <= 2 * InitialAlloc
      /\ InitialAlloc \in Nat /\ alloc_len \in Nat /\ count \in Nat
      /\ InitialAlloc <= alloc_len /\ count <= alloc_len
  BY AllocAssumption DEF RateFits, GenInv, HasRoom, Gen, CurrentGen
<1>b. /\ 2 * (SampleCount(PulseTime) + SampleCount(PauseTime)) <= UintMax
      /\ SampleCount(PulseTime) + SampleCount(PauseTime) <= 2 * alloc_len
      /\ 2 * (SampleCount(PulseTime) + SampleCount(PauseTime) + SampleCount(PulseTime)) <= UintMax
      /\ count + SampleCount(PulseTime) <= 2 * alloc_len
  <2>1. PICK p \in Nat, q \in Nat : p = SampleCount(PulseTime) /\ q = SampleCount(PauseTime)
    BY <1>1
  <2>2. 2 * (2 * p + q) <= UintMax /\ p <= InitialAlloc /\ p + q <= 2 * InitialAlloc
    BY <1>1, <1>a, <2>1, Zenon
  <2>3. /\ 2 * (p + q) <= UintMax /\ p + q <= 2 * alloc_len
        /\ 2 * (p + q + p) <= UintMax /\ count + p <= 2 * alloc_len
    BY <1>1, <1>a, <2>2
  <2> QED BY <2>1, <2>3, Zenon
<1>2. bit = 0 /\ num_bits = 0
  BY DEF LeadInv
<1>3. CASE curr_state = "reset"
  <2>1. PICK t : t = Triggers["reset"][1]
    OBVIOUS
  <2>2. t.condition = "always" /\ t.next_state = "idle"
    BY <2>1, ShippedStates DEF On
  <2>3. ~Refused(CurrentGen, t)
    BY <2>2 DEF Refused
  <2>4. Duration[t.next_state] = 0
    BY <2>2, ShippedTimes
  <2>5. runs = <<>> /\ ~logic /\ count = 0
    BY <1>3 DEF LeadInv
  <2>6. /\ GenInv' /\ message' = message /\ bit' = bit /\ pc' = pc
        /\ curr_state' = "idle" /\ num_bits' = num_bits /\ logic' = logic
        /\ runs' = runs /\ count' = count
    BY <1>3, <2>1, <2>2, <2>3, <2>4, LeadTurn
  <2> QED BY <1>2, <2>5, <2>6 DEF SignalInv, LeadInv
<1>4. CASE curr_state = "idle"
  <2>1. PICK t : t = Triggers["idle"][1]
    OBVIOUS
  <2>2. t.condition = "pulse_start" /\ t.next_state = "initial_bit_pulse"
    BY <2>1, ShippedStates DEF On
  <2>3. runs = <<>> /\ ~logic /\ count = 0
    BY <1>4 DEF LeadInv
  <2>4. ~Refused(CurrentGen, t)
    BY <2>2, <2>3 DEF Refused, CurrentGen
  <2>5. PulseTime = Duration[t.next_state]
    BY <2>2, ShippedTimes
  <2>6. /\ 2 * (count + SampleCount(PulseTime)) <= UintMax
        /\ count + SampleCount(PulseTime) <= 2 * alloc_len
    BY <1>1, <1>a, <2>3
  <2>7. /\ GenInv' /\ message' = message /\ bit' = bit /\ pc' = pc
        /\ curr_state' = "initial_bit_pulse" /\ num_bits' = num_bits /\ logic' = TRUE
        /\ runs' = Append(runs, [value |-> logic', length |-> SampleCount(PulseTime)])
        /\ count' = count + SampleCount(PulseTime)
    BY <1>1, <1>4, <2>1, <2>2, <2>4, <2>5, <2>6, LeadTurn
  <2>8. Len(runs') = 1 /\ runs'[1] = High /\ count' = SampleCount(PulseTime)
    <3>0. [value |-> logic', length |-> SampleCount(PulseTime)] = High
      BY <2>7 DEF High
    <3>1. runs' = Append(runs, High)
      BY <2>7, <3>0, Zenon
    <3>2. count' = SampleCount(PulseTime)
      BY <1>1, <2>3, <2>7
    <3> QED BY <1>0, <2>3, <3>1, <3>2, AppendProperties
  <2> QED BY <1>2, <2>7, <2>8 DEF SignalInv, LeadInv
<1>5. CASE curr_state = "initial_bit_pulse"
  <2>1. PICK t : t = Triggers["initial_bit_pulse"][1]
    OBVIOUS
  <2>2. t.condition = "pulse_end" /\ t.next_state = "initial_off_time"
    BY <2>1, ShippedStates DEF On
  <2>3. Len(runs) = 1 /\ runs[1] = High /\ logic /\ count = SampleCount(PulseTime)
    BY <1>5 DEF LeadInv
  <2>4. ~Refused(CurrentGen, t)
    BY <2>2, <2>3 DEF Refused, CurrentGen
  <2>5. PauseTime = Duration[t.next_state]
    BY <2>2, ShippedTimes
  <2>6. /\ 2 * (count + SampleCount(PauseTime)) <= UintMax
        /\ count + SampleCount(PauseTime) <= 2 * alloc_len
    BY <1>b, <2>3, Zenon
  <2>7. /\ GenInv' /\ message' = message /\ bit' = bit /\ pc' = pc
        /\ curr_state' = "initial_off_time" /\ num_bits' = num_bits /\ logic' = FALSE
        /\ runs' = Append(runs, [value |-> logic', length |-> SampleCount(PauseTime)])
        /\ count' = count + SampleCount(PauseTime)
    BY <1>1, <1>5, <2>1, <2>2, <2>4, <2>5, <2>6, LeadTurn
  <2>8. /\ Len(runs') = 2 /\ runs'[1] = High /\ runs'[2] = Low(PauseTime)
        /\ count' = SampleCount(PulseTime) + SampleCount(PauseTime)
    <3>0. [value |-> logic', length |-> SampleCount(PauseTime)] = Low(PauseTime)
      BY <2>7 DEF Low
    <3>1. runs' = Append(runs, Low(PauseTime))
      BY <2>7, <3>0, Zenon
    <3>2. count' = SampleCount(PulseTime) + SampleCount(PauseTime)
      BY <1>1, <2>3, <2>7
    <3>3. /\ Len(runs') = 2 /\ runs'[2] = Low(PauseTime)
          /\ \A x \in 1 .. 1 : runs'[x] = runs[x]
      <4>1. PICK k \in Nat : k = 1
        OBVIOUS
      <4>2. Len(runs) = k
        BY <2>3, <4>1
      <4>3. Len(runs') = k + 1 /\ runs'[k + 1] = Low(PauseTime) /\ \A x \in 1 .. k : runs'[x] = runs[x]
        BY <1>0, <3>1, <4>2, RunAppended
      <4> QED BY <4>1, <4>3
    <3>4. 1 \in 1 .. 1
      OBVIOUS
    <3> QED BY <2>3, <3>2, <3>3, <3>4
  <2> QED BY <1>2, <2>7, <2>8 DEF SignalInv, LeadInv
<1>6. CASE curr_state = "initial_off_time"
  <2>1. PICK t : t = Triggers["initial_off_time"][1]
    OBVIOUS
  <2>2. t.condition = "pulse_start" /\ t.next_state = "bit_pulse"
    BY <2>1, ShippedStates DEF On
  <2>3. /\ Len(runs) = 2 /\ runs[1] = High /\ runs[2] = Low(PauseTime) /\ ~logic
        /\ count = SampleCount(PulseTime) + SampleCount(PauseTime)
    BY <1>6 DEF LeadInv
  <2>4. ~Refused(CurrentGen, t)
    BY <2>2, <2>3 DEF Refused, CurrentGen
  <2>5. PulseTime = Duration[t.next_state]
    BY <2>2, ShippedTimes
  <2>6. /\ 2 * (count + SampleCount(PulseTime)) <= UintMax
        /\ count + SampleCount(PulseTime) <= 2 * alloc_len
    BY <1>b, <2>3, Zenon
  <2>7. /\ GenInv' /\ message' = message /\ bit' = bit /\ pc' = pc
        /\ curr_state' = "bit_pulse" /\ num_bits' = num_bits /\ logic' = TRUE
        /\ runs' = Append(runs, [value |-> logic', length |-> SampleCount(PulseTime)])
        /\ count' = count + SampleCount(PulseTime)
    BY <1>1, <1>6, <2>1, <2>2, <2>4, <2>5, <2>6, LeadTurn
  <2>8. SignalOf(runs', message, 0)
    <3>0. [value |-> logic', length |-> SampleCount(PulseTime)] = High
      BY <2>7 DEF High
    <3>1. runs' = Append(runs, High)
      BY <2>7, <3>0, Zenon
    <3>2. Len(runs') = 3 /\ runs'[1] = High /\ runs'[2] = Low(PauseTime) /\ runs'[3] = High
      <4>1. /\ Len(runs') = 3 /\ runs'[3] = High
            /\ \A x \in 1 .. 2 : runs'[x] = runs[x]
        <5>1. PICK k \in Nat : k = 2
          OBVIOUS
        <5>2. Len(runs) = k
          BY <2>3, <5>1
        <5>3. Len(runs') = k + 1 /\ runs'[k + 1] = High /\ \A x \in 1 .. k : runs'[x] = runs[x]
          BY <1>0, <3>1, <5>2, RunAppended
        <5> QED BY <5>1, <5>3
      <4>2. 1 \in 1 .. 2 /\ 2 \in 1 .. 2
        OBVIOUS
      <4> QED BY <2>3, <4>1, <4>2
    <3> QED BY <3>2 DEF SignalOf
  <2>9. SignalOf(runs, message, num_bits)'
    <3>1. message' = message /\ num_bits' = 0
      BY <1>2, <2>7
    <3>2. SignalOf(runs', message', num_bits')
      BY <2>8, <3>1, Zenon
    <3> QED BY <3>2 DEF SignalOf, High, Low
  <2>10. count' <= LeadSamples + num_bits' * BitSamples
    <3>1. count' = LeadSamples /\ num_bits' = 0
      BY <1>1, <1>2, <2>3, <2>7
    <3>2. LeadSamples <= LeadSamples + 0 * BitSamples
      BY <1>1
    <3> QED BY <3>1, <3>2
  <2> QED BY <1>2, <2>7, <2>9, <2>10 DEF SignalInv, BodyInv, SignalOf, High, Low
<1> QED BY <1>3, <1>4, <1>5, <1>6 DEF LeadInv

LEMMA BodyStep ==
    ASSUME ShippedDevice, RateFits, MessageFits, GenInv, HandleTx,
           message \in [1 .. MaxBits -> BOOLEAN], pc = "generate", BodyInv
    PROVE  GenInv' /\ SignalInv'
<1>1. PICK g : g = CurrentGen
  OBVIOUS
<1>2. PICK b \in BOOLEAN : b = BitValue
  BY DEF BitValue
<1>3. /\ g.curr_state = curr_state /\ g.num_bits = num_bits /\ g.logic = logic
      /\ g.runs = runs /\ g.count = count /\ HasRoom(g)
  BY <1>1 DEF CurrentGen, GenInv
<1>4. PICK k \in 0 .. MaxBits : k = num_bits /\ k = bit
  BY <1>3 DEF BodyInv, HasRoom, Gen
<1>5. PICK m : m = message
  OBVIOUS
<1>6. PICK r \in Seq([value : BOOLEAN, length : Nat]) : r = runs
  BY <1>3 DEF HasRoom, Gen
<1>7. SignalOf(r, m, k) /\ MaxBits \in Nat
  <2>1. SignalOf(runs, message, num_bits)
    BY DEF BodyInv
  <2> QED BY <1>4, <1>5, <1>6, <2>1, Zenon, DeviceAssumption
<1>8. PICK c \in Nat : c = count
  BY <1>3 DEF HasRoom, Gen
<1>9. c <= LeadSamples + k * BitSamples
  BY <1>4, <1>8 DEF BodyInv
<1>10. CASE curr_state = "bit_pulse" /\ k < MaxBits
  <2>1. logic
    BY <1>10 DEF BodyInv
  <2>a. HasRoom(g) /\ g.curr_state = "bit_pulse" /\ g.logic /\ g.num_bits < MaxBits
    BY <1>3, <1>4, <1>10, <2>1
  <2>2. PICK n :
            /\ Turn(g, b, n, FALSE)
            /\ HasRoom(n)
            /\ n.curr_state = "bit_off_time" /\ n.num_bits = g.num_bits /\ ~n.logic
            /\ n.runs = g.runs /\ n.count = g.count
    BY <2>a, TurnPulse, Zenon
  <2>3. Turn(CurrentGen, BitValue, n, FALSE)
    BY <1>1, <1>2, <2>2, Zenon
  <2>4. /\ GenInv' /\ message' = message /\ bit' = bit /\ pc' = pc
        /\ curr_state' = "bit_off_time" /\ num_bits' = num_bits /\ ~logic'
        /\ runs' = runs /\ count' = count
    <3>1. SetGen(n) /\ message' = message /\ bit' = bit /\ pc' = pc
      BY <2>3, TurnTaken
    <3>2. logic' = n.logic
      BY <3>1 DEF SetGen
    <3>3. ~logic'
      BY <2>2, <3>2, Zenon
    <3>4. GenInv'
      BY <2>2, <3>1, RoomIsKept
    <3> QED BY <1>3, <2>2, <3>1, <3>3, <3>4 DEF SetGen
  <2> QED BY <1>4, <1>10, <2>4 DEF SignalInv, BodyInv, SignalOf, High, Low
<1>11. CASE curr_state = "bit_pulse" /\ k = MaxBits
  <2>1. PICK n : Turn(g, b, n, TRUE) /\ HasRoom(n) /\ n.runs = g.runs
    BY <1>3, <1>4, <1>11, TurnLast
  <2>2. Turn(CurrentGen, BitValue, n, TRUE)
    BY <1>1, <1>2, <2>1, Zenon
  <2>3. GenInv' /\ message' = message /\ pc' = "done" /\ runs' = runs
    <3>1. SetGen(n) /\ message' = message /\ pc' = "done"
      BY <1>4, <1>11, <2>2, TurnTaken
    <3> QED BY <1>3, <2>1, <3>1, RoomIsKept DEF SetGen
  <2>4. SignalOf(runs', message', MaxBits)
    BY <1>5, <1>6, <1>7, <1>11, <2>3, Zenon
  <2>5. message' \in [1 .. MaxBits -> BOOLEAN]
    BY <2>3
  <2> QED BY <2>3, <2>4, <2>5 DEF SignalInv, SignalOf, High, Low
<1>12. CASE curr_state = "bit_off_time"
  <2>1. ~logic /\ k < MaxBits
    BY <1>4, <1>12 DEF BodyInv
  <2>2. b = m[k + 1]
    <3>1. bit < MaxBits /\ bit = k
      BY <1>4, <2>1
    <3>2. k + 1 \in 1 .. MaxBits
      BY <1>7, <2>1
    <3>3. message[k + 1] \in BOOLEAN
      BY <3>2
    <3>4. BitValue = message[k + 1]
      BY <3>1, <3>3, Zenon DEF BitValue
    <3> QED BY <1>2, <1>5, <3>4, Zenon
  <2>3. /\ SampleCount(GapTime(b)) \in Nat /\ SampleCount(PulseTime) \in Nat
        /\ SampleCount(GapTime(b)) + SampleCount(PulseTime) <= BitSamples
        /\ BitSamples \in Nat
    <3>1. b = TRUE \/ b = FALSE
      OBVIOUS
    <3>2. SampleCount(GapTime(b)) = SampleCount(GapTime(TRUE))
              \/ SampleCount(GapTime(b)) = SampleCount(GapTime(FALSE))
      BY <3>1, Zenon
    <3>3. PICK x \in Nat, y \in Nat, z \in Nat :
              /\ x = SampleCount(GapTime(TRUE)) /\ y = SampleCount(GapTime(FALSE))
              /\ z = SampleCount(PulseTime) /\ y <= x
      BY LineTypes, Zenon
    <3>4. BitSamples = x + z
      BY <3>3, Zenon DEF BitSamples
    <3>5. PICK w : w = SampleCount(GapTime(b))
      OBVIOUS
    <3>6. w = x \/ w = y
      BY <3>2, <3>3, <3>5, Zenon
    <3>7. w \in Nat /\ w + z <= x + z /\ x + z \in Nat
      <4>1. x \in Nat /\ y \in Nat /\ y <= x
        BY <3>3, Zenon
      <4>2. x <= x
        BY <4>1
      <4>3. w \in Nat /\ w <= x
        BY <3>6, <4>1, <4>2, Zenon
      <4> QED BY <4>1, <4>3
    <3> QED BY <3>3, <3>4, <3>5, <3>7, Zenon
  <2>4. PICK w \in Nat : w = SampleCount(GapTime(b))
    BY <2>3
  <2>5. PICK z \in Nat : z = SampleCount(PulseTime)
    BY <2>3
  <2>6. c + w + z <= LeadSamples + (k + 1) * BitSamples /\ 2 * (c + w + z) <= UintMax
    <3>1. k + 1 \in 0 .. MaxBits
      BY <1>7, <2>1
    <3>2. /\ LeadSamples \in Nat /\ k * BitSamples \in Nat
          /\ (k + 1) * BitSamples = k * BitSamples + BitSamples
      BY RoomFor
    <3>3. 2 * (LeadSamples + (k + 1) * BitSamples) <= UintMax
      BY <3>1, RoomFor
    <3>4. PICK x \in Nat, y \in Nat, v \in Nat : x = k * BitSamples /\ y = BitSamples /\ v = LeadSamples
      BY <2>3, <3>2
    <3>5. (k + 1) * BitSamples = x + y
      BY <3>2, <3>4
    <3>6. c <= v + x /\ w + z <= y /\ 2 * (v + (x + y)) <= UintMax /\ UintMax \in Nat
      BY <1>9, <2>3, <2>4, <2>5, <3>3, <3>4, <3>5, AllocAssumption
    <3>7. c + w + z <= v + (x + y) /\ 2 * (c + w + z) <= UintMax
      BY <3>6
    <3> QED BY <3>4, <3>5, <3>7
  <2>7. PICK n :
            /\ Turn(g, b, n, TRUE)
            /\ HasRoom(n)
            /\ n.curr_state = "bit_pulse" /\ n.num_bits = g.num_bits + 1 /\ n.logic
            /\ n.runs = Append(Append(g.runs, [value |-> FALSE, length |-> SampleCount(GapTime(b))]),
                               [value |-> TRUE, length |-> SampleCount(PulseTime)])
            /\ n.count = g.count + SampleCount(GapTime(b)) + SampleCount(PulseTime)
    <3>1. HasRoom(g) /\ ~g.logic /\ g.num_bits < MaxBits /\ g.curr_state = "bit_off_time"
      BY <1>3, <1>4, <1>12, <2>1
    <3>2. 2 * (g.count + SampleCount(GapTime(b)) + SampleCount(PulseTime)) <= UintMax
      BY <1>3, <1>8, <2>4, <2>5, <2>6, Zenon
    <3>3. PICK d : d = GapTime(b)
      OBVIOUS
    <3>4. 2 * (g.count + SampleCount(d) + SampleCount(PulseTime)) <= UintMax
      BY <3>2, <3>3, Zenon
    <3>5. PICK n : Turn(g, b, n, TRUE) /\ GapWritten(g, d, n)
      BY <3>1, <3>3, <3>4, TurnGap, Zenon
    <3>6. /\ Turn(g, b, n, TRUE)
          /\ HasRoom(n)
          /\ n.curr_state = "bit_pulse" /\ n.num_bits = g.num_bits + 1 /\ n.logic
          /\ n.runs = Append(Append(g.runs, [value |-> FALSE, length |-> SampleCount(GapTime(b))]),
                             [value |-> TRUE, length |-> SampleCount(PulseTime)])
          /\ n.count = g.count + SampleCount(GapTime(b)) + SampleCount(PulseTime)
      BY <3>3, <3>5, Zenon DEF GapWritten
    <3> QED BY <3>6
  <2>8. Turn(CurrentGen, BitValue, n, TRUE)
    BY <1>1, <1>2, <2>7, Zenon
  <2>9. /\ GenInv' /\ message' = message /\ bit' = bit + 1 /\ pc' = "generate"
        /\ curr_state' = "bit_pulse" /\ num_bits' = num_bits + 1 /\ logic'
        /\ runs' = n.runs /\ count' = count + w + z
    <3>1. SetGen(n) /\ message' = message
      BY <2>8, TurnTaken
    <3>2. bit' = bit + 1 /\ pc' = IF bit = MaxBits THEN "done" ELSE "generate"
      BY <2>8, TurnTaken, Zenon
    <3>3. bit # MaxBits
      BY <1>4, <1>7, <2>1
    <3>4. logic' = n.logic
      BY <3>1 DEF SetGen
    <3>5. logic'
      BY <2>7, <3>4, Zenon
    <3>6. count' = count + w + z
      <4>1. count' = n.count
        BY <3>1 DEF SetGen
      <4> QED BY <1>3, <2>4, <2>5, <2>7, <4>1, Zenon
    <3>7. num_bits' = num_bits + 1
      <4>1. num_bits' = n.num_bits
        BY <3>1 DEF SetGen
      <4> QED BY <1>3, <2>7, <4>1, Zenon
    <3>8. curr_state' = "bit_pulse" /\ runs' = n.runs
      BY <2>7, <3>1, Zenon DEF SetGen
    <3>9. GenInv'
      BY <2>7, <3>1, RoomIsKept
    <3> QED BY <3>1, <3>2, <3>3, <3>5, <3>6, <3>7, <3>8, <3>9
  <2>10. SignalOf(runs', message', num_bits')
    <3>2. runs' = Append(Append(r, Low(GapTime(b))), High)
      <4>1. n.runs = Append(Append(g.runs, [value |-> FALSE, length |-> SampleCount(GapTime(b))]),
                           [value |-> TRUE, length |-> SampleCount(PulseTime)])
        BY <2>7
      <4>2. n.runs = Append(Append(g.runs, Low(GapTime(b))), High)
        BY <4>1, Zenon DEF Low, High
      <4>3. g.runs = r /\ runs' = n.runs
        BY <1>3, <1>6, <2>9
      <4> QED BY <4>2, <4>3, Zenon
    <3>3. SignalOf(Append(Append(r, Low(GapTime(b))), High), m, k + 1)
      <4>1. k \in Nat
        BY <1>4
      <4> QED BY <1>7, <2>2, <4>1, SignalGrows
    <3> QED BY <1>4, <1>5, <2>9, <3>2, <3>3, Zenon
  <2>11. bit' = num_bits' /\ num_bits' = k + 1 /\ count' = c + w + z
    BY <1>4, <1>8, <2>9
  <2>12. count' <= LeadSamples + num_bits' * BitSamples
    BY <2>6, <2>11
  <2>13. message' \in [1 .. MaxBits -> BOOLEAN]
    BY <2>9
  <2>14. BodyInv'
    BY <2>9, <2>10, <2>11, <2>12 DEF BodyInv, SignalOf, High, Low
  <2> QED BY <2>9, <2>13, <2>14 DEF SignalInv
<1>13. k < MaxBits \/ k = MaxBits
  BY <1>4, <1>7
<1>14. curr_state \in {"bit_pulse", "bit_off_time"}
  BY DEF BodyInv
<1> QED BY <1>10, <1>11, <1>12, <1>13, <1>14, Zenon

LEMMA NextSignal ==
    ASSUME ShippedDevice, RateFits, MessageFits, GenInv, SignalInv, [HandleTx]_txVars
    PROVE  GenInv' /\ SignalInv'
<1>1. CASE UNCHANGED txVars
  BY <1>1 DEF txVars, genVars, GenInv, CurrentGen, SignalInv, LeadInv, BodyInv, SignalOf, High, Low
<1>2. CASE HandleTx
  <2>1. pc = "generate"
    BY <1>2 DEF HandleTx
  <2> QED BY <1>2, <2>1, LeadStep, BodyStep DEF SignalInv
<1> QED BY <1>1, <1>2

\* The signal of the shipped device: the lead pulse and its pause, the pulse
\* that starts the bits, and a gap of the right length and a pulse for each of
\* them (generate() of state_machine.c).
THEOREM SignalIsMessage ==
    ASSUME ShippedDevice, RateFits, MessageFits
    PROVE  Spec => [](pc = "done" => SignalOf(runs, message, MaxBits))
<1>1. GenInv /\ SignalInv /\ [HandleTx]_txVars => (GenInv /\ SignalInv)'
  BY NextSignal
<1>2. SignalInv => (pc = "done" => SignalOf(runs, message, MaxBits))
  BY DEF SignalInv
<1>3. Init => GenInv /\ SignalInv
  BY InitGen, InitSignal
<1> QED BY <1>1, <1>2, <1>3, PTL DEF Spec

\* The pause after the first pulse need not fit in the array as it was
\* allocated: with the shipped device the samples stay within it at every rate
\* at which the first pulse and the pause fit in twice the array, as at the
\* default rate (append_samples(), state_machine.c:587-612).
THEOREM ShippedStaysWithinAllocation ==
    ASSUME ShippedDevice, RateFits, MessageFits
    PROVE  RTSpec => []WithinAllocation
<1>1. GenInv /\ SignalInv /\ [HandleTx]_txVars => (GenInv /\ SignalInv)'
  BY NextSignal
<1>2. GenInv => WithinAllocation
  BY DEF GenInv, HasRoom, CurrentGen, WithinAllocation
<1>3. Init => GenInv /\ SignalInv
  BY InitGen, InitSignal
<1> QED BY <1>1, <1>2, <1>3, GeneratesAlone, PTL DEF Spec
-----------------------------------------------------------------------------
(* The shipped device: what the receiver makes of the signal.              *)

Rec == [curr_state : States, num_bits : Nat, data : SUBSET Nat,
        prev_bit : BOOLEAN, elapsed_us : Nat]

Pulsing == {"initial_bit_pulse", "bit_pulse"}
Listening == Pulsing \cup {"initial_off_time", "bit_off_time"}

\* The data buffer after the first k bits of message w.
Bits(w, k) == {x \in 0 .. k - 1 : w[x + 1]}

\* Machine m is in state s with the first k bits of w, on the level of that state.
Hears(w, m, s, k) ==
    /\ m \in Rec /\ m.curr_state = s /\ m.num_bits = k /\ m.data = Bits(w, k)
    /\ m.prev_bit <=> s \in Pulsing

\* Between two messages.
Resting(m) ==
    /\ m \in Rec
    /\ \/ m.curr_state = "idle" /\ m.num_bits = 0 /\ m.data = {}
       \/ m.curr_state = "reset" /\ m.data \subseteq BufferBits

\* No trigger is satisfied: the machine waits.
LEMMA Waits ==
    ASSUME NEW m \in Rec, NEW b \in BOOLEAN, m.curr_state # Reset, Satisfied(m, b) = {}
    PROVE  /\ Process(m, b).result = "no_output"
           /\ Process(m, b).sm = [m EXCEPT !.prev_bit = b,
                                           !.elapsed_us = IF @ + SampleUs > ElapsedCap
                                                          THEN ElapsedCap ELSE @ + SampleUs]
<1>1. HandleRxTriggers(m, b) = Outcome(Wait(m), "no_output", <<>>)
  BY DEF HandleRxTriggers
<1>2. /\ Process(m, b).result = "no_output"
      /\ Process(m, b).sm = [Wait(m) EXCEPT !.prev_bit = b]
  BY <1>1 DEF Process, Outcome
<1> QED BY <1>2 DEF Wait, Rec

\* Trigger i, which is t, is the first one that is satisfied, and it may fire.
First(m, b, i, t) ==
    /\ i \in Satisfied(m, b) /\ Satisfied(m, b) \subseteq Nat
    /\ \A y \in Satisfied(m, b) : i <= y
    /\ t = Triggers[m.curr_state][i] /\ MatchesStateDuration(m, t)
    /\ m.curr_state # Reset

Follows(p, m, b, t) ==
    /\ p.result = IF t.action = "output_data" THEN "output_ready" ELSE "no_output"
    /\ p.sm = [Fire(m, t) EXCEPT !.prev_bit = b]

LEMMA Fires ==
    ASSUME NEW m \in Rec, NEW b \in BOOLEAN, NEW i, NEW t, First(m, b, i, t)
    PROVE  Follows(Process(m, b), m, b, t)
<1>1. Min(Satisfied(m, b)) = i
  BY MinIs DEF First
<1>2. ActiveTrigger(m, b) = t /\ Satisfied(m, b) # {} /\ MatchesStateDuration(m, t)
  BY <1>1 DEF ActiveTrigger, First
<1>3. HandleRxTriggers(m, b)
          = Outcome(Fire(m, t),
                    IF t.action = "output_data" THEN "output_ready" ELSE "no_output",
                    IF t.action \in AppendActions THEN <<t.action>> ELSE <<>>)
  BY <1>2 DEF HandleRxTriggers
<1>4. m.curr_state # Reset
  BY DEF First
<1> QED BY <1>3, <1>4 DEF Process, Outcome, Follows

\* What a trigger that has no action leaves.
Moves(p, m, b, t) ==
    /\ p.result = "no_output"
    /\ p.sm \in Rec /\ p.sm.curr_state = t.next_state /\ p.sm.elapsed_us = 0
    /\ p.sm.num_bits = m.num_bits /\ p.sm.data = m.data /\ p.sm.prev_bit = b

LEMMA Fired ==
    ASSUME NEW m \in Rec, NEW b \in BOOLEAN, NEW i, NEW t, First(m, b, i, t),
           t.next_state \in States, t.action = "none"
    PROVE  Moves(Process(m, b), m, b, t)
<1>1. /\ Process(m, b).result = "no_output"
      /\ Process(m, b).sm = [Fire(m, t) EXCEPT !.prev_bit = b]
  BY Fires DEF Follows
<1>2. Fire(m, t) = [m EXCEPT !.curr_state = t.next_state, !.elapsed_us = 0]
  BY DEF Fire, HandleActions, AppendActions
<1>3. PICK q : q = [[m EXCEPT !.curr_state = t.next_state, !.elapsed_us = 0] EXCEPT !.prev_bit = b]
  OBVIOUS
<1>4. /\ q \in Rec /\ q.curr_state = t.next_state /\ q.elapsed_us = 0
      /\ q.num_bits = m.num_bits /\ q.data = m.data /\ q.prev_bit = b
  BY <1>3 DEF Rec
<1>5. Process(m, b).result = "no_output" /\ Process(m, b).sm = q
  BY <1>1, <1>2, <1>3, Zenon
<1> QED BY <1>4, <1>5, Zenon DEF Moves

\* Times within the tolerance of a duration are counted, and well before the
\* time limit of the state.
LEMMA BeforeTimeout ==
    ASSUME ShippedDevice
    PROVE  /\ \A s \in Listening : s \in States /\ Timeout[s] \in Nat /\ Timeout[s] < ElapsedCap
           /\ 115 * PulseTime < 100 * Timeout["initial_bit_pulse"]
           /\ 115 * PauseTime < 100 * Timeout["initial_off_time"]
           /\ 115 * PulseTime < 100 * Timeout["bit_pulse"]
           /\ \A b \in BOOLEAN : 115 * GapTime(b) < 100 * Timeout["bit_off_time"]
<1>1. \A s \in Listening : s \in States /\ Timeout[s] \in Nat /\ Timeout[s] < ElapsedCap
  BY ShippedStates, DeviceAssumption, CapAssumption DEF Listening, Pulsing
<1>2. \A b \in BOOLEAN : GapTime(b) \in {Ticks(2000), Ticks(4000)}
  BY DEF GapTime
<1> QED BY <1>1, <1>2, ShippedTimes, TickAssumption DEF PulseTime, PauseTime, Ticks

\* A sample of the same level before the time limit is only counted, unless
\* the message is complete.
LEMMA SameLevelWaits ==
    ASSUME ShippedDevice, NEW w, NEW m \in Rec, NEW b \in BOOLEAN, b = m.prev_bit,
           m.curr_state \in Listening, m.elapsed_us < Timeout[m.curr_state],
           m.curr_state = "bit_pulse" => m.num_bits < MaxBits
    PROVE  Satisfied(m, b) = {} /\ m.curr_state # Reset
<1>1. m.curr_state # Reset
  BY DEF ShippedDevice, Listening, Pulsing
<1>2. /\ m.elapsed_us \in Nat /\ m.num_bits \in Nat /\ Timeout[m.curr_state] \in Nat
      /\ m.prev_bit \in BOOLEAN /\ MaxBits \in Nat
  BY BeforeTimeout, DeviceAssumption DEF Rec
<1>3. \A i \in DOMAIN Triggers[m.curr_state] :
          LET c == Triggers[m.curr_state][i].condition
          IN  \/ c \in {"pulse_start", "pulse_end", "timeout"}
              \/ c = "msg_complete" /\ m.curr_state = "bit_pulse"
  <2>1. m.curr_state \in {"initial_bit_pulse", "initial_off_time", "bit_pulse", "bit_off_time"}
    BY DEF Listening, Pulsing
  <2> QED BY <2>1, ShippedStates DEF On
<1>4. \A i \in DOMAIN Triggers[m.curr_state] : ~ConditionHolds(m, b, Triggers[m.curr_state][i])
  <2> SUFFICES ASSUME NEW i \in DOMAIN Triggers[m.curr_state], NEW t,
                      t = Triggers[m.curr_state][i]
               PROVE  ~ConditionHolds(m, b, t)
    OBVIOUS
  <2>1. \/ t.condition \in {"pulse_start", "pulse_end", "timeout"}
        \/ t.condition = "msg_complete" /\ m.curr_state = "bit_pulse"
    BY <1>3
  <2>2. ~(m.elapsed_us >= Timeout[m.curr_state])
    BY <1>2
  <2>3. m.curr_state = "bit_pulse" => ~(m.num_bits >= MaxBits)
    BY <1>2
  <2> QED BY <2>1, <2>2, <2>3 DEF ConditionHolds
<1>5. Satisfied(m, b) = {}
  BY <1>4 DEF Satisfied
<1> QED BY <1>1, <1>5

\* What process() returns when the machine has just gone to state s.
Arrives(w, p, s, k) == p.result = "no_output" /\ Hears(w, p.sm, s, k) /\ p.sm.elapsed_us = 0

LEMMA LeadPulseEnds ==
    ASSUME ShippedDevice, NEW w, NEW m, Hears(w, m, "initial_bit_pulse", 0),
           MatchesDuration(m.elapsed_us, PulseTime), NEW b \in BOOLEAN, ~b
    PROVE  Arrives(w, Process(m, b), "initial_off_time", 0)
<1>1. m \in Rec /\ m.curr_state = "initial_bit_pulse" /\ m.prev_bit
  BY DEF Hears, Pulsing
<1>2. PICK t : t = Triggers["initial_bit_pulse"][1]
  OBVIOUS
<1>3. t = On("pulse_end", 0, "none", "initial_off_time")
  BY <1>2, ShippedStates
<1>4. t.condition = "pulse_end" /\ t.duration_us = 0 /\ t.action = "none" /\ t.next_state = "initial_off_time"
  BY <1>3 DEF On
<1>5. DOMAIN Triggers[m.curr_state] = 1 .. 2 /\ m.curr_state # Reset
  BY <1>1, ShippedStates DEF ShippedDevice
<1>6. ConditionHolds(m, b, t) /\ MatchesDuration(m.elapsed_us, t.duration_us)
  BY <1>1, <1>4 DEF ConditionHolds, MatchesDuration
<1>7. /\ 1 \in Satisfied(m, b) /\ Satisfied(m, b) \subseteq Nat
      /\ \A y \in Satisfied(m, b) : 1 <= y
  BY <1>1, <1>2, <1>5, <1>6 DEF Satisfied
<1>8. MatchesStateDuration(m, t) /\ t = Triggers[m.curr_state][1]
  BY <1>1, <1>2, ShippedTimes DEF MatchesStateDuration
<1>9. First(m, b, 1, t)
  BY <1>5, <1>7, <1>8 DEF First
<1>10. t.next_state \in States
  BY <1>4, ShippedStates
<1>12. Moves(Process(m, b), m, b, t)
  BY <1>1, <1>4, <1>9, <1>10, Fired, Zenon
<1> QED BY <1>1, <1>4, <1>12 DEF Arrives, Moves, Hears, Pulsing

LEMMA PauseEnds ==
    ASSUME ShippedDevice, NEW w, NEW m, Hears(w, m, "initial_off_time", 0),
           MatchesDuration(m.elapsed_us, PauseTime), NEW b \in BOOLEAN, b
    PROVE  Arrives(w, Process(m, b), "bit_pulse", 0)
<1>1. m \in Rec /\ m.curr_state = "initial_off_time" /\ ~m.prev_bit
  BY DEF Hears, Pulsing
<1>2. PICK t : t = Triggers["initial_off_time"][1]
  OBVIOUS
<1>3. t = On("pulse_start", 0, "none", "bit_pulse")
  BY <1>2, ShippedStates
<1>4. t.condition = "pulse_start" /\ t.duration_us = 0 /\ t.action = "none" /\ t.next_state = "bit_pulse"
  BY <1>3 DEF On
<1>5. DOMAIN Triggers[m.curr_state] = 1 .. 2 /\ m.curr_state # Reset
  BY <1>1, ShippedStates DEF ShippedDevice
<1>6. ConditionHolds(m, b, t) /\ MatchesDuration(m.elapsed_us, t.duration_us)
  BY <1>1, <1>4 DEF ConditionHolds, MatchesDuration
<1>7. /\ 1 \in Satisfied(m, b) /\ Satisfied(m, b) \subseteq Nat
      /\ \A y \in Satisfied(m, b) : 1 <= y
  <2>1. 1 \in DOMAIN Triggers[m.curr_state] /\ t = Triggers[m.curr_state][1]
    BY <1>1, <1>2, <1>5
  <2>2. 1 \in Satisfied(m, b)
    BY <1>6, <2>1, Zenon DEF Satisfied
  <2>3. Satisfied(m, b) \subseteq 1 .. 2
    BY <1>5, Zenon DEF Satisfied
  <2>4. \A S : S \subseteq 1 .. 2 => S \subseteq Nat /\ \A y \in S : 1 <= y
    OBVIOUS
  <2> QED BY <2>2, <2>3, <2>4, Zenon
<1>8. MatchesStateDuration(m, t) /\ t = Triggers[m.curr_state][1]
  BY <1>1, <1>2, ShippedTimes DEF MatchesStateDuration
<1>9. First(m, b, 1, t)
  BY <1>5, <1>7, <1>8 DEF First
<1>10. t.next_state \in States
  BY <1>4, ShippedStates
<1>12. Moves(Process(m, b), m, b, t)
  BY <1>1, <1>4, <1>9, <1>10, Fired, Zenon
<1> QED BY <1>1, <1>4, <1>12 DEF Arrives, Moves, Hears, Pulsing

LEMMA BitPulseEnds ==
    ASSUME ShippedDevice, NEW w, NEW k \in 0 .. MaxBits - 1, NEW m, Hears(w, m, "bit_pulse", k),
           MatchesDuration(m.elapsed_us, PulseTime),
           NEW b \in BOOLEAN, ~b
    PROVE  Arrives(w, Process(m, b), "bit_off_time", k)
<1>1. m \in Rec /\ m.curr_state = "bit_pulse" /\ m.prev_bit /\ m.num_bits = k
  BY DEF Hears, Pulsing
<1>2. PICK t : t = Triggers["bit_pulse"][2]
  OBVIOUS
<1>3. t = On("pulse_end", 0, "none", "bit_off_time")
  BY <1>2, ShippedStates
<1>4. t.condition = "pulse_end" /\ t.duration_us = 0 /\ t.action = "none" /\ t.next_state = "bit_off_time"
  BY <1>3 DEF On
<1>5. DOMAIN Triggers[m.curr_state] = 1 .. 3 /\ m.curr_state # Reset
  BY <1>1, ShippedStates DEF ShippedDevice
<1>6. ConditionHolds(m, b, t) /\ MatchesDuration(m.elapsed_us, t.duration_us)
  BY <1>1, <1>4 DEF ConditionHolds, MatchesDuration
<1>a. ~ConditionHolds(m, b, Triggers[m.curr_state][1])
  <2>1. Triggers[m.curr_state][1].condition = "msg_complete"
    BY <1>1, ShippedStates DEF On
  <2>2. ~(m.num_bits >= MaxBits)
    BY <1>1, DeviceAssumption
  <2> QED BY <2>1, <2>2 DEF ConditionHolds
<1>7. /\ 2 \in Satisfied(m, b) /\ Satisfied(m, b) \subseteq Nat
      /\ \A y \in Satisfied(m, b) : 2 <= y
  <2>1. 2 \in Satisfied(m, b) /\ 1 \notin Satisfied(m, b) /\ Satisfied(m, b) \subseteq 1 .. 3
    BY <1>1, <1>2, <1>5, <1>6, <1>a DEF Satisfied
  <2> QED BY <2>1
<1>8. MatchesStateDuration(m, t) /\ t = Triggers[m.curr_state][2]
  BY <1>1, <1>2, ShippedTimes DEF MatchesStateDuration
<1>9. First(m, b, 2, t)
  BY <1>5, <1>7, <1>8 DEF First
<1>10. t.next_state \in States
  BY <1>4, ShippedStates
<1>12. Moves(Process(m, b), m, b, t)
  BY <1>1, <1>4, <1>9, <1>10, Fired, Zenon
<1> QED BY <1>1, <1>4, <1>12 DEF Arrives, Moves, Hears, Pulsing

\* What a trigger that appends the next bit of the message leaves.
BitAppends(v) == IF v THEN "append_1" ELSE "append_0"

LEMMA Appended ==
    ASSUME ShippedDevice, NEW w, w \in [1 .. MaxBits -> BOOLEAN],
           NEW k \in 0 .. MaxBits - 1, NEW m, Hears(w, m, "bit_off_time", k),
           NEW b \in BOOLEAN, b, NEW i, NEW t, First(m, b, i, t),
           t.next_state = "bit_pulse",
           t.action = BitAppends(w[k + 1])
    PROVE  Arrives(w, Process(m, b), "bit_pulse", k + 1)
<1>1. m \in Rec /\ m.num_bits = k /\ m.data = Bits(w, k)
  BY DEF Hears
<1>2. k \in Nat /\ k + 1 \in Nat /\ ~(k > MaxBits) /\ k <= MaxBits /\ MaxBits \in Nat
  BY DeviceAssumption
<1>3. PICK D : D = Bits(w, k + 1)
  OBVIOUS
<1>4. D = IF w[k + 1] THEN Bits(w, k) \cup {k} ELSE Bits(w, k) \ {k}
  <2>1. 0 .. (k + 1) - 1 = (0 .. k - 1) \cup {k} /\ k \notin 0 .. k - 1
    BY <1>2
  <2>2. D = {x \in 0 .. (k + 1) - 1 : w[x + 1]}
    BY <1>3 DEF Bits
  <2>3. Bits(w, k) = {x \in 0 .. k - 1 : w[x + 1]}
    BY DEF Bits
  <2>4. D = {x \in (0 .. k - 1) \cup {k} : w[x + 1]}
    BY <2>1, <2>2, Zenon
  <2>5. CASE w[k + 1]
    BY <2>1, <2>3, <2>4, <2>5, Zenon
  <2>6. CASE ~w[k + 1]
    BY <2>1, <2>3, <2>4, <2>6, Zenon
  <2> QED BY <2>5, <2>6, Zenon
<1>5. t.action \in AppendActions /\ t.action # "output_data"
  BY DEF AppendActions, BitAppends
<1>6. AppendDataBit(m, t.action) = D
  <2>1. m.num_bits <= MaxBits
    BY <1>1, <1>2
  <2>2. CASE w[k + 1]
    <3>1. t.action = "append_1"
      BY <2>2 DEF BitAppends
    <3> QED BY <1>1, <1>4, <2>1, <2>2, <3>1 DEF AppendDataBit
  <2>3. CASE ~w[k + 1]
    <3>1. t.action # "append_1"
      BY <2>3 DEF BitAppends
    <3> QED BY <1>1, <1>4, <2>1, <2>3, <3>1 DEF AppendDataBit
  <2> QED BY <2>2, <2>3
<1>7. HandleActions(m, t) = [m EXCEPT !.data = D, !.num_bits = k + 1]
  <2>1. ~(m.num_bits > MaxBits)
    BY <1>1, <1>2
  <2> QED BY <1>1, <1>5, <1>6, <2>1 DEF HandleActions
<1>8. D \in SUBSET Nat
  BY <1>3, <1>2 DEF Bits
<1>9. PICK q : q = [[[m EXCEPT !.data = D, !.num_bits = k + 1]
                        EXCEPT !.curr_state = t.next_state, !.elapsed_us = 0]
                        EXCEPT !.prev_bit = b]
  OBVIOUS
<1>10. "bit_pulse" \in States
  BY ShippedStates
<1>11. /\ q \in Rec /\ q.curr_state = "bit_pulse" /\ q.elapsed_us = 0
       /\ q.num_bits = k + 1 /\ q.data = D /\ q.prev_bit = b
  BY <1>1, <1>2, <1>8, <1>9, <1>10 DEF Rec
<1>12. Follows(Process(m, b), m, b, t)
  BY <1>1, Fires, Zenon
<1>13. Process(m, b).result = "no_output" /\ Process(m, b).sm = q
  BY <1>5, <1>7, <1>9, <1>12, Zenon DEF Fire, Follows
<1>14. "bit_pulse" \in Pulsing
  BY DEF Pulsing
<1> QED BY <1>3, <1>11, <1>13, <1>14, Zenon DEF Arrives, Hears

LEMMA GapEnds ==
    ASSUME ShippedDevice, NEW w, w \in [1 .. MaxBits -> BOOLEAN],
           NEW k \in 0 .. MaxBits - 1, NEW m, Hears(w, m, "bit_off_time", k),
           MatchesDuration(m.elapsed_us, GapTime(w[k + 1])), NEW b \in BOOLEAN, b
    PROVE  Arrives(w, Process(m, b), "bit_pulse", k + 1)
<1>1. m \in Rec /\ m.curr_state = "bit_off_time" /\ ~m.prev_bit /\ m.elapsed_us \in Nat
  BY DEF Hears, Pulsing, Rec
<1>2. DOMAIN Triggers[m.curr_state] = 1 .. 3 /\ m.curr_state # Reset
  BY <1>1, ShippedStates DEF ShippedDevice
<1>3. w[k + 1] \in BOOLEAN
  BY DeviceAssumption
<1>4. \A t : t.condition = "pulse_start" =>
                 ConditionHolds(m, b, t) /\ MatchesStateDuration(m, t)
  <2>1. Duration[m.curr_state] = 0
    BY <1>1, ShippedTimes
  <2> QED BY <1>1, <2>1 DEF ConditionHolds, MatchesStateDuration, MatchesDuration
<1>5. Satisfied(m, b) \subseteq 1 .. 3
  BY <1>2, Zenon DEF Satisfied
<1>6. CASE w[k + 1]
  <2>1. PICK t : t = Triggers["bit_off_time"][2]
    OBVIOUS
  <2>2. t.condition = "pulse_start" /\ t.action = "append_1" /\ t.next_state = "bit_pulse"
    BY <2>1, ShippedStates DEF On
  <2>a. t.duration_us = 4000 * TicksPerUs
    BY <2>1, ShippedStates DEF On, GapTime, Ticks
  <2>3. Triggers[m.curr_state][1].duration_us = 2000 * TicksPerUs
    BY <1>1, ShippedStates DEF On, GapTime, Ticks
  <2>4. 85 * (4000 * TicksPerUs) <= 100 * m.elapsed_us /\ 100 * m.elapsed_us <= 115 * (4000 * TicksPerUs)
    BY <1>6, TickAssumption DEF MatchesDuration, GapTime, Ticks
  <2>5. MatchesDuration(m.elapsed_us, t.duration_us)
    BY <2>a, <2>4 DEF MatchesDuration
  <2>6. ~MatchesDuration(m.elapsed_us, Triggers[m.curr_state][1].duration_us)
    BY <1>1, <2>3, <2>4, TickAssumption DEF MatchesDuration
  <2>7. 2 \in DOMAIN Triggers[m.curr_state] /\ t = Triggers[m.curr_state][2]
    BY <1>1, <1>2, <2>1
  <2>8. ConditionHolds(m, b, t) /\ MatchesStateDuration(m, t)
    BY <1>4, <2>2, Zenon
  <2>9. 2 \in Satisfied(m, b) /\ 1 \notin Satisfied(m, b)
    BY <2>5, <2>6, <2>7, <2>8, Zenon DEF Satisfied
  <2>10. \A S : S \subseteq 1 .. 3 /\ 1 \notin S => S \subseteq Nat /\ \A y \in S : 2 <= y
    OBVIOUS
  <2>11. First(m, b, 2, t)
    BY <1>2, <1>5, <2>7, <2>8, <2>9, <2>10, Zenon DEF First
  <2>12. t.action = BitAppends(w[k + 1])
    BY <1>6, <2>2 DEF BitAppends
  <2> QED BY <2>2, <2>11, <2>12, Appended, Zenon
<1>7. CASE ~w[k + 1]
  <2>1. PICK t : t = Triggers["bit_off_time"][1]
    OBVIOUS
  <2>2. t.condition = "pulse_start" /\ t.action = "append_0" /\ t.next_state = "bit_pulse"
    BY <2>1, ShippedStates DEF On
  <2>a. t.duration_us = GapTime(w[k + 1])
    BY <1>7, <2>1, ShippedStates DEF On, GapTime
  <2>3. MatchesDuration(m.elapsed_us, t.duration_us)
    BY <2>a
  <2>4. 1 \in DOMAIN Triggers[m.curr_state] /\ t = Triggers[m.curr_state][1]
    BY <1>1, <1>2, <2>1
  <2>5. ConditionHolds(m, b, t) /\ MatchesStateDuration(m, t)
    BY <1>4, <2>2, Zenon
  <2>6. 1 \in Satisfied(m, b)
    BY <2>3, <2>4, <2>5, Zenon DEF Satisfied
  <2>7. \A S : S \subseteq 1 .. 3 => S \subseteq Nat /\ \A y \in S : 1 <= y
    OBVIOUS
  <2>8. First(m, b, 1, t)
    BY <1>2, <1>5, <2>4, <2>5, <2>6, <2>7, Zenon DEF First
  <2>9. t.action = BitAppends(w[k + 1])
    BY <1>7, <2>2 DEF BitAppends
  <2> QED BY <2>2, <2>8, <2>9, Appended, Zenon
<1> QED BY <1>3, <1>6, <1>7

\* The second sample of the last pulse completes the message.
LEMMA Completed ==
    ASSUME ShippedDevice, NEW w, NEW m, Hears(w, m, "bit_pulse", MaxBits), NEW b \in BOOLEAN
    PROVE  /\ Process(m, b).result = "output_ready"
           /\ Process(m, b).sm.data = Bits(w, MaxBits)
           /\ Resting(Process(m, b).sm) /\ Process(m, b).sm.prev_bit = b
<1>1. /\ m \in Rec /\ m.curr_state = "bit_pulse" /\ m.num_bits = MaxBits
      /\ m.data = Bits(w, MaxBits) /\ MaxBits \in Nat
  BY DeviceAssumption DEF Hears
<1>2. PICK t : t = Triggers["bit_pulse"][1]
  OBVIOUS
<1>3. t.condition = "msg_complete" /\ t.duration_us = 0 /\ t.action = "output_data" /\ t.next_state = "reset"
  BY <1>2, ShippedStates DEF On
<1>4. DOMAIN Triggers[m.curr_state] = 1 .. 3 /\ m.curr_state # Reset
  BY <1>1, ShippedStates DEF ShippedDevice
<1>5. 1 \in DOMAIN Triggers[m.curr_state] /\ t = Triggers[m.curr_state][1]
  BY <1>1, <1>2, <1>4
<1>6. /\ ConditionHolds(m, b, t) /\ MatchesDuration(m.elapsed_us, t.duration_us)
      /\ MatchesStateDuration(m, t)
  BY <1>1, <1>3 DEF ConditionHolds, MatchesDuration, MatchesStateDuration
<1>7. 1 \in Satisfied(m, b) /\ Satisfied(m, b) \subseteq 1 .. 3
  BY <1>4, <1>5, <1>6, Zenon DEF Satisfied
<1>8. \A S : S \subseteq 1 .. 3 => S \subseteq Nat /\ \A y \in S : 1 <= y
  OBVIOUS
<1>9. First(m, b, 1, t)
  BY <1>4, <1>5, <1>6, <1>7, <1>8, Zenon DEF First
<1>10. /\ Process(m, b).result = "output_ready"
       /\ Process(m, b).sm = [Fire(m, t) EXCEPT !.prev_bit = b]
  <2>1. Follows(Process(m, b), m, b, t)
    BY <1>1, <1>9, Fires, Zenon
  <2> QED BY <1>3, <2>1, Zenon DEF Follows
<1>11. Fire(m, t) = [m EXCEPT !.curr_state = "reset", !.elapsed_us = 0]
  BY <1>3 DEF Fire, HandleActions, AppendActions
<1>12. PICK q : q = [[m EXCEPT !.curr_state = "reset", !.elapsed_us = 0] EXCEPT !.prev_bit = b]
  OBVIOUS
<1>13. "reset" \in States
  BY ShippedStates
<1>14. q \in Rec /\ q.curr_state = "reset" /\ q.data = Bits(w, MaxBits) /\ q.prev_bit = b
  BY <1>1, <1>12, <1>13 DEF Rec
<1>15. Bits(w, MaxBits) \subseteq BufferBits
  <2>1. PICK x \in Nat : x = (MaxBits + 7) \div 8 /\ MaxBits <= 8 * x
    BY <1>1
  <2>2. BufferBits = 0 .. (8 * x - 1)
    BY <2>1 DEF BufferBits
  <2>3. 0 .. MaxBits - 1 \subseteq 0 .. (8 * x - 1)
    BY <1>1, <2>1
  <2> QED BY <2>2, <2>3 DEF Bits
<1>16. Process(m, b).sm = q
  BY <1>10, <1>11, <1>12, Zenon
<1> QED BY <1>10, <1>14, <1>15, <1>16, Zenon DEF Resting

\* Without an edge, a machine between messages stays there.
IdleNoEdge(p, b) ==
    p.result = "no_output" /\ Resting(p.sm) /\ p.sm.curr_state = "idle" /\ p.sm.prev_bit = b

LEMMA IdleWaits ==
    ASSUME ShippedDevice, NEW m \in Rec, NEW b \in BOOLEAN, b => m.prev_bit,
           m.curr_state = "idle", m.num_bits = 0, m.data = {}
    PROVE  /\ HandleRxTriggers(m, b).result = "no_output"
           /\ Resting(HandleRxTriggers(m, b).sm)
           /\ HandleRxTriggers(m, b).sm.curr_state = "idle"
<1>1. Triggers[m.curr_state] = <<On("pulse_start", 0, "none", "initial_bit_pulse")>>
  BY ShippedStates
<1>2. \A i \in DOMAIN Triggers[m.curr_state] : Triggers[m.curr_state][i].condition = "pulse_start"
  BY <1>1 DEF On
<1>3. \A i \in DOMAIN Triggers[m.curr_state] : ~ConditionHolds(m, b, Triggers[m.curr_state][i])
  BY <1>2 DEF ConditionHolds
<1>4. Satisfied(m, b) = {}
  BY <1>3 DEF Satisfied
<1>5. HandleRxTriggers(m, b).result = "no_output" /\ HandleRxTriggers(m, b).sm = Wait(m)
  BY <1>4 DEF HandleRxTriggers, Outcome
<1>6. Wait(m) \in Rec /\ Wait(m).curr_state = "idle" /\ Wait(m).num_bits = 0 /\ Wait(m).data = {}
  <2>1. PICK e : e = IF m.elapsed_us + SampleUs > ElapsedCap
                     THEN ElapsedCap ELSE m.elapsed_us + SampleUs
    OBVIOUS
  <2>2. e \in Nat
    BY <2>1, DeviceAssumption DEF Rec
  <2>3. Wait(m) = [m EXCEPT !.elapsed_us = e]
    BY <2>1 DEF Wait, Rec
  <2> QED BY <2>2, <2>3 DEF Rec
<1> QED BY <1>5, <1>6 DEF Resting

LEMMA RestGoesOn ==
    ASSUME ShippedDevice, NEW m, Resting(m), NEW b \in BOOLEAN, b => m.prev_bit
    PROVE  IdleNoEdge(Process(m, b), b)
<1>1. m \in Rec /\ "idle" \in States
  BY ShippedStates DEF Resting
<1>2. CASE m.curr_state = "idle"
  <2>1. m.num_bits = 0 /\ m.data = {} /\ m.curr_state # Reset
    BY <1>2 DEF Resting, ShippedDevice
  <2>2. PICK h : h = HandleRxTriggers(m, b)
    OBVIOUS
  <2>3. h.result = "no_output" /\ Resting(h.sm) /\ h.sm.curr_state = "idle"
    BY <1>1, <1>2, <2>1, <2>2, IdleWaits, Zenon
  <2>4. Process(m, b).result = h.result /\ Process(m, b).sm = [h.sm EXCEPT !.prev_bit = b]
    BY <2>1, <2>2 DEF Process, Outcome
  <2> QED BY <2>3, <2>4 DEF IdleNoEdge, Resting, Rec
<1>3. CASE m.curr_state = "reset"
  <2>1. m.data \subseteq BufferBits /\ m.curr_state = Reset
    BY <1>3 DEF Resting, ShippedDevice
  <2>2. PICK c \in Rec : /\ c = ClearMessage(m) /\ c.curr_state = "reset" /\ c.num_bits = 0
                         /\ c.data = {} /\ c.prev_bit = m.prev_bit
    <3>1. /\ ClearMessage(m) \in Rec /\ ClearMessage(m).curr_state = "reset"
          /\ ClearMessage(m).num_bits = 0 /\ ClearMessage(m).data = {}
          /\ ClearMessage(m).prev_bit = m.prev_bit
      BY <1>1, <1>3, <2>1 DEF ClearMessage, Rec
    <3> QED BY <3>1
  <2>3. PICK t : t = Triggers["reset"][1]
    OBVIOUS
  <2>4. t.condition = "always" /\ t.duration_us = 0 /\ t.action = "none" /\ t.next_state = "idle"
    BY <2>3, ShippedStates DEF On
  <2>5. DOMAIN Triggers[c.curr_state] = {1} /\ t = Triggers[c.curr_state][1]
    BY <2>2, <2>3, ShippedStates
  <2>6. /\ ConditionHolds(c, b, t) /\ MatchesDuration(c.elapsed_us, t.duration_us)
        /\ MatchesStateDuration(c, t)
    BY <2>4 DEF ConditionHolds, MatchesDuration, MatchesStateDuration
  <2>7. Satisfied(c, b) = {1}
    BY <2>5, <2>6, Zenon DEF Satisfied
  <2>8. Min(Satisfied(c, b)) = 1
    <3>1. {1} \in SUBSET Nat /\ 1 \in {1} /\ \A y \in {1} : 1 <= y
      OBVIOUS
    <3> QED BY <2>7, <3>1, MinIs
  <2>9. ActiveTrigger(c, b) = t
    BY <2>5, <2>8 DEF ActiveTrigger
  <2>10. PICK f : f = HandleRxTriggers(c, b)
    OBVIOUS
  <2>11. f.sm = Fire(c, t) /\ f.result = "no_output"
    BY <2>4, <2>6, <2>7, <2>9, <2>10 DEF HandleRxTriggers, Outcome
  <2>12. /\ f.sm \in Rec /\ f.sm.curr_state = "idle" /\ f.sm.num_bits = 0 /\ f.sm.data = {}
         /\ f.sm.prev_bit = m.prev_bit
    <3>1. f.sm = [c EXCEPT !.curr_state = "idle", !.elapsed_us = 0]
      BY <2>4, <2>11 DEF Fire, HandleActions, AppendActions
    <3>2. /\ f.sm \in Rec /\ f.sm.curr_state = "idle" /\ f.sm.num_bits = 0 /\ f.sm.data = {}
          /\ f.sm.prev_bit = c.prev_bit
      BY <1>1, <2>2, <3>1 DEF Rec
    <3> QED BY <2>2, <3>2, Zenon
  <2>13. PICK h : h = HandleRxTriggers(f.sm, b)
    OBVIOUS
  <2>14. h.result = "no_output" /\ Resting(h.sm) /\ h.sm.curr_state = "idle"
    <3>1. b => f.sm.prev_bit
      BY <2>12, Zenon
    <3> QED BY <2>12, <2>13, <3>1, IdleWaits, Zenon
  <2>15. Process(m, b).result = h.result /\ Process(m, b).sm = [h.sm EXCEPT !.prev_bit = b]
    BY <2>1, <2>2, <2>10, <2>11, <2>13 DEF Process, Outcome
  <2> QED BY <2>14, <2>15 DEF IdleNoEdge, Resting, Rec
<1> QED BY <1>2, <1>3 DEF Resting

\* The first sample of the lead pulse.
LEMMA LeadStarts ==
    ASSUME ShippedDevice, NEW w, NEW m, Resting(m), m.curr_state = "idle", ~m.prev_bit,
           NEW b \in BOOLEAN, b
    PROVE  Arrives(w, Process(m, b), "initial_bit_pulse", 0)
<1>1. m \in Rec /\ m.num_bits = 0 /\ m.data = {}
  BY DEF Resting
<1>2. PICK t : t = Triggers["idle"][1]
  OBVIOUS
<1>3. t.condition = "pulse_start" /\ t.duration_us = 0 /\ t.action = "none" /\ t.next_state = "initial_bit_pulse"
  BY <1>2, ShippedStates DEF On
<1>4. DOMAIN Triggers[m.curr_state] = {1} /\ t = Triggers[m.curr_state][1] /\ m.curr_state # Reset
  BY <1>2, ShippedStates DEF ShippedDevice
<1>5. /\ ConditionHolds(m, b, t) /\ MatchesDuration(m.elapsed_us, t.duration_us)
      /\ MatchesStateDuration(m, t)
  BY <1>3, ShippedTimes DEF ConditionHolds, MatchesDuration, MatchesStateDuration
<1>6. Satisfied(m, b) = {1}
  BY <1>4, <1>5, Zenon DEF Satisfied
<1>7. 1 \in {1} /\ {1} \subseteq Nat /\ \A y \in {1} : 1 <= y
  OBVIOUS
<1>8. First(m, b, 1, t)
  BY <1>4, <1>5, <1>6, <1>7, Zenon DEF First
<1>9. t.next_state \in States
  BY <1>3, ShippedStates
<1>10. Moves(Process(m, b), m, b, t)
  BY <1>1, <1>3, <1>8, <1>9, Fired, Zenon
<1>11. Bits(w, 0) = {}
  BY DEF Bits
<1> QED BY <1>1, <1>3, <1>10, <1>11 DEF Arrives, Moves, Hears, Pulsing

\* A further sample of the same level.
Continues(w, m, s, k, b) ==
    /\ Hears(w, m, s, k) /\ s \in Listening /\ k \in 0 .. MaxBits
    /\ b <=> s \in Pulsing
    /\ s = "bit_pulse" => k < MaxBits
    /\ m.elapsed_us < Timeout[s] /\ m.elapsed_us + SampleUs <= ElapsedCap

Counted(w, p, s, k, e) == p.result = "no_output" /\ Hears(w, p.sm, s, k) /\ p.sm.elapsed_us = e

LEMMA StaysOn ==
    ASSUME ShippedDevice, NEW w, NEW s, NEW k, NEW m, NEW b \in BOOLEAN, Continues(w, m, s, k, b)
    PROVE  Counted(w, Process(m, b), s, k, m.elapsed_us + SampleUs)
<1>0. /\ Hears(w, m, s, k) /\ s \in Listening /\ k \in 0 .. MaxBits
      /\ b <=> s \in Pulsing
      /\ s = "bit_pulse" => k < MaxBits
      /\ m.elapsed_us < Timeout[s] /\ m.elapsed_us + SampleUs <= ElapsedCap
  BY DEF Continues
<1>1. /\ m \in Rec /\ m.curr_state = s /\ m.num_bits = k /\ m.data = Bits(w, k)
      /\ m.prev_bit <=> s \in Pulsing
  BY <1>0 DEF Hears
<1>2. b = m.prev_bit
  <2>1. m.prev_bit \in BOOLEAN
    BY <1>1 DEF Rec
  <2> QED BY <1>0, <1>1, <2>1
<1>3. Satisfied(m, b) = {} /\ m.curr_state # Reset
  <2>1. m.curr_state \in Listening /\ m.elapsed_us < Timeout[m.curr_state]
    BY <1>0, <1>1
  <2>2. m.curr_state = "bit_pulse" => m.num_bits < MaxBits
    BY <1>0, <1>1
  <2> QED BY <1>1, <1>2, <2>1, <2>2, SameLevelWaits, Zenon
<1>4. /\ Process(m, b).result = "no_output"
      /\ Process(m, b).sm = [m EXCEPT !.prev_bit = b,
                                      !.elapsed_us = IF @ + SampleUs > ElapsedCap
                                                     THEN ElapsedCap ELSE @ + SampleUs]
  BY <1>1, <1>3, Waits
<1>5. m.elapsed_us \in Nat /\ SampleUs \in Nat /\ ElapsedCap \in Nat
  BY <1>1, DeviceAssumption DEF Rec
<1>6. Process(m, b).sm = [m EXCEPT !.prev_bit = b, !.elapsed_us = m.elapsed_us + SampleUs]
  <2>1. ~(m.elapsed_us + SampleUs > ElapsedCap)
    BY <1>0, <1>5
  <2> QED BY <1>1, <1>4, <2>1 DEF Rec
<1>7. PICK q : q = [m EXCEPT !.prev_bit = b, !.elapsed_us = m.elapsed_us + SampleUs]
  OBVIOUS
<1>8. /\ q \in Rec /\ q.curr_state = s /\ q.num_bits = k /\ q.data = Bits(w, k) /\ q.prev_bit = b
      /\ q.elapsed_us = m.elapsed_us + SampleUs
  <2>1. PICK e \in Nat : e = m.elapsed_us + SampleUs
    BY <1>5
  <2>2. q = [m EXCEPT !.prev_bit = b, !.elapsed_us = e]
    BY <1>7, <2>1, Zenon
  <2>3. /\ q \in Rec /\ q.curr_state = m.curr_state /\ q.num_bits = m.num_bits
        /\ q.data = m.data /\ q.prev_bit = b /\ q.elapsed_us = e
    BY <1>1, <2>2 DEF Rec
  <2> QED BY <1>1, <2>1, <2>3, Zenon
<1> QED BY <1>0, <1>4, <1>6, <1>7, <1>8, Zenon DEF Hears, Counted
-----------------------------------------------------------------------------
(* The shipped device: transmitter, line and receiver together.            *)

LastRun == 3 + 2 * MaxBits

\* While it hears run r of the signal of message w, which lasts d ticks,
\* the receiver is in state s with k bits.
Phase(w, r, s, k, d) ==
    \/ r = 1 /\ s = "initial_bit_pulse" /\ k = 0 /\ d = PulseTime
    \/ r = 2 /\ s = "initial_off_time" /\ k = 0 /\ d = PauseTime
    \/ k \in 0 .. MaxBits /\ r = 3 + 2 * k /\ s = "bit_pulse" /\ d = PulseTime
    \/ k \in 0 .. MaxBits - 1 /\ r = 4 + 2 * k /\ s = "bit_off_time" /\ d = GapTime(w[k + 1])

\* State z with x bits comes after state s with k bits, which lasts d.
NextPhase(w, s, k, d, z, x) ==
    \/ s = "initial_bit_pulse" /\ k = 0 /\ d = PulseTime /\ z = "initial_off_time" /\ x = 0
    \/ s = "initial_off_time" /\ k = 0 /\ d = PauseTime /\ z = "bit_pulse" /\ x = 0
    \/ s = "bit_pulse" /\ k \in 0 .. MaxBits - 1 /\ d = PulseTime /\ z = "bit_off_time" /\ x = k
    \/ /\ s = "bit_off_time" /\ k \in 0 .. MaxBits - 1 /\ d = GapTime(w[k + 1])
       /\ z = "bit_pulse" /\ x = k + 1

\* The shipped device waits for a pulse or gap longer than it may last.
LEMMA PhaseTypes ==
    ASSUME ShippedDevice, NEW w \in [1 .. MaxBits -> BOOLEAN], NEW r, NEW s, NEW k, NEW d,
           Phase(w, r, s, k, d)
    PROVE  /\ s \in Listening /\ k \in 0 .. MaxBits /\ r \in 1 .. LastRun
           /\ d \in LineDurations /\ d \in Nat \ {0}
           /\ r < LastRun <=> (s = "bit_pulse" => k < MaxBits)
           /\ 115 * d < 100 * Timeout[s] /\ Timeout[s] \in Nat /\ Timeout[s] < ElapsedCap
<1>1. MaxBits \in Nat \ {0}
  BY DeviceAssumption
<1>2. s \in Listening /\ k \in 0 .. MaxBits
  BY <1>1 DEF Phase, Listening, Pulsing
<1>3. r \in 1 .. LastRun /\ (r < LastRun <=> (s = "bit_pulse" => k < MaxBits))
  BY <1>1 DEF Phase, LastRun
<1>4. ASSUME NEW b \in BOOLEAN
      PROVE  GapTime(b) = GapTime(TRUE) \/ GapTime(b) = GapTime(FALSE)
  <2>1. CASE b = TRUE
    BY <2>1, Zenon
  <2>2. CASE b = FALSE
    BY <2>2, Zenon
  <2> QED BY <2>1, <2>2
<1>5. d \in LineDurations
  <2>1. CASE d = PulseTime \/ d = PauseTime
    BY <2>1, Zenon DEF LineDurations
  <2>2. CASE s = "bit_off_time" /\ k \in 0 .. MaxBits - 1 /\ d = GapTime(w[k + 1])
    <3>1. w[k + 1] \in BOOLEAN
      BY <1>1, <2>2
    <3> QED BY <1>4, <2>2, <3>1, Zenon DEF LineDurations
  <2> QED BY <2>1, <2>2 DEF Phase
<1>6. d \in Nat \ {0}
  <2>1. \A e \in {PulseTime, PauseTime, GapTime(FALSE), GapTime(TRUE)} : e \in Nat \ {0}
    BY LineTypes
  <2> QED BY <1>5, <2>1, Zenon DEF LineDurations
<1>7. 115 * d < 100 * Timeout[s]
  <2>1. CASE s = "initial_bit_pulse"
    BY <2>1, BeforeTimeout DEF Phase
  <2>2. CASE s = "initial_off_time"
    BY <2>2, BeforeTimeout DEF Phase
  <2>3. CASE s = "bit_pulse"
    BY <2>3, BeforeTimeout DEF Phase
  <2>4. CASE s = "bit_off_time"
    <3>1. k \in 0 .. MaxBits - 1 /\ d = GapTime(w[k + 1])
      BY <2>4 DEF Phase
    <3>2. w[k + 1] \in BOOLEAN
      BY <1>1, <3>1
    <3>3. 115 * GapTime(w[k + 1]) < 100 * Timeout["bit_off_time"]
      BY <3>2, BeforeTimeout
    <3> QED BY <2>4, <3>1, <3>3
  <2> QED BY <1>2, <2>1, <2>2, <2>3, <2>4 DEF Listening, Pulsing
<1>8. Timeout[s] \in Nat /\ Timeout[s] < ElapsedCap
  BY <1>2, BeforeTimeout
<1> QED BY <1>2, <1>3, <1>5, <1>6, <1>7, <1>8

\* The run of the signal that belongs to it.
LEMMA PhaseRun ==
    ASSUME NEW w, NEW q, SignalOf(q, w, MaxBits),
           NEW r, NEW s, NEW k, NEW d, Phase(w, r, s, k, d)
    PROVE  q[r].length = SampleCount(d) /\ (q[r].value <=> s \in Pulsing)
<1>0. MaxBits \in Nat \ {0}
  BY DeviceAssumption
<1>1. \/ s \in Pulsing /\ q[r] = High /\ d = PulseTime
      \/ s \notin Pulsing /\ q[r] = Low(d)
  <2>1. CASE r = 1 /\ s = "initial_bit_pulse" /\ d = PulseTime
    BY <2>1 DEF SignalOf, Pulsing
  <2>2. CASE r = 2 /\ s = "initial_off_time" /\ d = PauseTime
    BY <2>2 DEF SignalOf, Pulsing
  <2>3. CASE k \in 0 .. MaxBits /\ r = 3 + 2 * k /\ s = "bit_pulse" /\ d = PulseTime
    <3>1. CASE k = 0
      BY <2>3, <3>1 DEF SignalOf, Pulsing
    <3>2. CASE k # 0
      <4>1. k \in 1 .. MaxBits
        BY <1>0, <2>3, <3>2
      <4> QED BY <2>3, <4>1 DEF SignalOf, Pulsing
    <3> QED BY <3>1, <3>2
  <2>4. CASE k \in 0 .. MaxBits - 1 /\ r = 4 + 2 * k /\ s = "bit_off_time" /\ d = GapTime(w[k + 1])
    <3>1. k + 1 \in 1 .. MaxBits /\ r = 2 + 2 * (k + 1)
      BY <1>0, <2>4
    <3>2. q[2 + 2 * (k + 1)] = Low(GapTime(w[k + 1]))
      BY <3>1 DEF SignalOf
    <3>3. s \notin Pulsing
      BY <2>4 DEF Pulsing
    <3> QED BY <2>4, <3>1, <3>2, <3>3
  <2> QED BY <2>1, <2>2, <2>3, <2>4 DEF Phase
<1>2. CASE s \in Pulsing /\ q[r] = High /\ d = PulseTime
  <2>1. High.length = SampleCount(PulseTime) /\ High.value
    BY DEF High
  <2> QED BY <1>2, <2>1, Zenon
<1>3. CASE s \notin Pulsing /\ q[r] = Low(d)
  <2>1. Low(d).length = SampleCount(d) /\ ~Low(d).value
    BY DEF Low
  <2> QED BY <1>3, <2>1, Zenon
<1> QED BY <1>1, <1>2, <1>3

\* After every run but the last there is another.
LEMMA PhaseFollows ==
    ASSUME NEW w, NEW r, NEW s, NEW k, NEW d, Phase(w, r, s, k, d), s = "bit_pulse" => k < MaxBits
    PROVE  \E z, x, e : NextPhase(w, s, k, d, z, x) /\ Phase(w, r + 1, z, x, e)
<1>0. MaxBits \in Nat \ {0}
  BY DeviceAssumption
<1>1. CASE r = 1 /\ s = "initial_bit_pulse" /\ k = 0 /\ d = PulseTime
  <2>1. /\ NextPhase(w, s, k, d, "initial_off_time", 0)
        /\ Phase(w, r + 1, "initial_off_time", 0, PauseTime)
    BY <1>1 DEF NextPhase, Phase
  <2> QED BY <2>1
<1>2. CASE r = 2 /\ s = "initial_off_time" /\ k = 0 /\ d = PauseTime
  <2>1. NextPhase(w, s, k, d, "bit_pulse", 0) /\ Phase(w, r + 1, "bit_pulse", 0, PulseTime)
    BY <1>0, <1>2 DEF NextPhase, Phase
  <2> QED BY <2>1
<1>3. CASE k \in 0 .. MaxBits /\ r = 3 + 2 * k /\ s = "bit_pulse" /\ d = PulseTime
  <2>1. k \in 0 .. MaxBits - 1 /\ r + 1 = 4 + 2 * k
    BY <1>0, <1>3
  <2>2. PICK e : e = GapTime(w[k + 1])
    OBVIOUS
  <2>3. NextPhase(w, s, k, d, "bit_off_time", k) /\ Phase(w, r + 1, "bit_off_time", k, e)
    BY <1>3, <2>1, <2>2 DEF NextPhase, Phase
  <2> QED BY <2>3
<1>4. CASE k \in 0 .. MaxBits - 1 /\ r = 4 + 2 * k /\ s = "bit_off_time" /\ d = GapTime(w[k + 1])
  <2>1. k + 1 \in 0 .. MaxBits /\ r + 1 = 3 + 2 * (k + 1)
    BY <1>0, <1>4
  <2>2. NextPhase(w, s, k, d, "bit_pulse", k + 1) /\ Phase(w, r + 1, "bit_pulse", k + 1, PulseTime)
    BY <1>4, <2>1 DEF NextPhase, Phase
  <2> QED BY <2>2
<1> QED BY <1>1, <1>2, <1>3, <1>4 DEF Phase

\* The first sample of a run moves the receiver on.
LEMMA EdgeHeard ==
    ASSUME ShippedDevice, NEW w, w \in [1 .. MaxBits -> BOOLEAN],
           NEW s, NEW k, NEW d, NEW z, NEW x, NextPhase(w, s, k, d, z, x),
           NEW m, Hears(w, m, s, k), MatchesDuration(m.elapsed_us, d),
           NEW b \in BOOLEAN, b <=> z \in Pulsing
    PROVE  Arrives(w, Process(m, b), z, x)
<1>1. CASE s = "initial_bit_pulse" /\ k = 0 /\ d = PulseTime /\ z = "initial_off_time" /\ x = 0
  <2>1. ~b
    BY <1>1 DEF Pulsing
  <2> QED BY <1>1, <2>1, LeadPulseEnds, Zenon
<1>2. CASE s = "initial_off_time" /\ k = 0 /\ d = PauseTime /\ z = "bit_pulse" /\ x = 0
  <2>1. b
    BY <1>2 DEF Pulsing
  <2> QED BY <1>2, <2>1, PauseEnds, Zenon
<1>3. CASE s = "bit_pulse" /\ k \in 0 .. MaxBits - 1 /\ d = PulseTime /\ z = "bit_off_time" /\ x = k
  <2>1. ~b
    BY <1>3 DEF Pulsing
  <2> QED BY <1>3, <2>1, BitPulseEnds, Zenon
<1>4. CASE /\ s = "bit_off_time" /\ k \in 0 .. MaxBits - 1 /\ d = GapTime(w[k + 1])
           /\ z = "bit_pulse" /\ x = k + 1
  <2>1. b
    BY <1>4 DEF Pulsing
  <2> QED BY <1>4, <2>1, GapEnds, Zenon
<1> QED BY <1>1, <1>2, <1>3, <1>4, Zenon DEF NextPhase

\* With l samples to come, n have been sent of a run that lasts d.
Sent(l, d, n) == \E j \in Jitter : l + n = SampleCount(d) + j

\* No sample of run r has been heard yet: the lead pulse, and the others.
Starts(r, l, m) ==
    r = 1 /\ Sent(l, PulseTime, 0) /\ Resting(m) /\ m.curr_state = "idle" /\ ~m.prev_bit

Turns(w, r, l, m) ==
    \E s, k, d, z, x, e :
        /\ Phase(w, r, z, x, e) /\ Sent(l, e, 0)
        /\ NextPhase(w, s, k, d, z, x)
        /\ Hears(w, m, s, k) /\ MatchesDuration(m.elapsed_us, d)

\* n samples have been heard; of the last pulse, no more than one.
Stays(w, r, l, m) ==
    \E s, k, d : \E n \in Nat \ {0} :
        /\ Phase(w, r, s, k, d) /\ Sent(l, d, n) /\ (r = LastRun => n = 1)
        /\ Hears(w, m, s, k) /\ m.elapsed_us = (n - 1) * SampleUs

\* Received the message w, c times.
Got(w, g, c) ==
    g \in Seq(SUBSET Nat) /\ Len(g) = c /\ \A x \in 1 .. c : g[x] = Bits(w, MaxBits)

\* The delay before a copy, and what follows the last.
Rests(c, l, m) ==
    /\ Resting(m)
    /\ c < Copies => l <= Delay /\ (l < Delay => m.curr_state = "idle" /\ ~m.prev_bit)

Line(w, c, r, l, m, g) ==
    /\ w \in [1 .. MaxBits -> BOOLEAN] /\ c \in 0 .. Copies /\ l \in Nat
    /\ \/ r = 0 /\ Rests(c, l, m) /\ Got(w, g, c)
       \/ /\ c < Copies /\ r \in 1 .. LastRun /\ Got(w, g, c)
          /\ Starts(r, l, m) \/ Turns(w, r, l, m) \/ Stays(w, r, l, m)
       \/ c < Copies /\ r = LastRun /\ Resting(m) /\ m.prev_bit /\ Got(w, g, c + 1)

\* A pulse or gap is two samples long at least, and of the right length.
LEMMA OnTheLine ==
    ASSUME LineTolerated, NEW d \in LineDurations, NEW l \in Nat, NEW n \in Nat, Sent(l, d, n)
    PROVE  /\ l + n >= 2 /\ MatchesDuration((l + n - 1) * SampleUs, d)
<1> PICK j \in Jitter : l + n = SampleCount(d) + j
  BY DEF Sent
<1>1. SampleCount(d) + j >= 2
  BY DEF LineTolerated
<1>2. MatchesDuration((SampleCount(d) + j - 1) * SampleUs, d)
  BY DEF LineTolerated
<1>3. SampleCount(d) \in Nat
  <2>1. d \in Nat
    BY LineTypes DEF LineDurations
  <2> QED BY <2>1, SampleCountType
<1>4. j \in Int
  BY LinkAssumption
<1>5. (SampleCount(d) + j - 1) * SampleUs = (l + n - 1) * SampleUs
  BY <1>3, <1>4
<1>6. l + n >= 2
  BY <1>1
<1> QED BY <1>2, <1>5, <1>6, Zenon

\* A sample while the receiver waits for the end of a pulse or gap.
LEMMA SampleCounted ==
    ASSUME ShippedDevice, LineTolerated, NEW w \in [1 .. MaxBits -> BOOLEAN],
           NEW r, NEW s, NEW k, NEW d, Phase(w, r, s, k, d), r < LastRun,
           NEW l \in Nat \ {0}, NEW n \in Nat \ {0}, Sent(l, d, n),
           NEW m, Hears(w, m, s, k), m.elapsed_us = (n - 1) * SampleUs,
           NEW b \in BOOLEAN, b <=> s \in Pulsing
    PROVE  Counted(w, Process(m, b), s, k, n * SampleUs)
<1>1. /\ s \in Listening /\ k \in 0 .. MaxBits /\ d \in LineDurations /\ d \in Nat \ {0}
      /\ s = "bit_pulse" => k < MaxBits
      /\ 115 * d < 100 * Timeout[s] /\ Timeout[s] \in Nat /\ Timeout[s] < ElapsedCap
  BY PhaseTypes
<1>2. MatchesDuration((l + n - 1) * SampleUs, d)
  BY <1>1, OnTheLine
<1>3. PICK t \in Nat : t = Timeout[s]
  BY <1>1
<1>4. SampleUs \in Nat \ {0} /\ ElapsedCap \in Nat
  BY DeviceAssumption
<1>5. (n - 1) * SampleUs + SampleUs = n * SampleUs
  BY <1>4, Multiply
<1>6. n * SampleUs <= (l + n - 1) * SampleUs
  <2>1. n \in Nat /\ l + n - 1 \in Nat /\ n <= l + n - 1
    OBVIOUS
  <2> QED BY <1>4, <2>1, Multiply
<1>7. PICK v \in Nat : v = (l + n - 1) * SampleUs
  <2>1. l + n - 1 \in Nat
    OBVIOUS
  <2> QED BY <1>4, <2>1, Multiply
<1>8. PICK u \in Nat : u = n * SampleUs
  BY <1>4, Multiply
<1>9. v < t
  <2>1. 100 * v <= 115 * d
    BY <1>1, <1>2, <1>7 DEF MatchesDuration
  <2>2. 115 * d < 100 * t
    BY <1>1, <1>3
  <2> QED BY <1>1, <2>1, <2>2
<1>10. m.elapsed_us < Timeout[s] /\ m.elapsed_us + SampleUs <= ElapsedCap
  <2>1. PICK y \in Nat : y = (n - 1) * SampleUs
    <3>1. n - 1 \in Nat
      OBVIOUS
    <3> QED BY <1>4, <3>1, Multiply
  <2>2. y + SampleUs = u /\ u <= v /\ m.elapsed_us = y
    BY <1>5, <1>6, <1>7, <1>8, <2>1
  <2> QED BY <1>1, <1>3, <1>4, <1>9, <2>2
<1>11. m.elapsed_us + SampleUs = n * SampleUs
  BY <1>5
<1>12. Continues(w, m, s, k, b)
  BY <1>1, <1>10 DEF Continues
<1> QED BY <1>11, <1>12, StaysOn, Zenon

LEMMA Arrived ==
    ASSUME NEW w, NEW r, NEW s, NEW k, NEW d, Phase(w, r, s, k, d),
           NEW l \in Nat \ {0}, Sent(l, d, 0), NEW p, Arrives(w, p, s, k)
    PROVE  Stays(w, r, l - 1, p.sm)
<1>1. Sent(l - 1, d, 1)
  <2>1. PICK j \in Jitter : l + 0 = SampleCount(d) + j
    BY DEF Sent
  <2>2. (l - 1) + 1 = SampleCount(d) + j
    BY <2>1
  <2> QED BY <2>2 DEF Sent
<1>2. Hears(w, p.sm, s, k) /\ p.sm.elapsed_us = (1 - 1) * SampleUs
  BY DeviceAssumption DEF Arrives
<1>3. 1 \in Nat \ {0}
  OBVIOUS
<1> QED BY <1>1, <1>2, <1>3, Zenon DEF Stays

LEMMA Remained ==
    ASSUME NEW w, NEW r, r < LastRun, r \in Nat, NEW s, NEW k, NEW d, Phase(w, r, s, k, d),
           NEW l \in Nat \ {0}, NEW n \in Nat \ {0}, Sent(l, d, n),
           NEW p, Counted(w, p, s, k, n * SampleUs)
    PROVE  Stays(w, r, l - 1, p.sm)
<1>1. Sent(l - 1, d, n + 1)
  <2>1. PICK j \in Jitter : l + n = SampleCount(d) + j
    BY DEF Sent
  <2>2. (l - 1) + (n + 1) = SampleCount(d) + j
    BY <2>1
  <2> QED BY <2>2 DEF Sent
<1>2. Hears(w, p.sm, s, k) /\ p.sm.elapsed_us = ((n + 1) - 1) * SampleUs
  <2>1. (n + 1) - 1 = n
    OBVIOUS
  <2> QED BY <2>1, Zenon DEF Counted
<1>3. n + 1 \in Nat \ {0}
  OBVIOUS
<1>4. r # LastRun
  BY DeviceAssumption DEF LastRun
<1> QED BY <1>1, <1>2, <1>3, <1>4, Zenon DEF Stays

\* One more message.
LEMMA GotMore ==
    ASSUME NEW w, NEW g, NEW c \in Nat, Got(w, g, c), NEW D \in SUBSET Nat, D = Bits(w, MaxBits)
    PROVE  Got(w, Append(g, D), c + 1)
<1> DEFINE S == SUBSET Nat
<1>1. g \in Seq(S) /\ D \in S /\ Len(g) = c
  BY DEF Got
<1> HIDE DEF S
<1>2. /\ Append(g, D) \in Seq(S) /\ Len(Append(g, D)) = c + 1
      /\ Append(g, D)[c + 1] = D /\ \A x \in 1 .. c : Append(g, D)[x] = g[x]
  BY <1>1, AppendProperties
<1>3. ASSUME NEW x \in 1 .. c + 1 PROVE Append(g, D)[x] = Bits(w, MaxBits)
  <2>1. x \in 1 .. c \/ x = c + 1
    OBVIOUS
  <2>2. CASE x = c + 1
    BY <1>2, <2>2, Zenon
  <2>3. CASE x \in 1 .. c
    <3>1. g[x] = Bits(w, MaxBits)
      BY <2>3 DEF Got
    <3> QED BY <1>2, <2>3, <3>1, Zenon
  <2> QED BY <2>1, <2>2, <2>3
<1> QED BY <1>2, <1>3, Zenon DEF Got, S

OnAirIn(q, r) == r > 0 /\ q[r].value

Collected(g, p) == IF p.result = "output_ready" THEN Append(g, p.sm.data) ELSE g

\* A sample of the line, as the receiver hears it.
LEMMA SampleHeard ==
    ASSUME ShippedDevice, LineTolerated, NEW w, NEW c, NEW r, NEW l, NEW m, NEW g,
           Line(w, c, r, l, m, g), l > 0, NEW q, SignalOf(q, w, MaxBits),
           NEW b \in BOOLEAN, b <=> OnAirIn(q, r), NEW p, p = Process(m, b)
    PROVE  Line(w, c, r, l - 1, p.sm, Collected(g, p))
<1>1. w \in [1 .. MaxBits -> BOOLEAN] /\ c \in 0 .. Copies /\ l \in Nat \ {0} /\ l - 1 \in Nat
  BY DEF Line
<1>2. ASSUME NEW s, NEW k, NEW d, Phase(w, r, s, k, d)
      PROVE  b <=> s \in Pulsing
  <2>1. q[r].value <=> s \in Pulsing
    BY <1>2, PhaseRun
  <2>2. r \in 1 .. LastRun
    BY <1>1, <1>2, PhaseTypes
  <2>3. r > 0
    BY <2>2, DeviceAssumption DEF LastRun
  <2> QED BY <2>1, <2>3, Zenon DEF OnAirIn
<1>3. ASSUME p.result = "no_output" PROVE Collected(g, p) = g
  BY <1>3 DEF Collected
<1>4. CASE r = 0 /\ Rests(c, l, m) /\ Got(w, g, c)
  <2>1. ~b
    BY <1>4 DEF OnAirIn
  <2>2. IdleNoEdge(p, b)
    BY <1>4, <2>1, RestGoesOn, Zenon DEF Rests
  <2>3. p.result = "no_output" /\ Resting(p.sm) /\ p.sm.curr_state = "idle" /\ ~p.sm.prev_bit
    BY <2>1, <2>2, Zenon DEF IdleNoEdge
  <2>4. c < Copies => l - 1 <= Delay
    BY <1>1, <1>4, LinkAssumption DEF Rests
  <2>5. Rests(c, l - 1, p.sm)
    BY <2>3, <2>4, Zenon DEF Rests
  <2> QED BY <1>1, <1>3, <1>4, <2>3, <2>5, Zenon DEF Line
<1>5. CASE /\ c < Copies /\ r \in 1 .. LastRun /\ Got(w, g, c)
           /\ Starts(r, l, m) \/ Turns(w, r, l, m) \/ Stays(w, r, l, m)
  <2>1. ASSUME p.result = "no_output", Stays(w, r, l - 1, p.sm)
        PROVE  Line(w, c, r, l - 1, p.sm, Collected(g, p))
    BY <1>1, <1>3, <1>5, <2>1, Zenon DEF Line
  <2>2. CASE Starts(r, l, m)
    <3>1. Phase(w, r, "initial_bit_pulse", 0, PulseTime) /\ Sent(l, PulseTime, 0)
      BY <2>2 DEF Phase, Starts
    <3>2. b
      <4>1. b <=> "initial_bit_pulse" \in Pulsing
        BY <1>2, <3>1
      <4> QED BY <4>1 DEF Pulsing
    <3>3. Arrives(w, p, "initial_bit_pulse", 0)
      BY <2>2, <3>2, LeadStarts, Zenon DEF Starts
    <3>4. Stays(w, r, l - 1, p.sm)
      BY <1>1, <3>1, <3>3, Arrived, Zenon
    <3> QED BY <2>1, <3>3, <3>4 DEF Arrives
  <2>3. CASE Turns(w, r, l, m)
    <3>1. PICK s, k, d, z, x, e :
              /\ Phase(w, r, z, x, e) /\ Sent(l, e, 0)
              /\ NextPhase(w, s, k, d, z, x)
              /\ Hears(w, m, s, k) /\ MatchesDuration(m.elapsed_us, d)
      BY <2>3, Zenon DEF Turns
    <3>2. b <=> z \in Pulsing
      BY <1>2, <3>1
    <3>3. Arrives(w, p, z, x)
      BY <1>1, <3>1, <3>2, EdgeHeard, Zenon
    <3>4. Stays(w, r, l - 1, p.sm)
      BY <1>1, <3>1, <3>3, Arrived, Zenon
    <3> QED BY <2>1, <3>3, <3>4 DEF Arrives
  <2>4. CASE Stays(w, r, l, m)
    <3>1. PICK s, k, d : \E n \in Nat \ {0} :
              /\ Phase(w, r, s, k, d) /\ Sent(l, d, n) /\ (r = LastRun => n = 1)
              /\ Hears(w, m, s, k) /\ m.elapsed_us = (n - 1) * SampleUs
      BY <2>4, Zenon DEF Stays
    <3>2. PICK n \in Nat \ {0} :
              /\ Phase(w, r, s, k, d) /\ Sent(l, d, n) /\ (r = LastRun => n = 1)
              /\ Hears(w, m, s, k) /\ m.elapsed_us = (n - 1) * SampleUs
      BY <3>1
    <3>3. b <=> s \in Pulsing
      BY <1>2, <3>2
    <3>4. /\ r \in 1 .. LastRun /\ LastRun \in Nat /\ k \in 0 .. MaxBits /\ MaxBits \in Nat
          /\ r < LastRun <=> (s = "bit_pulse" => k < MaxBits)
      <4>1. MaxBits \in Nat /\ LastRun \in Nat
        BY DeviceAssumption DEF LastRun
      <4> QED BY <1>1, <3>2, <4>1, PhaseTypes
    <3>5. CASE r < LastRun
      <4>1. Counted(w, p, s, k, n * SampleUs)
        BY <1>1, <3>2, <3>3, <3>5, SampleCounted, Zenon
      <4>2. Stays(w, r, l - 1, p.sm)
        <5>1. r \in Nat
          BY <3>4
        <5> QED BY <1>1, <3>2, <3>5, <4>1, <5>1, Remained, Zenon
      <4> QED BY <2>1, <4>1, <4>2 DEF Counted
    <3>6. CASE r = LastRun
      <4>1. s = "bit_pulse" /\ k = MaxBits
        BY <3>4, <3>6
      <4>2. /\ p.result = "output_ready" /\ p.sm.data = Bits(w, MaxBits)
            /\ Resting(p.sm) /\ p.sm.prev_bit = b
        BY <3>2, <4>1, Completed, Zenon
      <4>3. b
        BY <3>3, <4>1 DEF Pulsing
      <4>4. Collected(g, p) = Append(g, Bits(w, MaxBits))
        BY <4>2 DEF Collected
      <4>5. Got(w, Collected(g, p), c + 1)
        <5>1. Bits(w, MaxBits) \in SUBSET Nat /\ c \in Nat
          BY <1>1, LinkAssumption, DeviceAssumption DEF Bits
        <5> QED BY <1>5, <4>4, <5>1, GotMore, Zenon
      <4> QED BY <1>1, <1>5, <3>6, <4>2, <4>3, <4>5, Zenon DEF Line
    <3> QED BY <3>4, <3>5, <3>6
  <2> QED BY <1>5, <2>2, <2>3, <2>4
<1>6. CASE c < Copies /\ r = LastRun /\ Resting(m) /\ m.prev_bit /\ Got(w, g, c + 1)
  <2>1. Phase(w, r, "bit_pulse", MaxBits, PulseTime)
    BY <1>6, DeviceAssumption DEF Phase, LastRun
  <2>2. b
    <3>1. b <=> "bit_pulse" \in Pulsing
      BY <1>2, <2>1
    <3> QED BY <3>1 DEF Pulsing
  <2>3. IdleNoEdge(p, b)
    BY <1>6, RestGoesOn, Zenon
  <2>4. p.result = "no_output" /\ Resting(p.sm) /\ p.sm.prev_bit
    BY <2>2, <2>3, Zenon DEF IdleNoEdge
  <2> QED BY <1>1, <1>3, <1>6, <2>4, Zenon DEF Line
<1> QED BY <1>4, <1>5, <1>6, Zenon DEF Line

\* The line has sent the samples of a run, or the delay before a copy, and
\* goes on to the next run.
LEMMA RunBegins ==
    ASSUME ShippedDevice, LineTolerated, Delay >= 1, NEW w, NEW c, NEW r, NEW m, NEW g,
           Line(w, c, r, 0, m, g), c < Copies, NEW q, SignalOf(q, w, MaxBits), r < Len(q),
           NEW j \in Jitter, NEW l, l = q[r + 1].length + j
    PROVE  Line(w, c, r + 1, l, m, g)
<1>1. w \in [1 .. MaxBits -> BOOLEAN] /\ c \in 0 .. Copies
  BY DEF Line
<1>2. Len(q) = LastRun /\ LastRun \in Nat /\ MaxBits \in Nat \ {0}
  BY DeviceAssumption DEF SignalOf, LastRun
<1>3. ASSUME NEW s, NEW k, NEW d, Phase(w, r + 1, s, k, d)
      PROVE  Sent(l, d, 0) /\ l \in Nat
  <2>1. q[r + 1].length = SampleCount(d)
    BY <1>3, PhaseRun
  <2>2. d \in LineDurations /\ d \in Nat
    BY <1>1, <1>3, PhaseTypes
  <2>3. SampleCount(d) \in Nat /\ j \in Int
    BY <2>2, SampleCountType, LinkAssumption
  <2>4. SampleCount(d) + j >= 2
    BY <2>2 DEF LineTolerated
  <2>5. l \in Nat /\ l + 0 = SampleCount(d) + j
    BY <2>1, <2>3, <2>4
  <2> QED BY <2>5 DEF Sent
<1>4. CASE r = 0 /\ Rests(c, 0, m) /\ Got(w, g, c)
  <2>1. Phase(w, r + 1, "initial_bit_pulse", 0, PulseTime)
    BY <1>4 DEF Phase
  <2>2. Sent(l, PulseTime, 0) /\ l \in Nat
    BY <1>3, <2>1
  <2>3. Resting(m) /\ m.curr_state = "idle" /\ ~m.prev_bit
    <3>1. 0 < Delay
      BY LinkAssumption
    <3> QED BY <1>4, <3>1, Zenon DEF Rests
  <2>4. r + 1 = 1 /\ r + 1 \in 1 .. LastRun
    BY <1>2, <1>4 DEF LastRun
  <2>5. Starts(r + 1, l, m)
    BY <2>2, <2>3, <2>4 DEF Starts
  <2> QED BY <1>1, <1>4, <2>2, <2>4, <2>5, Zenon DEF Line
<1>5. CASE /\ c < Copies /\ r \in 1 .. LastRun /\ Got(w, g, c)
           /\ Starts(r, 0, m) \/ Turns(w, r, 0, m) \/ Stays(w, r, 0, m)
  <2>1. ASSUME NEW d \in LineDurations, Sent(0, d, 0) PROVE FALSE
    <3>1. 0 \in Nat /\ ~(0 + 0 >= 2)
      OBVIOUS
    <3> QED BY <2>1, <3>1, OnTheLine
  <2>2. ~Starts(r, 0, m)
    <3>1. PulseTime \in LineDurations
      BY DEF LineDurations
    <3> QED BY <2>1, <3>1, Zenon DEF Starts
  <2>3. ~Turns(w, r, 0, m)
    <3> SUFFICES ASSUME NEW z, NEW x, NEW e, Phase(w, r, z, x, e), Sent(0, e, 0)
                 PROVE  FALSE
      BY Zenon DEF Turns
    <3>1. e \in LineDurations
      BY <1>1, PhaseTypes
    <3> QED BY <2>1, <3>1
  <2>4. Stays(w, r, 0, m)
    BY <1>5, <2>2, <2>3
  <2>5. PICK s, k, d : \E n \in Nat \ {0} :
            /\ Phase(w, r, s, k, d) /\ Sent(0, d, n) /\ (r = LastRun => n = 1)
            /\ Hears(w, m, s, k) /\ m.elapsed_us = (n - 1) * SampleUs
    BY <2>4, Zenon DEF Stays
  <2>6. PICK n \in Nat \ {0} :
            /\ Phase(w, r, s, k, d) /\ Sent(0, d, n) /\ (r = LastRun => n = 1)
            /\ Hears(w, m, s, k) /\ m.elapsed_us = (n - 1) * SampleUs
    BY <2>5
  <2>7. s = "bit_pulse" => k < MaxBits
    BY <1>1, <1>2, <2>6, PhaseTypes
  <2>8. MatchesDuration(m.elapsed_us, d)
    <3>1. d \in LineDurations
      BY <1>1, <2>6, PhaseTypes
    <3>2. MatchesDuration((0 + n - 1) * SampleUs, d)
      <4>1. 0 \in Nat /\ n \in Nat
        OBVIOUS
      <4> QED BY <2>6, <3>1, <4>1, OnTheLine
    <3>3. 0 + n - 1 = n - 1
      OBVIOUS
    <3> QED BY <2>6, <3>2, <3>3, Zenon
  <2>9. PICK z, x, e : NextPhase(w, s, k, d, z, x) /\ Phase(w, r + 1, z, x, e)
    BY <2>6, <2>7, PhaseFollows, Zenon
  <2>10. Sent(l, e, 0) /\ l \in Nat
    BY <1>3, <2>9
  <2>11. Turns(w, r + 1, l, m)
    BY <2>6, <2>8, <2>9, <2>10, Zenon DEF Turns
  <2>12. r + 1 \in 1 .. LastRun
    BY <1>2, <1>5
  <2> QED BY <1>1, <1>5, <2>10, <2>11, <2>12, Zenon DEF Line
<1>6. r # LastRun
  BY <1>2
<1> QED BY <1>4, <1>5, <1>6, Zenon DEF Line

\* The last run of the signal is over, and so is the copy.
LEMMA CopyEnds ==
    ASSUME ShippedDevice, LineTolerated, NEW w, NEW c, NEW r, NEW m, NEW g,
           Line(w, c, r, 0, m, g), c < Copies, NEW q, SignalOf(q, w, MaxBits), ~(r < Len(q)),
           NEW l, l = IF c + 1 = Copies THEN Flush ELSE Delay
    PROVE  Line(w, c + 1, 0, l, m, g)
<1>1. w \in [1 .. MaxBits -> BOOLEAN] /\ c \in 0 .. Copies /\ Copies \in Nat
  BY LinkAssumption DEF Line
<1>2. Len(q) = LastRun /\ LastRun \in Nat \ {0}
  BY DeviceAssumption DEF SignalOf, LastRun
<1>3. r = LastRun
  BY <1>2 DEF Line
<1>4. ~(Starts(r, 0, m) \/ Turns(w, r, 0, m) \/ Stays(w, r, 0, m))
  <2>1. ASSUME NEW d \in LineDurations, NEW n \in Nat, n <= 1, Sent(0, d, n) PROVE FALSE
    <3>1. 0 \in Nat /\ ~(0 + n >= 2)
      BY <2>1
    <3> QED BY <2>1, <3>1, OnTheLine
  <2>2. 0 \in Nat /\ 0 <= 1 /\ 1 \in Nat /\ 1 <= 1
    OBVIOUS
  <2>3. ~Starts(r, 0, m)
    <3>1. PulseTime \in LineDurations
      BY DEF LineDurations
    <3> QED BY <2>1, <2>2, <3>1, Zenon DEF Starts
  <2>4. ~Turns(w, r, 0, m)
    <3> SUFFICES ASSUME NEW z, NEW x, NEW e, Phase(w, r, z, x, e), Sent(0, e, 0)
                 PROVE  FALSE
      BY Zenon DEF Turns
    <3>1. e \in LineDurations
      BY <1>1, PhaseTypes
    <3> QED BY <2>1, <2>2, <3>1
  <2>5. ~Stays(w, r, 0, m)
    <3> SUFFICES ASSUME NEW s, NEW k, NEW d, NEW n \in Nat \ {0},
                        Phase(w, r, s, k, d), Sent(0, d, n), r = LastRun => n = 1
                 PROVE  FALSE
      BY Zenon DEF Stays
    <3>1. d \in LineDurations
      BY <1>1, PhaseTypes
    <3>2. Sent(0, d, 1)
      BY <1>3, Zenon
    <3> QED BY <2>1, <2>2, <3>1, <3>2
  <2> QED BY <2>3, <2>4, <2>5
<1>5. Resting(m) /\ Got(w, g, c + 1)
  <2>1. r # 0
    BY <1>2, <1>3
  <2> QED BY <1>4, <2>1, Zenon DEF Line
<1>6. c + 1 \in 0 .. Copies /\ l \in Nat
  BY <1>1, LinkAssumption
<1>7. Rests(c + 1, l, m)
  <2>1. c + 1 < Copies => l <= Delay /\ ~(l < Delay)
    <3>1. ASSUME c + 1 < Copies PROVE l = Delay
      BY <1>1, <3>1
    <3> QED BY <3>1, LinkAssumption
  <2> QED BY <1>5, <2>1, Zenon DEF Rests
<1> QED BY <1>1, <1>5, <1>6, <1>7, Zenon DEF Line

LineInv ==
    /\ Line(message, copy, run, left, rx, received)
    /\ run # 0 => pc = "done"

\* LineInv over the values of the next state.
LEMMA LineAfter ==
    ASSUME NEW w, NEW c, NEW r, NEW l, NEW m, NEW g, Line(w, c, r, l, m, g),
           message' = w, copy' = c, run' = r, left' = l, rx' = m, received' = g,
           r # 0 => pc' = "done"
    PROVE  LineInv'
<1>1. Line(message', copy', run', left', rx', received')
  BY Zenon
<1>2. Line(message, copy, run, left, rx, received)'
  BY <1>1
<1> QED BY <1>2, Zenon DEF LineInv

LEMMA InitLine == ShippedDevice /\ RTInit => LineInv
<1> SUFFICES ASSUME ShippedDevice, RTInit PROVE LineInv
  OBVIOUS
<1>1. /\ message \in [1 .. MaxBits -> BOOLEAN] /\ copy = 0 /\ run = 0 /\ left = Delay
      /\ rx = InitialMachine /\ received = <<>>
  BY DEF RTInit, Init, StartsWith
<1>2. Resting(rx)
  <2>1. rx \in Rec /\ rx.curr_state = "reset" /\ rx.data = {}
    BY <1>1, ShippedStates, ShippedDevice DEF InitialMachine, Rec, ShippedDevice
  <2> QED BY <2>1 DEF Resting
<1>3. 0 \in 0 .. Copies /\ left \in Nat /\ left <= Delay /\ ~(left < Delay)
  BY <1>1, LinkAssumption
<1>4. Got(message, received, 0)
  BY <1>1 DEF Got
<1> QED BY <1>1, <1>2, <1>3, <1>4 DEF LineInv, Line, Rests

LEMMA NextLine ==
    ASSUME ShippedDevice, LineTolerated, Delay >= 1, SignalInv, LineInv, [RTNext]_rtVars
    PROVE  LineInv'
<1>1. Line(message, copy, run, left, rx, received) /\ (run # 0 => pc = "done")
  BY DEF LineInv
<1>2. CASE UNCHANGED rtVars
  BY <1>1, <1>2, LineAfter DEF rtVars, txVars, lineVars, rxVars
<1>3. CASE Generate
  <2>1. message' = message /\ UNCHANGED <<copy, run, left, rx, received>> /\ pc = "generate"
    BY <1>3 DEF Generate, HandleTx, Fail, lineVars, rxVars
  <2>2. run = 0
    BY <1>1, <2>1
  <2> QED BY <1>1, <2>1, <2>2, LineAfter
<1>4. CASE Send
  <2>1. /\ pc = "done" /\ left > 0 /\ left' = left - 1
        /\ message' = message /\ pc' = pc /\ copy' = copy /\ run' = run
        /\ rx' = Process(rx, OnAir).sm
        /\ received' = Collected(received, Process(rx, OnAir))
    BY <1>4 DEF Send, Collected, txVars
  <2>2. SignalOf(runs, message, MaxBits)
    BY <2>1 DEF SignalInv
  <2>3. PICK b \in BOOLEAN : b = OnAir /\ (b <=> OnAirIn(runs, run))
    BY DEF OnAir, OnAirIn
  <2>4. PICK p : p = Process(rx, b)
    OBVIOUS
  <2>5. Line(message, copy, run, left - 1, p.sm, Collected(received, p))
    BY <1>1, <2>1, <2>2, <2>3, <2>4, SampleHeard, Zenon
  <2>6. rx' = p.sm /\ received' = Collected(received, p)
    BY <2>1, <2>3, <2>4, Zenon
  <2> QED BY <2>1, <2>5, <2>6, LineAfter
<1>5. CASE NextRun
  <2>1. /\ pc = "done" /\ left = 0 /\ copy < Copies
        /\ message' = message /\ pc' = pc /\ rx' = rx /\ received' = received
    BY <1>5 DEF NextRun, txVars, rxVars
  <2>2. SignalOf(runs, message, MaxBits)
    BY <2>1 DEF SignalInv
  <2>3. Line(message, copy, run, 0, rx, received)
    BY <1>1, <2>1
  <2>4. CASE run < Len(runs)
    <3>1. PICK j \in Jitter : left' = runs[run + 1].length + j
      BY <1>5, <2>4 DEF NextRun
    <3>2. run' = run + 1 /\ copy' = copy
      BY <1>5, <2>4 DEF NextRun
    <3>3. PICK l : l = left'
      OBVIOUS
    <3>4. Line(message, copy, run + 1, l, rx, received)
      BY <2>1, <2>2, <2>3, <2>4, <3>1, <3>3, RunBegins, Zenon
    <3> QED BY <2>1, <3>2, <3>3, <3>4, LineAfter
  <2>5. CASE ~(run < Len(runs))
    <3>1. run' = 0 /\ copy' = copy + 1
      BY <1>5, <2>5 DEF NextRun
    <3>2. PICK l : l = IF copy + 1 = Copies THEN Flush ELSE Delay
      OBVIOUS
    <3>3. left' = l
      BY <1>5, <2>5, <3>2 DEF NextRun
    <3>4. Line(message, copy + 1, 0, l, rx, received)
      BY <2>1, <2>2, <2>3, <2>5, <3>2, CopyEnds, Zenon
    <3> QED BY <2>1, <3>1, <3>3, <3>4, LineAfter
  <2> QED BY <2>4, <2>5
<1> QED BY <1>2, <1>3, <1>4, <1>5 DEF RTNext

\* Whatever the length of the messages and the number of copies, at every rate
\* at which the signal is written whole: over a line that its tolerances bear,
\* the receiver of the shipped device waits in its first state, on a low level,
\* before each copy that ookiedokie_tx() sends.
THEOREM ReceiverIsReady ==
    ASSUME ShippedDevice, RateFits, MessageFits, LineTolerated, Delay >= 1
    PROVE  RTSpec => []ReadyForNextCopy
<1>1. RTInit => GenInv /\ SignalInv /\ LineInv
  BY InitGen, InitSignal, InitLine DEF RTInit
<1>2. GenInv /\ SignalInv /\ LineInv /\ [RTNext]_rtVars => (GenInv /\ SignalInv /\ LineInv)'
  <2>1. [RTNext]_rtVars => [HandleTx]_txVars
    BY DEF RTNext, Generate, Send, NextRun, rtVars
  <2> QED BY <2>1, NextSignal, NextLine
<1>3. LineInv => ReadyForNextCopy
  <2> SUFFICES ASSUME LineInv, run = 0, left = 0, copy < Copies
               PROVE  rx.curr_state = "idle" /\ ~rx.prev_bit
    BY DEF ReadyForNextCopy
  <2>1. LastRun \in Nat \ {0} /\ 0 < Delay
    BY DeviceAssumption, LinkAssumption DEF LastRun
  <2>2. run \notin 1 .. LastRun /\ run # LastRun
    BY <2>1
  <2>3. Rests(copy, left, rx)
    BY <2>2, Zenon DEF LineInv, Line
  <2> QED BY <2>1, <2>3 DEF Rests
<1> QED BY <1>1, <1>2, <1>3, PTL DEF RTSpec

\* The bits of a message that was received are the bits that were sent.
LEMMA SameBits ==
    ASSUME NEW w \in [1 .. MaxBits -> BOOLEAN]
    PROVE  BitsOf(Bits(w, MaxBits)) = w
<1>1. MaxBits \in Nat
  BY DeviceAssumption
<1>2. PICK B : B = Bits(w, MaxBits)
  OBVIOUS
<1>3. ASSUME NEW k \in 1 .. MaxBits PROVE (k - 1 \in B) = w[k]
  <2>1. k - 1 \in 0 .. MaxBits - 1 /\ (k - 1) + 1 = k
    BY <1>1
  <2>2. B = {x \in 0 .. MaxBits - 1 : w[x + 1]}
    BY <1>2 DEF Bits
  <2>3. k - 1 \in B <=> w[(k - 1) + 1]
    BY <2>1, <2>2, Zenon
  <2>4. k - 1 \in B <=> w[k]
    BY <2>1, <2>3, Zenon
  <2>5. w[k] = TRUE \/ w[k] = FALSE
    OBVIOUS
  <2>6. CASE w[k] = TRUE
    <3>1. (k - 1 \in B) = TRUE
      BY <2>4, <2>6
    <3> QED BY <2>6, <3>1, Zenon
  <2>7. CASE w[k] = FALSE
    <3>1. (k - 1 \in B) = FALSE
      BY <2>4, <2>7
    <3> QED BY <2>7, <3>1, Zenon
  <2> QED BY <2>5, <2>6, <2>7
<1>4. BitsOf(B) = [k \in 1 .. MaxBits |-> w[k]]
  BY <1>3, Zenon DEF BitsOf
<1>5. w = [k \in 1 .. MaxBits |-> w[k]]
  OBVIOUS
<1> QED BY <1>2, <1>4, <1>5, Zenon

\* What MessageLink sees of the messages received.
Seen(g) == [k \in DOMAIN g |-> BitsOf(g[k])]

LEMMA SeenMore ==
    ASSUME NEW w \in [1 .. MaxBits -> BOOLEAN], NEW g \in Seq(SUBSET Nat),
           NEW h \in Seq(SUBSET Nat), NEW c \in Nat, Len(g) = c, Len(h) = c + 1,
           \A x \in 1 .. c : h[x] = g[x], h[c + 1] = Bits(w, MaxBits)
    PROVE  Seen(h) = Append(Seen(g), w)
<1> DEFINE M == [1 .. MaxBits -> BOOLEAN]
<1>1. DOMAIN g = 1 .. c /\ DOMAIN h = 1 .. c + 1
  OBVIOUS
<1>2. ASSUME NEW d PROVE BitsOf(d) \in M
  BY DEF BitsOf
<1>3. w \in M
  OBVIOUS
<1>4. BitsOf(Bits(w, MaxBits)) = w
  BY SameBits
<1> HIDE DEF M
<1>5. PICK s \in Seq(M) : s = Seen(g) /\ Len(s) = c /\ \A x \in 1 .. c : s[x] = BitsOf(g[x])
  <2>1. Seen(g) = [k \in 1 .. c |-> BitsOf(g[k])]
    BY <1>1, Zenon DEF Seen
  <2> QED BY <1>2, <2>1
<1>6. PICK t \in Seq(M) : t = Seen(h) /\ Len(t) = c + 1 /\ \A x \in 1 .. c + 1 : t[x] = BitsOf(h[x])
  <2>1. Seen(h) = [k \in 1 .. c + 1 |-> BitsOf(h[k])]
    BY <1>1, Zenon DEF Seen
  <2> QED BY <1>2, <2>1
<1>7. PICK a \in Seq(M) : /\ a = Append(s, w) /\ Len(a) = c + 1 /\ a[c + 1] = w
                          /\ \A x \in 1 .. c : a[x] = s[x]
  <2>1. /\ Append(s, w) \in Seq(M) /\ Len(Append(s, w)) = Len(s) + 1
        /\ Append(s, w)[Len(s) + 1] = w /\ \A x \in 1 .. Len(s) : Append(s, w)[x] = s[x]
    BY <1>3, AppendProperties
  <2> QED BY <1>5, <2>1, Zenon
<1>8. ASSUME NEW x \in 1 .. c + 1 PROVE t[x] = a[x]
  <2>1. CASE x = c + 1
    <3>1. c + 1 \in 1 .. c + 1
      OBVIOUS
    <3>2. t[c + 1] = BitsOf(h[c + 1])
      BY <1>6, <3>1, Zenon
    <3> QED BY <1>4, <1>7, <2>1, <3>2, Zenon
  <2>2. CASE x \in 1 .. c
    <3>1. t[x] = BitsOf(h[x]) /\ a[x] = BitsOf(g[x]) /\ h[x] = g[x]
      BY <1>5, <1>6, <1>7, <2>2
    <3> QED BY <3>1, Zenon
  <2>3. x = c + 1 \/ x \in 1 .. c
    OBVIOUS
  <2> QED BY <2>1, <2>2, <2>3
<1>9. t = a
  BY <1>6, <1>7, <1>8, SeqEqual
<1> QED BY <1>5, <1>6, <1>7, <1>9, Zenon

\* A message is received while fewer than Copies have been, and it is the one
\* that was sent.
LEMMA LinkStep ==
    ASSUME LineInv, LineInv', [RTNext]_rtVars
    PROVE  [Link!Deliver]_(Link!linkVars)
<1>1. message' = message
  BY DEF RTNext, Generate, HandleTx, Fail, Send, NextRun, rtVars, txVars
<1>2. CASE received' = received
  BY <1>1, <1>2 DEF Link!linkVars
<1>3. CASE received' # received
  <2>1. Send /\ copy' = copy /\ run' = run
    BY <1>3 DEF RTNext, Generate, Send, NextRun, rtVars, rxVars
  <2>2. PICK D : received' = Append(received, D)
    BY <1>3, <2>1 DEF Send
  <2>3. PICK c \in 0 .. Copies : c = copy
    BY DEF LineInv, Line
  <2>4. Copies \in Nat /\ c \in Nat
    BY <2>3, LinkAssumption
  <2>5. PICK w \in [1 .. MaxBits -> BOOLEAN] : w = message
    BY DEF LineInv, Line
  <2>6. \E n \in {c, c + 1} : Got(w, received, n)
    BY <2>3, <2>5, Zenon DEF LineInv, Line
  <2>7. /\ Got(w, received', c) \/ Got(w, received', c + 1)
        /\ Got(w, received', c) \/ c < Copies
    <3>1. Line(message', copy', run', left', rx', received')
      BY Zenon DEF LineInv
    <3>2. Line(w, c, run', left', rx', received')
      BY <1>1, <2>1, <2>3, <2>5, <3>1, Zenon
    <3> QED BY <3>2, Zenon DEF Line
  <2>8. PICK g \in Seq(SUBSET Nat) : g = received
    BY <2>6 DEF Got
  <2>9. PICK h \in Seq(SUBSET Nat) : h = received'
    BY <2>7 DEF Got
  <2>10. Len(h) = Len(g) + 1 /\ \A x \in 1 .. Len(g) : h[x] = g[x]
    BY <2>2, <2>8, <2>9
  <2>11. Len(g) = c /\ Got(w, h, c + 1) /\ c < Copies
    <3>1. Len(g) = c \/ Len(g) = c + 1
      BY <2>6, <2>8 DEF Got
    <3>2. Got(w, h, c) => Len(h) = c
      BY DEF Got
    <3>3. Got(w, h, c + 1) => Len(h) = c + 1
      BY DEF Got
    <3>4. ~Got(w, h, c)
      BY <2>4, <2>10, <3>1, <3>2
    <3> QED BY <2>4, <2>7, <2>9, <2>10, <3>1, <3>3, <3>4
  <2>12. /\ Len(h) = c + 1 /\ \A x \in 1 .. c : h[x] = g[x]
         /\ h[c + 1] = Bits(w, MaxBits)
    BY <2>4, <2>10, <2>11 DEF Got
  <2>13. Seen(h) = Append(Seen(g), w)
    BY <2>4, <2>11, <2>12, SeenMore
  <2>14. Len(Seen(g)) < Copies
    <3>1. Seen(g) = [k \in 1 .. c |-> BitsOf(g[k])]
      <4>1. DOMAIN g = 1 .. c
        BY <2>11
      <4> QED BY <4>1, Zenon DEF Seen
    <3> QED BY <2>4, <2>11, <3>1
  <2>15. Link!Deliver
    BY <1>1, <2>5, <2>8, <2>9, <2>13, <2>14 DEF Link!Deliver, Seen
  <2> QED BY <2>15
<1> QED BY <1>2, <1>3

\* The receiver prints the message that was sent, no more often than it was
\* sent, and nothing else: the safety part of MessageLink.
THEOREM DeliversTheMessage ==
    ASSUME ShippedDevice, RateFits, MessageFits, LineTolerated, Delay >= 1
    PROVE  RTSpec => Link!SafeSpec
<1>1. RTInit => GenInv /\ SignalInv /\ LineInv
  BY InitGen, InitSignal, InitLine DEF RTInit
<1>2. GenInv /\ SignalInv /\ LineInv /\ [RTNext]_rtVars => (GenInv /\ SignalInv /\ LineInv)'
  <2>1. [RTNext]_rtVars => [HandleTx]_txVars
    BY DEF RTNext, Generate, Send, NextRun, rtVars
  <2> QED BY <2>1, NextSignal, NextLine
<1>3. LineInv /\ LineInv' /\ [RTNext]_rtVars => [Link!Deliver]_(Link!linkVars)
  BY LinkStep
<1>4. RTInit => Link!Init
  BY DEF RTInit, Init, StartsWith, Link!Init
<1> QED BY <1>1, <1>2, <1>3, <1>4, PTL DEF RTSpec, Link!SafeSpec
=============================================================================
