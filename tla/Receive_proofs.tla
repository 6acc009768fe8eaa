---------------------------- MODULE Receive_proofs ----------------------------
(***************************************************************************)
(* Theorems about receiving, for every device description, every list of   *)
(* fields, any samples and all buffers: first the state machine alone,     *)
(* which never aggregates more than num_bits bits and outputs the bits it  *)
(* heard when its description is well formed; then the list alone; then    *)
(* device_process(), which implements both, gives the machine each sample  *)
(* once, and formats every message in time.                                *)
(***************************************************************************)
EXTENDS DeviceProcess, WellFoundedInduction, SequenceTheorems, TLAPS

-----------------------------------------------------------------------------
(* The operators of handle_rx_triggers().                                  *)

\* A nonempty set of positions has a first one.
LEMMA FirstPosition ==
    ASSUME NEW n \in Nat, NEW S \in SUBSET (1 .. n), S # {}
    PROVE  Min(S) \in S /\ \A j \in S : Min(S) <= j
<1> DEFINE R == {ss \in Nat \X Nat : ss[1] < ss[2]}
<1>1. IsWellFoundedOn(R, Nat)
  BY NatLessThanWellFounded, Zenon DEF OpToRel
<1>2. PICK x \in S : \A y \in S : ~ (<<y, x>> \in R)
  <2> HIDE DEF R
  <2>1. S \subseteq Nat
    OBVIOUS
  <2> QED BY <1>1, <2>1, WFMin, Zenon
<1>3. \A y \in S : x <= y
  <2>1. ASSUME NEW y \in S, y < x
        PROVE  FALSE
    <3>1. /\ <<y, x>> \in Nat \X Nat
          /\ <<y, x>>[1] < <<y, x>>[2]
      BY <2>1
    <3>2. <<y, x>> \in R
      BY <3>1, Zenon
    <3> QED BY <3>2, <1>2, Zenon
  <2> QED BY <2>1
<1> QED BY <1>3 DEF Min

\* What the assumption says of a state, piece by piece.
LEMMA DeviceTypes ==
    /\ Reset \in States
    /\ MaxBits \in Nat \ {0}
    /\ SampleUs \in Nat \ {0}
    /\ ElapsedCap \in Nat
    /\ \A s \in States : /\ Triggers[s] \in Seq(Trigger)
                         /\ Duration[s] \in Nat
                         /\ Timeout[s] \in Nat
BY DeviceAssumption

\* The active trigger is one of the current state's, and its conditions hold.
LEMMA ActiveTriggerIsSatisfied ==
    ASSUME NEW m \in Machine, NEW b \in BOOLEAN, Satisfied(m, b) # {}
    PROVE  LET t == ActiveTrigger(m, b)
           IN  /\ Min(Satisfied(m, b)) \in 1 .. Len(Triggers[m.curr_state])
               /\ t \in Trigger
               /\ ConditionHolds(m, b, t)
               /\ MatchesDuration(m.elapsed_us, t.duration_us)
               /\ \A j \in Satisfied(m, b) : Min(Satisfied(m, b)) <= j
<1> DEFINE n == Len(Triggers[m.curr_state])
           first == Min(Satisfied(m, b))
<1>1. /\ Triggers[m.curr_state] \in Seq(Trigger)
      /\ n \in Nat
      /\ DOMAIN Triggers[m.curr_state] = 1 .. n
  BY DeviceTypes DEF Machine
<1>2. Satisfied(m, b) \in SUBSET (1 .. n)
  BY <1>1 DEF Satisfied
<1>3. first \in Satisfied(m, b) /\ \A j \in Satisfied(m, b) : first <= j
  BY <1>1, <1>2, FirstPosition
<1>4. first \in 1 .. n
  BY <1>2, <1>3
<1>5. Triggers[m.curr_state][first] \in Trigger
  BY <1>1, <1>4
<1> QED BY <1>3, <1>4, <1>5 DEF ActiveTrigger, Satisfied

\* What each part of handle_rx_triggers() does to the machine's fields.
LEMMA WaitType ==
    ASSUME NEW m \in Machine
    PROVE  Wait(m) \in Machine
<1>1. (IF m.elapsed_us + SampleUs > ElapsedCap THEN ElapsedCap
       ELSE m.elapsed_us + SampleUs) \in 0 .. ElapsedCap
  BY DeviceTypes DEF Machine
<1> QED BY <1>1 DEF Wait, Machine

LEMMA AbortType ==
    ASSUME NEW m \in Machine
    PROVE  Abort(m) \in Machine
<1>1. Reset \in States /\ 0 \in 0 .. ElapsedCap
  BY DeviceTypes
<1> QED BY <1>1 DEF Abort, Machine

LEMMA HandleActionsType ==
    ASSUME NEW m \in Machine, NEW t \in Trigger
    PROVE  HandleActions(m, t) \in Machine
<1>1. m.num_bits \in 0 .. MaxBits + 1 /\ m.data \subseteq BufferBits \cup {MaxBits}
  BY DEF Machine
<1>2. m.num_bits <= MaxBits => m.num_bits \in BufferBits \cup {MaxBits}
  BY <1>1, DeviceTypes DEF BufferBits
<1>3. AppendDataBit(m, t.action) \subseteq BufferBits \cup {MaxBits}
  BY <1>1, <1>2 DEF AppendDataBit
<1>4. (IF m.num_bits > MaxBits THEN m.num_bits ELSE m.num_bits + 1) \in 0 .. MaxBits + 1
  BY <1>1, DeviceTypes
<1> QED BY <1>3, <1>4 DEF HandleActions, Machine

LEMMA ClearMessageType ==
    ASSUME NEW m \in Machine
    PROVE  ClearMessage(m) \in Machine
<1>1. 0 \in 0 .. MaxBits + 1
  BY DeviceTypes
<1>2. m.data \ BufferBits \subseteq BufferBits \cup {MaxBits}
  BY DEF Machine
<1> QED BY <1>1, <1>2 DEF ClearMessage, Machine

LEMMA FireType ==
    ASSUME NEW m \in Machine, NEW t \in Trigger
    PROVE  Fire(m, t) \in Machine
<1>1. t.next_state \in States /\ 0 \in 0 .. ElapsedCap
  BY DeviceTypes DEF Trigger
<1>2. HandleActions(m, t) \in Machine
  BY HandleActionsType
<1> QED BY <1>1, <1>2 DEF Fire, Machine

\* handle_rx_triggers() keeps the machine a machine.
LEMMA HandleRxTriggersType ==
    ASSUME NEW m \in Machine, NEW b \in BOOLEAN
    PROVE  /\ HandleRxTriggers(m, b).sm \in Machine
           /\ HandleRxTriggers(m, b).result \in Results
           /\ HandleRxTriggers(m, b).appended \in Seq(AppendActions)
<1> DEFINE t == ActiveTrigger(m, b)
<1>1. CASE Satisfied(m, b) = {}
  BY <1>1, WaitType DEF HandleRxTriggers, Outcome, Results
<1>2. CASE Satisfied(m, b) # {} /\ ~MatchesStateDuration(m, t)
  BY <1>2, AbortType DEF HandleRxTriggers, Outcome, Results
<1>3. CASE Satisfied(m, b) # {} /\ MatchesStateDuration(m, t)
  <2>1. t \in Trigger
    BY <1>3, ActiveTriggerIsSatisfied
  <2>2. Fire(m, t) \in Machine
    BY <2>1, FireType
  <2> QED BY <1>3, <2>2 DEF HandleRxTriggers, Outcome, Results
<1> QED BY <1>1, <1>2, <1>3

\* So does process(), which also records the sample.
LEMMA ProcessType ==
    ASSUME NEW m \in Machine, NEW b \in BOOLEAN
    PROVE  /\ Process(m, b).sm \in Machine
           /\ Process(m, b).result \in Results
           /\ Process(m, b).appended \in Seq(AppendActions)
<1>1. ClearMessage(m) \in Machine
  BY ClearMessageType
<1> DEFINE first == HandleRxTriggers(ClearMessage(m), b)
           second == HandleRxTriggers(first.sm, b)
           direct == HandleRxTriggers(m, b)
<1>2. /\ first.sm \in Machine
      /\ first.result \in Results
      /\ first.appended \in Seq(AppendActions)
  BY <1>1, HandleRxTriggersType
<1>3. /\ second.sm \in Machine
      /\ second.result \in Results
      /\ second.appended \in Seq(AppendActions)
  BY <1>2, HandleRxTriggersType
<1>4. /\ direct.sm \in Machine
      /\ direct.result \in Results
      /\ direct.appended \in Seq(AppendActions)
  BY HandleRxTriggersType
<1>5. CASE m.curr_state # Reset
  BY <1>5, <1>4 DEF Process, Outcome, Machine
<1>6. CASE m.curr_state = Reset /\ first.result # "no_output"
  BY <1>6, <1>2 DEF Process, Outcome, Machine
<1>7. CASE m.curr_state = Reset /\ first.result = "no_output"
  BY <1>7, <1>2, <1>3, ConcatProperties DEF Process, Outcome, Machine
<1> QED BY <1>5, <1>6, <1>7

-----------------------------------------------------------------------------
(* Type correctness.                                                       *)

\* Every step of every device's machine leaves it a machine (all of
\* state_machine.c's receive path).
THEOREM TypeCorrect == RxSpec => []RxTypeOK
<1>1. RxInit => RxTypeOK
  BY DeviceTypes DEF RxInit, InitialMachine, RxTypeOK, Machine, Results
<1>2. RxTypeOK /\ [RxNext]_rxVars => RxTypeOK'
  <2> SUFFICES ASSUME RxTypeOK, [RxNext]_rxVars
               PROVE  RxTypeOK'
    OBVIOUS
  <2>1. ASSUME NEW b \in BOOLEAN, Sample(b)
        PROVE  RxTypeOK'
    <3>1. /\ Process(sm, b).sm \in Machine
          /\ Process(sm, b).result \in Results
          /\ Process(sm, b).appended \in Seq(AppendActions)
      BY ProcessType DEF RxTypeOK
    <3>2. Kept(sm, heard) \in Seq(AppendActions)
      BY DEF RxTypeOK, Kept
    <3> QED BY <2>1, <3>1, <3>2, ConcatProperties DEF Sample, RxTypeOK
  <2>2. CASE UNCHANGED rxVars
    BY <2>2 DEF rxVars, RxTypeOK
  <2> QED BY <2>1, <2>2 DEF RxNext
<1> QED BY <1>1, <1>2, PTL DEF RxSpec

-----------------------------------------------------------------------------
(* Well formed devices.                                                    *)

\* With a full buffer in a guarded state, msg_complete takes the sample.
LEMMA FullBufferDoesNotAppend ==
    ASSUME NEW m \in Machine, NEW b \in BOOLEAN,
           m.num_bits = MaxBits, Guarded(m.curr_state)
    PROVE  /\ Satisfied(m, b) # {}
           /\ ActiveTrigger(m, b) = Triggers[m.curr_state][1]
<1>1. 1 \in DOMAIN Triggers[m.curr_state]
  BY DeviceTypes DEF Guarded, Machine
<1>2. 1 \in Satisfied(m, b)
  <2>1. MatchesDuration(m.elapsed_us, Triggers[m.curr_state][1].duration_us)
    BY DEF Guarded, MatchesDuration
  <2>2. ConditionHolds(m, b, Triggers[m.curr_state][1])
    BY DeviceTypes DEF Guarded, ConditionHolds
  <2> QED BY <1>1, <2>1, <2>2 DEF Satisfied
<1>3. Min(Satisfied(m, b)) \in 1 .. Len(Triggers[m.curr_state])
      /\ Min(Satisfied(m, b)) <= 1
  BY <1>2, ActiveTriggerIsSatisfied
<1>4. Min(Satisfied(m, b)) = 1
  BY <1>3, DeviceTypes DEF Machine
<1> QED BY <1>2, <1>4 DEF ActiveTrigger

\* Appending one bit where there is room appends it to what was heard.
LEMMA AppendKeepsMessage ==
    ASSUME NEW m \in Machine, NEW h \in Seq(AppendActions), NEW t \in Trigger,
           t.action \in AppendActions, MessageHeard(m, h), m.num_bits < MaxBits
    PROVE  /\ Fire(m, t).num_bits = m.num_bits + 1
           /\ Fire(m, t).curr_state = t.next_state
           /\ MessageHeard(Fire(m, t), h \o <<t.action>>)
<1> DEFINE n == m.num_bits
           g == h \o <<t.action>>
<1>1. /\ n \in Nat /\ n < MaxBits /\ MaxBits \in Nat
      /\ Len(h) = n
      /\ m.data = {k \in 0 .. n - 1 : h[k + 1] = "append_1"}
  BY DeviceTypes DEF Machine, MessageHeard
<1>2. /\ Fire(m, t).num_bits = n + 1
      /\ Fire(m, t).curr_state = t.next_state
      /\ Fire(m, t).data = IF t.action = "append_1" THEN m.data \cup {n} ELSE m.data \ {n}
  BY <1>1 DEF Fire, HandleActions, AppendDataBit, Machine
<1>3. /\ Len(g) = n + 1
      /\ \A k \in 0 .. n - 1 : g[k + 1] = h[k + 1]
      /\ g[n + 1] = t.action
  <2>1. <<t.action>> \in Seq(AppendActions) /\ Len(<<t.action>>) = 1
    OBVIOUS
  <2>2. /\ Len(g) = n + 1
        /\ \A k \in 1 .. n + 1 : g[k] = IF k <= n THEN h[k] ELSE <<t.action>>[k - n]
    BY <1>1, <2>1, ConcatProperties
  <2> QED BY <1>1, <2>2
<1>4. Fire(m, t).data = {k \in 0 .. n : g[k + 1] = "append_1"}
  BY <1>1, <1>2, <1>3 DEF AppendActions
<1> QED BY <1>1, <1>2, <1>3, <1>4 DEF MessageHeard

\* One pass over the triggers, with room for a bit or guarded, keeps the
\* message and leaves room or a safe state.
LEMMA HandleRxTriggersKeepsMessage ==
    ASSUME WellFormed, NEW m \in Machine, NEW b \in BOOLEAN,
           NEW h \in Seq(AppendActions), MessageHeard(m, h),
           m.num_bits <= MaxBits,
           m.num_bits = MaxBits => Guarded(m.curr_state)
    PROVE  LET out == HandleRxTriggers(m, b)
           IN  MessageHeard(out.sm, h \o out.appended) /\ RoomOrSafe(out.sm)
<1> DEFINE t == ActiveTrigger(m, b)
           out == HandleRxTriggers(m, b)
<1>1. CASE Satisfied(m, b) = {}
  <2>1. out.sm = Wait(m) /\ out.appended = <<>>
    BY <1>1 DEF HandleRxTriggers, Outcome
  <2>2. /\ Wait(m).num_bits = m.num_bits
        /\ Wait(m).data = m.data
        /\ Wait(m).curr_state = m.curr_state
    BY DEF Wait, Machine
  <2>3. h \o <<>> = h
    BY ConcatEmptySeq
  <2> QED BY <2>1, <2>2, <2>3 DEF MessageHeard, RoomOrSafe, SafeTarget
<1>2. CASE Satisfied(m, b) # {} /\ ~MatchesStateDuration(m, t)
  <2>1. out.sm = Abort(m) /\ out.appended = <<>>
    BY <1>2 DEF HandleRxTriggers, Outcome
  <2>2. /\ Abort(m).num_bits = m.num_bits
        /\ Abort(m).data = m.data
        /\ Abort(m).curr_state = Reset
    BY DEF Abort, Machine
  <2>3. h \o <<>> = h
    BY ConcatEmptySeq
  <2> QED BY <2>1, <2>2, <2>3 DEF MessageHeard, RoomOrSafe, SafeTarget
<1>3. CASE Satisfied(m, b) # {} /\ MatchesStateDuration(m, t)
  <2>1. /\ t \in Trigger
        /\ \E k \in DOMAIN Triggers[m.curr_state] : t = Triggers[m.curr_state][k]
    <3>1. /\ t \in Trigger
          /\ Min(Satisfied(m, b)) \in 1 .. Len(Triggers[m.curr_state])
          /\ t = Triggers[m.curr_state][Min(Satisfied(m, b))]
      BY <1>3, ActiveTriggerIsSatisfied DEF ActiveTrigger
    <3>2. DOMAIN Triggers[m.curr_state] = 1 .. Len(Triggers[m.curr_state])
      BY DeviceTypes DEF Machine
    <3> QED BY <3>1, <3>2
  <2>2. /\ out.sm = Fire(m, t)
        /\ out.appended = IF t.action \in AppendActions THEN <<t.action>> ELSE <<>>
    BY <1>3 DEF HandleRxTriggers, Outcome
  <2>3. CASE t.action \in AppendActions
    <3>1. m.num_bits # MaxBits
      BY <2>3, FullBufferDoesNotAppend DEF Guarded
    <3>2. m.num_bits < MaxBits
      BY <3>1, DeviceTypes DEF Machine
    <3>3. SafeTarget(t.next_state)
      BY <2>1, <2>3 DEF WellFormed, Machine
    <3>4. /\ Fire(m, t).num_bits = m.num_bits + 1
          /\ Fire(m, t).curr_state = t.next_state
          /\ MessageHeard(Fire(m, t), h \o <<t.action>>)
      BY <2>1, <2>3, <3>2, AppendKeepsMessage
    <3>5. m.num_bits + 1 <= MaxBits
      BY <3>2, DeviceTypes DEF Machine
    <3> QED BY <2>2, <2>3, <3>3, <3>4, <3>5 DEF RoomOrSafe
  <2>4. CASE t.action \notin AppendActions
    <3>1. /\ Fire(m, t).num_bits = m.num_bits
          /\ Fire(m, t).data = m.data
          /\ Fire(m, t).curr_state = t.next_state
      BY <2>4 DEF Fire, HandleActions, Machine
    <3>2. m.num_bits = MaxBits => SafeTarget(t.next_state)
      BY FullBufferDoesNotAppend DEF WellFormed, Machine
    <3>3. h \o <<>> = h
      BY ConcatEmptySeq
    <3> QED BY <2>2, <2>4, <3>1, <3>2, <3>3 DEF MessageHeard, RoomOrSafe
  <2> QED BY <2>3, <2>4
<1> QED BY <1>1, <1>2, <1>3

\* A trigger that does not append leaves num_bits as it was.
LEMMA ResetDoesNotAppend ==
    ASSUME WellFormed, NEW m \in Machine, NEW b \in BOOLEAN, m.curr_state = Reset
    PROVE  HandleRxTriggers(m, b).sm.num_bits = m.num_bits
<1> DEFINE t == ActiveTrigger(m, b)
<1>1. CASE Satisfied(m, b) = {}
  BY <1>1 DEF HandleRxTriggers, Outcome, Wait, Machine
<1>2. CASE Satisfied(m, b) # {} /\ ~MatchesStateDuration(m, t)
  BY <1>2 DEF HandleRxTriggers, Outcome, Abort, Machine
<1>3. CASE Satisfied(m, b) # {} /\ MatchesStateDuration(m, t)
  <2>1. t.action \notin AppendActions
    BY <1>3, ActiveTriggerIsSatisfied, DeviceTypes DEF ActiveTrigger, WellFormed
  <2>2. Fire(m, t).num_bits = m.num_bits
    BY <2>1 DEF Fire, HandleActions, Machine
  <2> QED BY <1>3, <2>2 DEF HandleRxTriggers, Outcome
<1> QED BY <1>1, <1>2, <1>3

\* The reset at the start of a sample leaves an empty buffer, all of it.
LEMMA ClearMessageClears ==
    ASSUME NEW m \in Machine, NEW h, MessageHeard(m, h), m.num_bits <= MaxBits
    PROVE  LET c == ClearMessage(m)
           IN  /\ c \in Machine
               /\ c.curr_state = m.curr_state
               /\ c.num_bits = 0
               /\ MessageHeard(c, <<>>)
<1> DEFINE c == ClearMessage(m)
<1>3. c \in Machine
  BY ClearMessageType
<1>4. 0 .. MaxBits - 1 \subseteq BufferBits
  BY DeviceTypes DEF BufferBits
<1>5. m.data \ BufferBits = {}
  BY <1>4, DeviceTypes DEF MessageHeard, Machine
<1>6. c.curr_state = m.curr_state /\ c.num_bits = 0 /\ c.data = {}
  BY <1>5 DEF ClearMessage, Machine
<1> QED BY <1>3, <1>6 DEF MessageHeard

\* process() keeps the message and leaves room or a safe state.
LEMMA ProcessKeepsMessage ==
    ASSUME WellFormed, NEW m \in Machine, NEW b \in BOOLEAN,
           NEW h \in Seq(AppendActions), MessageHeard(m, h), RoomOrSafe(m)
    PROVE  LET out == Process(m, b)
           IN  MessageHeard(out.sm, Kept(m, h) \o out.appended) /\ RoomOrSafe(out.sm)
<1> DEFINE out == Process(m, b)
           c == ClearMessage(m)
           first == HandleRxTriggers(c, b)
           second == HandleRxTriggers(first.sm, b)
           direct == HandleRxTriggers(m, b)
\* Recording the sample changes neither the message nor the state.
<1>1. ASSUME NEW q \in Machine, NEW g, MessageHeard(q, g), RoomOrSafe(q)
      PROVE  /\ MessageHeard([q EXCEPT !.prev_bit = b], g)
             /\ RoomOrSafe([q EXCEPT !.prev_bit = b])
  BY <1>1 DEF MessageHeard, RoomOrSafe, Machine
<1>2. CASE m.curr_state # Reset
  <2>1. /\ out.sm = [direct.sm EXCEPT !.prev_bit = b]
        /\ out.appended = direct.appended
    BY <1>2 DEF Process, Outcome
  <2>2. direct.sm \in Machine
    BY HandleRxTriggersType
  <2>3. m.num_bits <= MaxBits /\ (m.num_bits = MaxBits => Guarded(m.curr_state))
    BY <1>2 DEF RoomOrSafe, SafeTarget
  <2>4. MessageHeard(direct.sm, h \o direct.appended) /\ RoomOrSafe(direct.sm)
    BY <2>3, HandleRxTriggersKeepsMessage
  <2> QED BY <1>1, <1>2, <2>1, <2>2, <2>4 DEF Kept
<1>3. CASE m.curr_state = Reset
  <2>1. /\ c \in Machine /\ c.curr_state = Reset /\ c.num_bits = 0
        /\ MessageHeard(c, <<>>)
    BY <1>3, ClearMessageClears DEF RoomOrSafe
  <2>2. /\ first.sm \in Machine
        /\ first.appended \in Seq(AppendActions)
    BY <2>1, HandleRxTriggersType
  <2>3. first.sm.num_bits = 0
    BY <2>1, ResetDoesNotAppend
  <2>4. MessageHeard(first.sm, <<>> \o first.appended) /\ RoomOrSafe(first.sm)
    <3>1. <<>> \in Seq(AppendActions) /\ c.num_bits <= MaxBits /\ c.num_bits # MaxBits
      BY <2>1, DeviceTypes
    <3> QED BY <2>1, <3>1, HandleRxTriggersKeepsMessage
  <2>5. <<>> \o first.appended = first.appended
    BY <2>2, ConcatEmptySeq
  <2>6. CASE first.result # "no_output"
    <3>1. /\ out.sm = [first.sm EXCEPT !.prev_bit = b]
          /\ out.appended = first.appended
      BY <1>3, <2>6 DEF Process, Outcome
    <3> QED BY <1>1, <1>3, <2>2, <2>4, <2>5, <3>1 DEF Kept
  <2>7. CASE first.result = "no_output"
    <3>1. /\ out.sm = [second.sm EXCEPT !.prev_bit = b]
          /\ out.appended = first.appended \o second.appended
      BY <1>3, <2>7 DEF Process, Outcome
    <3>2. second.sm \in Machine /\ second.appended \in Seq(AppendActions)
      BY <2>2, HandleRxTriggersType
    <3>3. /\ MessageHeard(second.sm, first.appended \o second.appended)
          /\ RoomOrSafe(second.sm)
      BY <2>2, <2>3, <2>4, <2>5, HandleRxTriggersKeepsMessage, DeviceTypes
    <3>4. <<>> \o (first.appended \o second.appended) = first.appended \o second.appended
      BY <2>2, <3>2, ConcatProperties, ConcatEmptySeq
    <3> QED BY <1>1, <1>3, <3>1, <3>2, <3>3, <3>4 DEF Kept
  <2> QED BY <2>6, <2>7
<1> QED BY <1>2, <1>3

\* The strengthened invariant holds from the start and every step keeps it.
THEOREM RxInductive == ASSUME WellFormed PROVE RxSpec => []RxInv
<1>1. RxInit => RxInv
  BY DeviceTypes DEF RxInit, InitialMachine, RxInv, RxTypeOK, Machine, Results,
                     MessageHeard, RoomOrSafe
<1>2. RxInv /\ RxTypeOK' /\ [RxNext]_rxVars => RxInv'
  <2> SUFFICES ASSUME RxInv, RxTypeOK', [RxNext]_rxVars
               PROVE  MessageHeard(sm, heard)' /\ RoomOrSafe(sm)'
    BY DEF RxInv
  <2>1. ASSUME NEW b \in BOOLEAN, Sample(b)
        PROVE  MessageHeard(sm, heard)' /\ RoomOrSafe(sm)'
    <3>1. LET out == Process(sm, b)
          IN  MessageHeard(out.sm, Kept(sm, heard) \o out.appended) /\ RoomOrSafe(out.sm)
      BY ProcessKeepsMessage DEF RxInv, RxTypeOK
    <3>2. /\ sm' = Process(sm, b).sm
          /\ heard' = Kept(sm, heard) \o Process(sm, b).appended
      BY <2>1 DEF Sample, Kept
    <3> QED BY <3>1, <3>2 DEF MessageHeard, RoomOrSafe
  <2>2. CASE UNCHANGED rxVars
    BY <2>2 DEF rxVars, RxInv, MessageHeard, RoomOrSafe
  <2> QED BY <2>1, <2>2 DEF RxNext
<1> QED BY <1>1, <1>2, TypeCorrect, PTL DEF RxSpec

\* A well formed device never aggregates more than num_bits bits, so that
\* append_data_bit() never writes past the buffer (state_machine.c:370).
THEOREM NeverTooManyBits == ASSUME WellFormed PROVE RxSpec => []BitsBounded
<1>1. RxInv => BitsBounded
  BY DEF RxInv, RoomOrSafe, BitsBounded
<1> QED BY <1>1, RxInductive, PTL

\* Nor does its buffer ever hold a bit of another message.
THEOREM NeverResidue == ASSUME WellFormed PROVE RxSpec => []NoResidue
<1>1. RxInv => NoResidue
  BY DEF RxInv, MessageHeard, NoResidue
<1> QED BY <1>1, RxInductive, PTL

-----------------------------------------------------------------------------
(* What is output.                                                         *)

\* A pass that announces output has a complete message in the machine.
LEMMA OutputNeedsCompletion ==
    ASSUME OutputsOnCompletion, NEW m \in Machine, NEW b \in BOOLEAN,
           HandleRxTriggers(m, b).result = "output_ready"
    PROVE  HandleRxTriggers(m, b).sm.num_bits >= MaxBits
<1> DEFINE t == ActiveTrigger(m, b)
<1>1. /\ Satisfied(m, b) # {}
      /\ MatchesStateDuration(m, t)
      /\ t.action = "output_data"
  BY DEF HandleRxTriggers, Outcome
<1>2. /\ ConditionHolds(m, b, t)
      /\ \E k \in DOMAIN Triggers[m.curr_state] : t = Triggers[m.curr_state][k]
  BY <1>1, ActiveTriggerIsSatisfied, DeviceTypes DEF ActiveTrigger, Machine
<1>3. t.condition = "msg_complete"
  BY <1>1, <1>2 DEF OutputsOnCompletion, Machine
<1>4. m.num_bits >= MaxBits
  BY <1>2, <1>3 DEF ConditionHolds
<1>5. Fire(m, t).num_bits = m.num_bits
  BY <1>1 DEF Fire, HandleActions, AppendActions, Machine
<1> QED BY <1>1, <1>4, <1>5 DEF HandleRxTriggers, Outcome

LEMMA ProcessOutputNeedsCompletion ==
    ASSUME OutputsOnCompletion, NEW m \in Machine, NEW b \in BOOLEAN,
           Process(m, b).result = "output_ready"
    PROVE  Process(m, b).sm.num_bits >= MaxBits
<1> DEFINE first == HandleRxTriggers(ClearMessage(m), b)
           second == HandleRxTriggers(first.sm, b)
           direct == HandleRxTriggers(m, b)
           out == IF m.curr_state # Reset THEN direct
                  ELSE IF first.result # "no_output" THEN first ELSE second
<1>1. ClearMessage(m) \in Machine
  BY ClearMessageType
<1>2. first.sm \in Machine /\ second.sm \in Machine /\ direct.sm \in Machine
  BY <1>1, HandleRxTriggersType
<1>3. /\ Process(m, b).result = out.result
      /\ Process(m, b).sm = [out.sm EXCEPT !.prev_bit = b]
  BY DEF Process, Outcome
<1>4. out.sm.num_bits >= MaxBits
  BY <1>1, <1>2, <1>3, OutputNeedsCompletion
<1>5. out.sm \in Machine
  BY <1>2
<1> QED BY <1>3, <1>4, <1>5 DEF Machine

\* A well formed device that outputs on completion outputs, each time, the
\* whole message heard since the last reset and nothing else.
THEOREM OutputIsWhatWasHeard ==
    ASSUME WellFormed, OutputsOnCompletion
    PROVE  RxSpec => OutputIsMessage
<1>1. ASSUME RxInv, RxInv', [RxNext]_rxVars
      PROVE  [result' = "output_ready" =>
                /\ Len(heard') = MaxBits
                /\ sm'.data = {k \in 0 .. MaxBits - 1 : heard'[k + 1] = "append_1"}]_rxVars
  <2>1. ASSUME NEW b \in BOOLEAN, Sample(b), result' = "output_ready"
        PROVE  sm'.num_bits = MaxBits
    <3>1. sm'.num_bits >= MaxBits
      BY <2>1, <1>1, ProcessOutputNeedsCompletion DEF Sample, RxInv, RxTypeOK
    <3>2. sm'.num_bits \in Nat /\ sm'.num_bits <= MaxBits
      BY <1>1, DeviceTypes DEF RxInv, RxTypeOK, Machine, RoomOrSafe
    <3> QED BY <3>1, <3>2, DeviceTypes
  <2>2. Len(heard') = sm'.num_bits
        /\ sm'.data = {k \in 0 .. sm'.num_bits - 1 : heard'[k + 1] = "append_1"}
    BY <1>1 DEF RxInv, MessageHeard
  <2> QED BY <1>1, <2>1, <2>2 DEF RxNext
<1> QED BY <1>1, RxInductive, PTL DEF RxSpec, OutputIsMessage

-----------------------------------------------------------------------------
(* Timeouts, for every device, well formed or not.                         *)

\* A pass either leaves with the clock at 0 or found no timeout to take.
LEMMA HandleRxTriggersOnTime ==
    ASSUME NEW m \in Machine, NEW b \in BOOLEAN
    PROVE  OnTime(HandleRxTriggers(m, b).sm)
<1> DEFINE t == ActiveTrigger(m, b)
           out == HandleRxTriggers(m, b)
<1>1. CASE Satisfied(m, b) = {}
  <2>1. out.sm = Wait(m)
    BY <1>1 DEF HandleRxTriggers, Outcome
  <2>2. /\ Wait(m).curr_state = m.curr_state
        /\ Wait(m).elapsed_us <= m.elapsed_us + SampleUs
    BY DeviceTypes DEF Wait, Machine
  <2>3. ASSUME NEW k \in DOMAIN Triggers[m.curr_state],
               Triggers[m.curr_state][k].condition = "timeout",
               Triggers[m.curr_state][k].duration_us = 0,
               Timeout[m.curr_state] # 0
        PROVE  m.elapsed_us < Timeout[m.curr_state]
    <3>1. ~ ConditionHolds(m, b, Triggers[m.curr_state][k])
      BY <1>1, <2>3 DEF Satisfied, MatchesDuration
    <3> QED BY <2>3, <3>1, DeviceTypes DEF ConditionHolds, Machine
  <2>4. m.elapsed_us \in Nat /\ Wait(m).elapsed_us \in Nat
    BY WaitType, DeviceTypes DEF Machine
  <2>5. Timeout[m.curr_state] \in Nat /\ SampleUs \in Nat
    BY DeviceTypes DEF Machine
  <2> QED BY <2>1, <2>2, <2>3, <2>4, <2>5 DEF OnTime
<1>2. CASE Satisfied(m, b) # {}
  <2>1. out.sm.elapsed_us = 0 /\ out.sm \in Machine
    <3>1. out.sm \in {Abort(m), Fire(m, t)}
      BY <1>2 DEF HandleRxTriggers, Outcome
    <3>2. t \in Trigger
      BY <1>2, ActiveTriggerIsSatisfied
    <3>3. HandleActions(m, t) \in Machine
      BY <3>2, HandleActionsType
    <3>4. Fire(m, t).elapsed_us = 0 /\ Abort(m).elapsed_us = 0
      BY <3>3 DEF Fire, Abort, Machine
    <3> QED BY <3>1, <3>4, HandleRxTriggersType
  <2> QED BY <2>1, DeviceTypes DEF OnTime, Machine
<1> QED BY <1>1, <1>2

\* Whatever the device and the input, no state with a timeout trigger is
\* held for more than one sample past its timeout.
THEOREM NeverOverstays == RxSpec => []NoOverstay
<1>1. RxInit => NoOverstay
  BY DeviceTypes DEF RxInit, InitialMachine, NoOverstay, OnTime
<1>2. RxTypeOK /\ NoOverstay /\ [RxNext]_rxVars => NoOverstay'
  <2> SUFFICES ASSUME RxTypeOK, NoOverstay, [RxNext]_rxVars
               PROVE  NoOverstay'
    OBVIOUS
  <2>1. ASSUME NEW b \in BOOLEAN, Sample(b)
        PROVE  NoOverstay'
    <3> DEFINE c == ClearMessage(sm)
               first == HandleRxTriggers(c, b)
               second == HandleRxTriggers(first.sm, b)
               direct == HandleRxTriggers(sm, b)
    <3>1. c \in Machine
      BY ClearMessageType DEF RxTypeOK
    <3>2. first.sm \in Machine /\ OnTime(first.sm)
      BY <3>1, HandleRxTriggersType, HandleRxTriggersOnTime
    <3>3. second.sm \in Machine /\ OnTime(second.sm)
      BY <3>2, HandleRxTriggersType, HandleRxTriggersOnTime
    <3>4. direct.sm \in Machine /\ OnTime(direct.sm)
      BY HandleRxTriggersType, HandleRxTriggersOnTime DEF RxTypeOK
    <3>5. \E q \in {first.sm, second.sm, direct.sm} : sm' = [q EXCEPT !.prev_bit = b]
      BY <2>1 DEF Sample, Process, Outcome
    <3>6. PICK q \in Machine : OnTime(q) /\ sm' = [q EXCEPT !.prev_bit = b]
      BY <3>2, <3>3, <3>4, <3>5
    <3>7. sm'.curr_state = q.curr_state /\ sm'.elapsed_us = q.elapsed_us
      BY <3>6 DEF Machine
    <3> QED BY <3>6, <3>7 DEF NoOverstay, OnTime
  <2>2. CASE UNCHANGED rxVars
    BY <2>2 DEF rxVars, NoOverstay, OnTime
  <2> QED BY <2>1, <2>2 DEF RxNext
<1> QED BY <1>1, <1>2, TypeCorrect, PTL DEF RxSpec

-----------------------------------------------------------------------------
(* The list on its own: the assertion of keyval_list_append() can not      *)
(* fail, and no string is lost.                                            *)

ListInv == ListTypeOK /\ SizeWithinBacking /\ NoLeak

LEMMA ListInitInv == ListInit => ListInv
BY KeyvalAssumption DEF ListInit, ListInv, ListTypeOK, SizeWithinBacking, NoLeak

\* Doubling leaves room for at least one more element.
LEMMA GrowMakesRoom ==
    ASSUME ListInv, ListGrow
    PROVE  /\ backing_size' \in Nat \ {0}
           /\ allocated' \in Nat \ {0}
           /\ size + 1 <= backing_size'
<1>1. CASE ListFull
  <2>1. backing_size' = 2 * backing_size * EltSize /\ allocated' = 2 * backing_size
    BY <1>1 DEF ListGrow
  <2>2. \A x, y \in Nat \ {0} : 2 * x * y >= 2 * x /\ 2 * x * y \in Nat
    OBVIOUS
  <2> QED BY <1>1, <2>1, <2>2, KeyvalAssumption DEF ListInv, ListTypeOK, ListFull
<1>2. CASE ~ListFull
  BY <1>2 DEF ListGrow, ListFull, ListInv, ListTypeOK, SizeWithinBacking
<1> QED BY <1>1, <1>2

LEMMA ListNextInv == ListInv /\ [ListNext]_listVars => ListInv'
<1> SUFFICES ASSUME ListInv, [ListNext]_listVars
             PROVE  ListInv'
  OBVIOUS
<1>1. CASE ListAppend
  BY <1>1, GrowMakesRoom DEF ListAppend, ListInv, ListTypeOK, SizeWithinBacking, NoLeak
<1>2. CASE ListAppendNoRoom
  BY <1>2 DEF ListAppendNoRoom, listVars, ListInv, ListTypeOK, SizeWithinBacking, NoLeak
<1>3. CASE ListAppendNoString
  BY <1>3, GrowMakesRoom DEF ListAppendNoString, ListInv, ListTypeOK,
                             SizeWithinBacking, NoLeak
<1>4. CASE ListClear
  BY <1>4 DEF ListClear, ListInv, ListTypeOK, SizeWithinBacking, NoLeak
<1>5. CASE UNCHANGED listVars
  BY <1>5 DEF listVars, ListInv, ListTypeOK, SizeWithinBacking, NoLeak
<1> QED BY <1>1, <1>2, <1>3, <1>4, <1>5 DEF ListNext

\* The bounds and the correspondence of strings and elements, for every
\* initial size and however allocations fail.
THEOREM ListInvariance == ListSpec => []ListInv
BY ListInitInv, ListNextInv, PTL DEF ListSpec

\* assert(list->size <= list->backing_size) holds on every call.
THEOREM AssertionHolds == ListSpec => []SizeWithinBacking
<1>1. ListInv => SizeWithinBacking
  BY DEF ListInv
<1> QED BY <1>1, ListInvariance, PTL

\* The strings of the elements are the only ones alive.
THEOREM NothingLeaks == ListSpec => []NoLeak
<1>1. ListInv => NoLeak
  BY DEF ListInv
<1> QED BY <1>1, ListInvariance, PTL

-----------------------------------------------------------------------------
(* How far the buffer has been taken.                                      *)

\* sm_process() has taken i samples of this call and is never called with
\* none left.
TakenInOrder ==
    /\ pc \in {"caller", "device_process", "sm_process", "formatter_data_to_keyval"}
    /\ data \in Seq(BOOLEAN)
    /\ i \in Nat /\ total_proc \in Nat
    /\ total_proc + i <= Len(data)
    /\ pc # "sm_process" => i = 0
    /\ pc = "sm_process" /\ i = 0 => total_proc < Len(data)
    /\ seen = SubSeq(data, 1, total_proc + i)

\* Taking one more sample.
LEMMA OneMoreSample ==
    ASSUME NEW d \in Seq(BOOLEAN), NEW n \in Nat, n < Len(d)
    PROVE  /\ d[n + 1] \in BOOLEAN
           /\ Append(SubSeq(d, 1, n), d[n + 1]) = SubSeq(d, 1, n + 1)
           /\ SubSeq(d, 1, n) \in Seq(BOOLEAN) /\ SubSeq(d, 1, n + 1) \in Seq(BOOLEAN)
<1>1. Len(d) \in Nat /\ n + 1 \in 1 .. Len(d)
  OBVIOUS
<1>2. d[n + 1] \in BOOLEAN /\ \A k \in 1 .. n + 1 : d[k] \in BOOLEAN
  BY <1>1
<1>3. SubSeq(d, 1, n + 1) = SubSeq(d, 1, n) \o <<d[n + 1]>>
  BY <1>1, SubSeqRecursiveSecond
<1>4. SubSeq(d, 1, n) \in Seq(BOOLEAN) /\ SubSeq(d, 1, n + 1) \in Seq(BOOLEAN)
  BY <1>2, SubSeqProperties
<1> QED BY <1>2, <1>3, <1>4, AppendIsConcat

LEMMA TakenInit == Init => TakenInOrder
<1>1. <<>> \in Seq(BOOLEAN) /\ SubSeq(<<>>, 1, 0) = <<>>
  BY SubSeqEmpty
<1> QED BY <1>1 DEF Init, TakenInOrder

LEMMA TakenNext == TakenInOrder /\ [Next]_vars => TakenInOrder'
<1> SUFFICES ASSUME TakenInOrder, [Next]_vars PROVE TakenInOrder'
  OBVIOUS
<1> USE DEF TakenInOrder
<1>1. ASSUME NEW b \in Buffers, Enter(b) PROVE TakenInOrder'
  <2>1. b \in Seq(BOOLEAN) /\ SubSeq(b, 1, 0) = <<>>
    BY BuffersAssumption, SubSeqEmpty
  <2> QED BY <1>1, <2>1 DEF Enter
<1>2. CASE Call
  BY <1>2 DEF Call, MoreToProcess, callVars
<1>3. CASE Step
  <2>1. total_proc + i < Len(data) /\ total_proc + i \in Nat
    BY <1>3 DEF Step, TakesAnother
  <2>2. seen' = SubSeq(data, 1, total_proc + i + 1)
    BY <1>3, <2>1, OneMoreSample DEF Step, Given
  <2> QED BY <1>3, <2>1, <2>2 DEF Step
<1>4. CASE Return
  BY <1>4 DEF Return, callVars
<1>5. CASE AppendEntry \/ AppendEntryFails \/ Formatted \/ Leave
  BY <1>5 DEF AppendEntry, AppendEntryFails, Formatted, Leave, callVars
<1>6. CASE UNCHANGED vars
  BY <1>6 DEF vars
<1> QED BY <1>1, <1>2, <1>3, <1>4, <1>5, <1>6 DEF Next, Run

LEMMA AlwaysTakenInOrder == Spec => []TakenInOrder
BY TakenInit, TakenNext, PTL DEF Spec

\* However a buffer is cut into sm_process() calls, none of its samples is
\* skipped and none is given twice (device.c:648).
THEOREM SamplesOnce == Spec => []EachSampleOnce
<1>1. TakenInOrder => EachSampleOnce
  BY DEF TakenInOrder, EachSampleOnce
<1> QED BY <1>1, AlwaysTakenInOrder, PTL

-----------------------------------------------------------------------------
(* The components: what a step of device_process() does to them.           *)

\* A step is a sample for the state machine or leaves it as it is.
LEMMA StepsTheMachine == TakenInOrder /\ [Next]_vars => [RxNext]_rxVars
<1> SUFFICES ASSUME TakenInOrder, [Next]_vars PROVE [RxNext]_rxVars
  OBVIOUS
<1>1. ASSUME NEW b \in Buffers, Enter(b) PROVE UNCHANGED rxVars
  BY <1>1 DEF Enter
<1>2. CASE Call \/ Return \/ AppendEntry \/ AppendEntryFails \/ Formatted \/ Leave
  BY <1>2 DEF Call, Return, AppendEntry, AppendEntryFails, Formatted, Leave, callVars
<1>3. CASE Step
  <2>1. total_proc + i < Len(data) /\ total_proc + i \in Nat /\ data \in Seq(BOOLEAN)
    BY <1>3 DEF Step, TakesAnother, TakenInOrder
  <2>2. Given \in BOOLEAN
    BY <2>1, OneMoreSample DEF Given
  <2> QED BY <1>3, <2>2 DEF Step, RxNext
<1>4. CASE UNCHANGED vars
  BY <1>4 DEF vars
<1> QED BY <1>1, <1>2, <1>3, <1>4 DEF Next, Run

\* device_process() implements the state machine of SmReceive, fed with the
\* samples it does not drop (device.c:648).
THEOREM ImplementsDecoder == Spec => DecodesSamples
<1>1. Init => RxInit
  BY DEF Init
<1> QED BY <1>1, StepsTheMachine, AlwaysTakenInOrder, PTL DEF Spec, RxSpec, DecodesSamples

\* A step is an operation of the list or leaves it as it is.
LEMMA StepsTheList == Next => [ListNext]_listVars
<1> SUFFICES ASSUME Next PROVE [ListNext]_listVars
  OBVIOUS
<1>1. ASSUME NEW b \in Buffers, Enter(b) PROVE ListNext
  BY <1>1 DEF Enter, ListNext
<1>2. CASE Call \/ Step \/ Return \/ Formatted \/ Leave
  BY <1>2 DEF Call, Step, Return, Formatted, Leave, formatVars, listVars
<1>3. CASE AppendEntry \/ AppendEntryFails
  BY <1>3 DEF AppendEntry, AppendEntryFails, ListNext
<1> QED BY <1>1, <1>2, <1>3 DEF Next, Run

\* Whatever messages are decoded and wherever memory runs out, the list is
\* used as KeyvalList says.
LEMMA ImplementsList == Spec => ListSpec
<1>1. Init => ListInit
  BY DEF Init
<1>2. [Next]_vars => [ListNext]_listVars
  BY StepsTheList DEF vars, listVars
<1> QED BY <1>1, <1>2, PTL DEF Spec, ListSpec

\* The assertion of keyval_list_append() holds for the list of the device.
THEOREM ListAssertionHolds == Spec => []SizeWithinBacking
BY ImplementsList, AssertionHolds, PTL

\* The strings of the fields are freed with the list, each once.
THEOREM FieldsAreFreed == Spec => []NoLeak
BY ImplementsList, NothingLeaks, PTL

\* What is proved of the machine holds inside device_process().
THEOREM MachineStaysSafe ==
    ASSUME WellFormed PROVE Spec => [](BitsBounded /\ NoResidue)
BY ImplementsDecoder, NeverTooManyBits, NeverResidue, PTL DEF DecodesSamples

LEMMA MachineTypes == Spec => []RxTypeOK
BY ImplementsDecoder, TypeCorrect, PTL DEF DecodesSamples

-----------------------------------------------------------------------------
(* What is in the list.                                                    *)

KeyNames == {Timestamp} \cup Range(Fields)

\* The keys are the timestamp, which is only the first, and the fields.
LEMMA KeysType ==
    /\ Keys \in Seq(KeyNames) /\ Len(Keys) \in Nat /\ DOMAIN Keys = 1 .. Len(Keys)
    /\ \A key \in DOMAIN Keys : Keys[key] = Timestamp => key = 1
<1>1. /\ <<Timestamp>> \in Seq(KeyNames) /\ Fields \in Seq(KeyNames)
      /\ \A f \in DOMAIN Fields : Fields[f] # Timestamp
      /\ Len(<<Timestamp>>) = 1 /\ DOMAIN Fields = 1 .. Len(Fields)
  <2>1. \A f \in DOMAIN Fields : Fields[f] # Timestamp
    BY FieldsAssumption DEF Range
  <2>2. Timestamp \in KeyNames /\ Range(Fields) \subseteq KeyNames
    BY DEF KeyNames
  <2> QED BY <2>1, <2>2, FieldsAssumption
<1>2. CASE Timestamped
  <2>1. /\ Keys \in Seq(KeyNames) /\ Len(Keys) = 1 + Len(Fields)
        /\ \A key \in 1 .. 1 + Len(Fields) :
               Keys[key] = IF key <= 1 THEN <<Timestamp>>[key] ELSE Fields[key - 1]
    BY <1>1, <1>2, ConcatProperties DEF Keys
  <2>2. ASSUME NEW key \in 1 .. Len(Keys), key # 1 PROVE Keys[key] # Timestamp
    BY <1>1, <2>1, <2>2
  <2> QED BY <2>1, <2>2
<1>3. CASE ~Timestamped
  BY <1>1, <1>3 DEF Keys
<1> QED BY <1>2, <1>3

Bits == SUBSET (BufferBits \cup {MaxBits})
Element == [msg : Nat, key : KeyNames, data : Bits]

ListedTypeOK ==
    /\ entry \in Nat \ {0}
    /\ values \in Seq(Element)
    /\ announced \in Seq(Bits)

\* Between the announcement of a message and its formatting nothing touches
\* the buffer.
Pending == pc = "sm_process" /\ i > 0 /\ result = "output_ready"
Formatting == pc = "formatter_data_to_keyval"

BufferIsAnnounced ==
    Pending \/ Formatting =>
        announced # <<>> /\ announced[Len(announced)] = sm.data

\* The messages that are formatted to the end.
Whole == IF Pending \/ Formatting THEN Len(announced) - 1 ELSE Len(announced)

\* As long as no append has failed the list holds all of these, and the keys
\* before entry of the message that is being formatted.
NoneMissing ==
    ~failed =>
        /\ Formatting => entry <= Len(Keys) + 1
        /\ Len(values) = Whole * Len(Keys) + (IF Formatting THEN entry - 1 ELSE 0)
        /\ \A m \in 1 .. Whole : \A key \in DOMAIN Keys :
               values[(m - 1) * Len(Keys) + key] = Entry(m, key)
        /\ Formatting => \A key \in 1 .. entry - 1 :
               values[Whole * Len(Keys) + key] = Entry(Len(announced), key)

\* The element that is appended next follows on the last one.
NextFollowsOn ==
    /\ Pending => FollowsOn(Len(values) + 1, Len(announced), 1)
    /\ Formatting /\ entry <= Len(Keys) => FollowsOn(Len(values) + 1, Len(announced), entry)

MessagesInv ==
    /\ ListedTypeOK /\ BufferIsAnnounced /\ NoneMissing /\ NextFollowsOn
    /\ ElementsInOrder /\ Len(values) = size

\* The messages before the m-th take no more room than Whole of them.
LEMMA Times ==
    ASSUME NEW a \in Nat, NEW b \in Nat, NEW n \in Nat
    PROVE  /\ a * n \in Nat
           /\ a <= b => a * n <= b * n
           /\ (a + 1) * n = a * n + n
<1>1. a * n \in Nat /\ (a + 1) * n = a * n + n
  OBVIOUS
<1>2. ASSUME a <= b PROVE a * n <= b * n
  <2>1. PICK c \in Nat : b = a + c
    <3>1. b - a \in Nat /\ b = a + (b - a)
      BY <1>2
    <3> QED BY <3>1
  <2>2. b * n = a * n + c * n /\ c * n \in Nat
    BY <2>1
  <2> QED BY <1>1, <2>2
<1> QED BY <1>1, <1>2

\* The place of a key of the m-th message among those of the first b.
LEMMA Place ==
    ASSUME NEW b \in Nat, NEW n \in Nat, NEW m \in 1 .. b, NEW key \in 1 .. n
    PROVE  (m - 1) * n + key \in 1 .. b * n
<1>1. m - 1 \in Nat /\ m \in Nat /\ m <= b /\ (m - 1) + 1 = m
  OBVIOUS
<1>2. (m - 1) * n \in Nat /\ m * n = (m - 1) * n + n /\ m * n <= b * n /\ b * n \in Nat
  BY <1>1, Times
<1> DEFINE before == (m - 1) * n
           upto == m * n
           all == b * n
<1>3. before \in Nat /\ upto = before + n /\ upto <= all /\ all \in Nat
  BY <1>2
<1> HIDE DEF before, upto, all
<1>4. before + key \in 1 .. all
  BY <1>3
<1> QED BY <1>4 DEF before, all

LEMMA MessagesInit == Init => MessagesInv
<1> SUFFICES ASSUME Init PROVE MessagesInv
  OBVIOUS
<1>1. /\ values = <<>> /\ announced = <<>> /\ entry = 1 /\ size = 0
      /\ ~Pending /\ ~Formatting
  BY DEF Init, ListInit, Pending, Formatting
<1>2. Whole = 0 /\ 0 * Len(Keys) = 0
  BY <1>1, KeysType DEF Whole
<1>3. <<>> \in Seq(Element) /\ <<>> \in Seq(Bits) /\ Len(<<>>) = 0
  OBVIOUS
<1> QED BY <1>1, <1>2, <1>3 DEF MessagesInv, ListedTypeOK, BufferIsAnnounced, NoneMissing,
                               NextFollowsOn, ElementsInOrder

LEMMA MessagesNext ==
    TakenInOrder /\ RxTypeOK /\ RxTypeOK' /\ MessagesInv /\ [Next]_vars => MessagesInv'
<1> SUFFICES ASSUME TakenInOrder, RxTypeOK, RxTypeOK', MessagesInv, [Next]_vars
             PROVE  MessagesInv'
  OBVIOUS
<1> DEFINE K == Len(Keys)
<1>k. K \in Nat /\ DOMAIN Keys = 1 .. K /\ Keys \in Seq(KeyNames)
  BY KeysType
<1>v. /\ Len(values) \in Nat /\ DOMAIN values = 1 .. Len(values) /\ Len(values) = size
      /\ Len(announced) \in Nat /\ DOMAIN announced = 1 .. Len(announced)
      /\ entry \in Nat \ {0}
  BY DEF MessagesInv, ListedTypeOK
\* What is said of elements does not change with the rest.
<1>s. UNCHANGED <<values, announced>> =>
          /\ ElementsInOrder' = ElementsInOrder
          /\ \A e, m, key : FollowsOn(e, m, key)' = FollowsOn(e, m, key)
  BY DEF ElementsInOrder, FollowsOn, Entry
<1>1. ASSUME NEW b \in Buffers, Enter(b) PROVE MessagesInv'
  <2>1. /\ values' = <<>> /\ announced' = <<>> /\ entry' = entry /\ size' = 0
        /\ ~Pending' /\ ~Formatting'
    BY <1>1 DEF Enter, ListClear, Pending, Formatting
  <2>2. Whole' = 0 /\ 0 * Len(Keys) = 0
    BY <2>1, KeysType DEF Whole
  <2>3. <<>> \in Seq(Element) /\ <<>> \in Seq(Bits) /\ Len(<<>>) = 0
    OBVIOUS
  <2> QED BY <1>v, <2>1, <2>2, <2>3 DEF MessagesInv, ListedTypeOK, BufferIsAnnounced, NoneMissing,
                                   NextFollowsOn, ElementsInOrder
<1>2. CASE Call \/ Leave \/ (Return /\ result # "output_ready") \/ UNCHANGED vars
  <2>1. /\ UNCHANGED <<values, announced, size, failed, sm>>
        /\ entry' \in Nat \ {0}
        /\ (~Pending' /\ ~Formatting' /\ ~Pending /\ ~Formatting)
              \/ (entry' = entry /\ (Pending' <=> Pending) /\ (Formatting' <=> Formatting))
    BY <1>2, <1>v DEF Call, Leave, Return, vars, callVars, formatVars, rxVars, listVars, Pending, Formatting
  <2>2. Whole' = Whole
    BY <2>1 DEF Whole
  <2>3. ListedTypeOK' /\ BufferIsAnnounced' /\ Len(values') = size'
    BY <2>1 DEF MessagesInv, ListedTypeOK, BufferIsAnnounced
  <2>4. NoneMissing'
    <3>1. \A m, key : Entry(m, key)' = Entry(m, key)
      BY <2>1 DEF Entry
    <3>2. CASE ~Formatting /\ ~Formatting'
      BY <2>1, <2>2, <3>1, <3>2 DEF MessagesInv, NoneMissing
    <3>3. CASE Formatting /\ Formatting' /\ entry' = entry
      BY <2>1, <2>2, <3>1, <3>3 DEF MessagesInv, NoneMissing
    <3> QED BY <2>1, <3>2, <3>3
  <2>5. NextFollowsOn' /\ ElementsInOrder'
    BY <1>s, <2>1 DEF MessagesInv, NextFollowsOn
  <2> QED BY <2>3, <2>4, <2>5 DEF MessagesInv
<1>3. CASE Step
  <2>1. /\ UNCHANGED <<values, size, failed, entry>> /\ ~Pending /\ ~Formatting /\ ~Formatting'
        /\ Whole = Len(announced)
    BY <1>3 DEF Step, TakesAnother, formatVars, listVars, Pending, Formatting, Whole
  <2>2. CASE result' # "output_ready"
    <3>1. announced' = announced /\ ~Pending' /\ Whole' = Whole
      BY <1>3, <2>1, <2>2 DEF Step, Pending, Whole
    <3>2. ListedTypeOK' /\ BufferIsAnnounced' /\ NextFollowsOn' /\ Len(values') = size'
      BY <2>1, <3>1 DEF MessagesInv, ListedTypeOK, BufferIsAnnounced, NextFollowsOn
    <3>3. NoneMissing'
      BY <2>1, <3>1 DEF MessagesInv, NoneMissing, Entry
    <3>4. ElementsInOrder'
      BY <1>s, <2>1, <3>1 DEF MessagesInv
    <3> QED BY <3>2, <3>3, <3>4 DEF MessagesInv
  <2>3. CASE result' = "output_ready"
    <3>1. sm'.data \in Bits
      BY DEF RxTypeOK, Machine, Bits
    <3>2. /\ announced' = Append(announced, sm'.data) /\ Pending'
          /\ announced' \in Seq(Bits) /\ Len(announced') = Len(announced) + 1
          /\ announced'[Len(announced) + 1] = sm'.data
          /\ \A m \in DOMAIN announced : m \in DOMAIN announced' /\ announced'[m] = announced[m]
      BY <1>3, <2>3, <3>1 DEF Step, Pending, TakenInOrder, MessagesInv, ListedTypeOK
    <3>3. Whole' = Len(announced)
      BY <3>2 DEF Whole
    <3>4. ListedTypeOK' /\ BufferIsAnnounced' /\ Len(values') = size'
      BY <2>1, <3>2 DEF MessagesInv, ListedTypeOK, BufferIsAnnounced
    <3>5. \A m \in DOMAIN announced : \A key : Entry(m, key)' = Entry(m, key)
      BY <3>2 DEF Entry
    <3>6. NoneMissing'
      BY <2>1, <3>3, <3>5 DEF MessagesInv, NoneMissing
    <3>7. NextFollowsOn'
      <4>1. ASSUME Len(values) # 0 PROVE values[Len(values)].msg < Len(announced) + 1
        <5>1. PICK m \in DOMAIN announced : \E key : values[Len(values)] = Entry(m, key)
          BY <1>v, <4>1 DEF MessagesInv, ElementsInOrder
        <5> QED BY <1>v, <5>1 DEF Entry
      <4>2. FollowsOn(Len(values) + 1, Len(announced), 1)'
        BY <1>v, <2>1, <3>2, <4>1 DEF FollowsOn
      <4> QED BY <2>1, <4>2 DEF NextFollowsOn
    <3>8. ElementsInOrder'
      <4>1. ASSUME NEW e \in DOMAIN values, NEW m \in DOMAIN announced, NEW key \in DOMAIN Keys,
                   values[e] = Entry(m, key), FollowsOn(e, m, key)
            PROVE  (values[e] = Entry(m, key) /\ FollowsOn(e, m, key))'
        BY <2>1, <3>5, <4>1 DEF FollowsOn
      <4> QED BY <2>1, <3>2, <4>1 DEF MessagesInv, ElementsInOrder
    <3> QED BY <3>4, <3>6, <3>7, <3>8 DEF MessagesInv
  <2> QED BY <2>2, <2>3
<1>4. CASE Return /\ result = "output_ready"
  <2>1. /\ UNCHANGED <<values, announced, size, failed, sm>> /\ entry' = 1
        /\ ~Pending' /\ ~Formatting /\ Formatting'
    BY <1>4 DEF Return, callVars, rxVars, listVars, Pending, Formatting
  <2>2. Pending
    BY <1>4 DEF Return, TakesAnother, Pending, TakenInOrder
  <2>3. Whole' = Whole
    BY <2>1, <2>2 DEF Whole
  <2>4. ListedTypeOK' /\ BufferIsAnnounced' /\ Len(values') = size'
    BY <2>1, <2>2 DEF MessagesInv, ListedTypeOK, BufferIsAnnounced
  <2>5. NoneMissing'
    BY <1>k, <2>1, <2>3 DEF MessagesInv, NoneMissing, Entry
  <2>6. NextFollowsOn' /\ ElementsInOrder'
    BY <1>s, <2>1, <2>2 DEF MessagesInv, NextFollowsOn
  <2> QED BY <2>4, <2>5, <2>6 DEF MessagesInv
<1>5. CASE AppendEntry
  <2> DEFINE M == Len(announced)
             n == Len(values)
             new == Entry(M, entry)
  <2>1. /\ UNCHANGED <<announced, sm, failed>> /\ entry' = entry + 1 /\ size' = size + 1
        /\ ~Pending /\ ~Pending' /\ Formatting /\ Formatting' /\ entry \in 1 .. K
        /\ values' = Append(values, [msg |-> M, key |-> Keys[entry], data |-> sm.data])
    BY <1>5, <1>v DEF AppendEntry, ListAppend, callVars, rxVars, Pending, Formatting
  <2>2. /\ M \in 1 .. Len(announced) /\ new = [msg |-> M, key |-> Keys[entry], data |-> sm.data]
        /\ values' = Append(values, new) /\ new \in Element
    <3>1. M \in 1 .. Len(announced) /\ announced[M] = sm.data
      BY <1>v, <2>1 DEF MessagesInv, BufferIsAnnounced
    <3>2. sm.data \in Bits /\ Keys[entry] \in KeyNames
      BY <1>k, <2>1 DEF RxTypeOK, Machine, Bits
    <3> QED BY <2>1, <3>1, <3>2 DEF Entry, Element
  <2>3. /\ values' \in Seq(Element) /\ Len(values') = n + 1 /\ DOMAIN values' = 1 .. n + 1
        /\ values'[n + 1] = new
        /\ \A e \in 1 .. n : values'[e] = values[e]
    BY <2>2 DEF MessagesInv, ListedTypeOK
  <2>4. \A m, key : Entry(m, key)' = Entry(m, key)
    BY <2>1 DEF Entry
  <2>5. ListedTypeOK' /\ BufferIsAnnounced' /\ Len(values') = size'
    BY <1>v, <2>1, <2>3 DEF MessagesInv, ListedTypeOK, BufferIsAnnounced
  <2>6. NoneMissing'
    <3> SUFFICES ASSUME ~failed PROVE NoneMissing'
      BY <2>1 DEF NoneMissing
    <3>1. Whole = M - 1 /\ Whole' = M - 1 /\ M - 1 \in Nat
      BY <2>1, <2>2 DEF Whole
    <3>2. n = (M - 1) * K + (entry - 1) /\ (M - 1) * K \in Nat
      BY <1>k, <2>1, <3>1, Times DEF MessagesInv, NoneMissing
    <3>3. ASSUME NEW m \in 1 .. M - 1, NEW key \in 1 .. K
          PROVE  values'[(m - 1) * K + key] = Entry(m, key)
      <4>1. (m - 1) * K + key \in 1 .. (M - 1) * K
        BY <1>k, <3>1, Place
      <4> DEFINE before == (M - 1) * K
                 here == (m - 1) * K
      <4>2. here + key \in 1 .. n
        <5>1. n = before + (entry - 1) /\ before \in Nat /\ here + key \in 1 .. before
          BY <3>2, <4>1
        <5> HIDE DEF before, here, n
        <5> QED BY <2>1, <5>1
      <4>3. values[(m - 1) * K + key] = Entry(m, key)
        BY <1>k, <3>1 DEF MessagesInv, NoneMissing
      <4> QED BY <2>3, <4>2, <4>3
    <3>4. ASSUME NEW key \in 1 .. entry
          PROVE  values'[(M - 1) * K + key] = Entry(M, key)
      <4>1. CASE key = entry
        BY <1>v, <2>1, <2>3, <3>2, <4>1
      <4>2. CASE key # entry
        <5>1. key \in 1 .. entry - 1 /\ (M - 1) * K + key \in 1 .. n
          BY <1>v, <2>1, <3>2, <4>2
        <5>2. values[(M - 1) * K + key] = Entry(M, key)
          BY <2>1, <3>1, <5>1 DEF MessagesInv, NoneMissing
        <5> QED BY <2>3, <5>1, <5>2
      <4> QED BY <4>1, <4>2
    <3>5. entry' <= K + 1 /\ n + 1 = (M - 1) * K + (entry' - 1) /\ 1 .. entry' - 1 = 1 .. entry
      BY <1>k, <1>v, <2>1, <3>2
    <3> HIDE DEF M, n, new
    <3>6. /\ \A m \in 1 .. Whole' : \A key \in DOMAIN Keys :
                 values'[(m - 1) * Len(Keys) + key] = Entry(m, key)
          /\ \A key \in 1 .. entry' - 1 : values'[Whole' * Len(Keys) + key] = Entry(M, key)
      BY <1>k, <3>1, <3>3, <3>4, <3>5
    <3>7. Len(values') = Whole' * Len(Keys) + (entry' - 1)
      BY <2>3, <3>1, <3>5
    <3> QED BY <2>1, <3>5, <3>6, <3>7 DEF NoneMissing, M, Entry
  <2>7. NextFollowsOn'
    <3>1. /\ Len(values') + 1 > 1 /\ entry' > 1
          /\ (Len(values') + 1) - 1 = n + 1 /\ entry' - 1 = entry
      BY <1>v, <2>1, <2>3
    <3>2. values'[n + 1] = [msg |-> Len(announced'), key |-> Keys[entry],
                            data |-> announced'[Len(announced')]]
      BY <2>1, <2>3 DEF Entry
    <3> HIDE DEF n, M, new
    <3> QED BY <2>1, <3>1, <3>2 DEF NextFollowsOn, FollowsOn, Entry
  <2>8. ElementsInOrder'
    <3>1. \A e \in 1 .. n + 1 : \A m, key : FollowsOn(e, m, key) => FollowsOn(e, m, key)'
      BY <1>v, <2>3, <2>4 DEF FollowsOn
    <3>2. FollowsOn(n + 1, M, entry)
      BY <1>k, <2>1 DEF MessagesInv, NextFollowsOn
    <3>3. ASSUME NEW e \in 1 .. n + 1
          PROVE  \E m \in DOMAIN announced : \E key \in DOMAIN Keys :
                     values'[e] = Entry(m, key) /\ FollowsOn(e, m, key)
      <4>1. CASE e = n + 1
        BY <1>k, <1>v, <2>1, <2>2, <2>3, <3>2, <4>1
      <4>2. CASE e # n + 1
        BY <1>v, <2>3, <4>2 DEF MessagesInv, ElementsInOrder
      <4> QED BY <4>1, <4>2
    <3> QED BY <2>1, <2>3, <2>4, <3>1, <3>3 DEF ElementsInOrder
  <2> QED BY <2>5, <2>6, <2>7, <2>8 DEF MessagesInv
<1>6. CASE AppendEntryFails
  <2>1. /\ UNCHANGED <<values, announced, size, sm>> /\ failed' = TRUE /\ entry' = AfterFailure
        /\ ~Pending' /\ Formatting /\ Formatting' /\ entry <= K
    BY <1>6 DEF AppendEntryFails, ListAppendNoRoom, ListAppendNoString, callVars, rxVars, listVars,
                Pending, Formatting
  <2>2. ListedTypeOK' /\ BufferIsAnnounced' /\ Len(values') = size' /\ NoneMissing'
    BY <1>k, <1>v, <2>1 DEF MessagesInv, ListedTypeOK, BufferIsAnnounced, NoneMissing, AfterFailure
  <2>3. ASSUME entry' <= K PROVE FollowsOn(Len(values) + 1, Len(announced), entry')
    <3>1. Keys[entry] = Timestamp /\ entry' = entry + 1
      BY <1>k, <1>v, <2>1, <2>3 DEF AfterFailure
    <3>2. entry = 1
      BY <1>k, <1>v, <2>1, <3>1, KeysType
    <3>3. FollowsOn(Len(values) + 1, Len(announced), 1)
      BY <2>1, <3>2 DEF MessagesInv, NextFollowsOn
    <3> QED BY <3>1, <3>2, <3>3 DEF FollowsOn
  <2>4. NextFollowsOn' /\ ElementsInOrder'
    BY <1>s, <2>1, <2>3 DEF MessagesInv, NextFollowsOn
  <2> QED BY <2>2, <2>4 DEF MessagesInv
<1>7. CASE Formatted
  <2>1. /\ UNCHANGED <<values, announced, size, failed, sm, entry>>
        /\ ~Pending' /\ Formatting /\ ~Formatting' /\ entry > K
    BY <1>7 DEF Formatted, callVars, formatVars, rxVars, listVars, Pending, Formatting
  <2>2. ListedTypeOK' /\ BufferIsAnnounced' /\ Len(values') = size'
    BY <2>1 DEF MessagesInv, ListedTypeOK, BufferIsAnnounced
  <2>3. NextFollowsOn' /\ ElementsInOrder'
    BY <1>s, <2>1 DEF MessagesInv, NextFollowsOn
  <2>4. NoneMissing'
    <3> DEFINE M == Len(announced)
    <3> SUFFICES ASSUME ~failed PROVE NoneMissing'
      BY <2>1 DEF NoneMissing
    <3>1. M \in Nat /\ M - 1 \in Nat /\ Whole = M - 1 /\ Whole' = M /\ entry = K + 1
      <4>1. M # 0 /\ Whole = M - 1 /\ Whole' = M
        <5>1. announced # <<>> /\ announced \in Seq(Bits)
          BY <2>1 DEF MessagesInv, BufferIsAnnounced, ListedTypeOK
        <5>2. M # 0
          BY <5>1, EmptySeq
        <5>3. Whole = M - 1 /\ Whole' = M
          BY <2>1 DEF Whole
        <5> QED BY <5>2, <5>3
      <4>2. entry <= K + 1
        BY <2>1 DEF MessagesInv, NoneMissing
      <4> QED BY <1>k, <1>v, <2>1, <4>1, <4>2
    <3>2. (M - 1) * K \in Nat /\ M * K = (M - 1) * K + K
      BY <1>k, <3>1, Times
    <3>3. Len(values) = M * K
      BY <1>k, <2>1, <3>1, <3>2 DEF MessagesInv, NoneMissing
    <3>4. ASSUME NEW m \in 1 .. M, NEW key \in 1 .. K
          PROVE  values[(m - 1) * K + key] = Entry(m, key)
      <4>0. /\ \A o \in 1 .. M - 1 : values[(o - 1) * K + key] = Entry(o, key)
            /\ values[(M - 1) * K + key] = Entry(M, key)
        <5>1. /\ \A o \in 1 .. Whole : \A k \in 1 .. K : values[(o - 1) * K + k] = Entry(o, k)
              /\ \A k \in 1 .. entry - 1 : values[Whole * K + k] = Entry(M, k)
          BY <1>k, <2>1 DEF MessagesInv, NoneMissing
        <5>2. key \in 1 .. entry - 1
          BY <1>k, <3>1
        <5> QED BY <3>1, <5>1, <5>2
      <4>1. CASE m = M
        BY <4>0, <4>1
      <4>2. CASE m # M
        <5>1. m \in 1 .. M - 1
          BY <3>1, <4>2
        <5> QED BY <4>0, <5>1
      <4> QED BY <4>1, <4>2
    <3>5. \A m, key : Entry(m, key)' = Entry(m, key)
      BY <2>1 DEF Entry
    <3> HIDE DEF M
    <3>6. M * K + 0 = M * K
      BY <1>k, <3>1, <3>3, <1>v
    <3> QED BY <1>k, <2>1, <3>1, <3>3, <3>4, <3>5, <3>6 DEF NoneMissing
  <2> QED BY <2>2, <2>3, <2>4 DEF MessagesInv
<1> QED BY <1>1, <1>2, <1>3, <1>4, <1>5, <1>6, <1>7 DEF Next, Run

\* Every message is formatted, in order, from the buffer as it was announced,
\* unless memory ran out; then it lacks its last fields, or its timestamp
\* (the note of state_machine.h:167).
THEOREM MessagesFormatted == Spec => []EveryMessageFormatted
<1>1. MessagesInv => EveryMessageFormatted
  <2> SUFFICES ASSUME MessagesInv, pc = "caller", ~failed PROVE AllFormatted
    BY DEF MessagesInv, EveryMessageFormatted
  <2>1. ~Pending /\ ~Formatting /\ Whole = Len(announced) /\ Len(announced) \in Nat
    BY DEF Pending, Formatting, Whole, MessagesInv, ListedTypeOK
  <2>2. Len(announced) * Len(Keys) \in Nat
    BY <2>1, KeysType, Times
  <2> QED BY <2>1, <2>2 DEF MessagesInv, NoneMissing, AllFormatted, ListedTypeOK
<1> QED BY <1>1, MessagesInit, MessagesNext, AlwaysTakenInOrder, MachineTypes, PTL DEF Spec
=============================================================================
