--------------------------- MODULE FirFilter_proofs ---------------------------
(***************************************************************************)
(* The doubled state buffer of every stage of the cascade implements a     *)
(* sliding window, for every number of stages and taps, all decimations,   *)
(* any samples and any way to cut the stream into calls; the countdowns of *)
(* the stages together count the stream, so that it is decimated evenly    *)
(* and no call yields more than its buffers hold.                          *)
(***************************************************************************)
EXTENDS FirFilter, Arithmetic, SequenceTheorems, TLAPS

IInv == TypeOK /\ Doubled /\ BufferIsWindow

LEMMA StageType ==
    ASSUME NEW t \in Stages
    PROVE  /\ NumTaps[t] \in Nat \ {0} /\ Decimations[t] \in Nat \ {0}
           /\ 0 \in Taps(t)
           /\ Stages = 1 .. Len(Decimations) /\ Len(Decimations) \in Nat \ {0}
<1>1. Decimations \in Seq(Nat \ {0}) /\ Decimations # <<>> /\ NumTaps \in [Stages -> Nat \ {0}]
  BY FilterAssumption
<1>2. NumTaps[t] \in Nat \ {0}
  BY <1>1
<1>3. Stages = 1 .. Len(Decimations) /\ Len(Decimations) \in Nat \ {0}
  BY <1>1 DEF Stages
<1>4. Decimations[t] \in Nat \ {0}
  BY <1>1, <1>3
<1>5. 0 \in Taps(t)
  BY <1>2 DEF Taps
<1> QED BY <1>2, <1>3, <1>4, <1>5

LEMMA InitInv == Init => IInv
<1> SUFFICES ASSUME Init PROVE IInv
  OBVIOUS
<1>1. Len(Decimations) \in Nat /\ Zero \in Samples
  BY FilterAssumption
<1>2. ASSUME NEW t \in Stages
      PROVE  /\ state[t] \in [Positions(t) -> Samples]
             /\ ins1[t] \in Taps(t)
             /\ count[t] \in 1 .. Decimations[t]
             /\ window[t] \in [Taps(t) -> Samples]
             /\ \A k \in Taps(t) : /\ state[t][k + NumTaps[t]] = state[t][k]
                                   /\ Behind(t, k) = window[t][k]
  <2>1. /\ state[t] = [p \in Positions(t) |-> Zero]
        /\ ins1[t] = 0
        /\ count[t] = Decimations[t]
        /\ window[t] = [k \in Taps(t) |-> Zero]
    BY DEF Init
  <2>2. \A k \in Taps(t) : /\ k \in Positions(t) /\ k + NumTaps[t] \in Positions(t)
                           /\ 0 + NumTaps[t] - 1 - k \in Positions(t)
    BY StageType DEF Taps, Positions
  <2> QED BY <1>1, <2>1, <2>2, StageType DEF Behind
<1>3. /\ DOMAIN state = Stages /\ DOMAIN ins1 = Stages /\ DOMAIN count = Stages
      /\ DOMAIN window = Stages
  BY DEF Init, Stages
<1>4. s \in 0 .. Len(Decimations) /\ input \in Seq(Samples) /\ output \in Seq(Samples)
  BY <1>1 DEF Init
<1>5. TypeOK
  BY <1>2, <1>3, <1>4 DEF TypeOK
<1> QED BY <1>2, <1>5 DEF IInv, Doubled, BufferIsWindow

\* Only Insert touches the stages.
LEMMA OthersInv ==
    ASSUME IInv, UNCHANGED stageVars,
           s' \in 0 .. Len(Decimations), input' \in Seq(Samples), output' \in Seq(Samples)
    PROVE  IInv'
BY DEF IInv, TypeOK, Doubled, BufferIsWindow, Behind, stageVars

\* Writing x at both insertion points of the current stage.
LEMMA InsertedType ==
    ASSUME TypeOK, s \in Stages, NEW x \in Samples
    PROVE  /\ Inserted(x) \in [Positions(s) -> Samples]
           /\ \A p \in Positions(s) :
                  Inserted(x)[p] = IF p \in {ins1[s], ins1[s] + NumTaps[s]} THEN x
                                   ELSE state[s][p]
           /\ Convolved(Inserted(x)) \in [Taps(s) -> Samples]
           /\ Shifted(x) \in [Taps(s) -> Samples]
<1>1. ins1[s] \in Taps(s) /\ state[s] \in [Positions(s) -> Samples]
      /\ window[s] \in [Taps(s) -> Samples] /\ NumTaps[s] \in Nat \ {0}
  BY StageType DEF TypeOK
<1>2. ins1[s] \in Positions(s) /\ ins1[s] + NumTaps[s] \in Positions(s)
  BY <1>1 DEF Positions, Taps
<1>3. Inserted(x) \in [Positions(s) -> Samples]
  BY <1>1, <1>2 DEF Inserted
<1>4. \A p \in Positions(s) :
          Inserted(x)[p] = IF p \in {ins1[s], ins1[s] + NumTaps[s]} THEN x ELSE state[s][p]
  BY <1>1, <1>2 DEF Inserted
<1>5. \A k \in Taps(s) : ins1[s] + NumTaps[s] - k \in Positions(s)
  BY <1>1 DEF Positions, Taps
<1>6. Convolved(Inserted(x)) \in [Taps(s) -> Samples]
  BY <1>3, <1>5 DEF Convolved
<1>7. \A k \in Taps(s) : k # 0 => k - 1 \in Taps(s)
  BY <1>1 DEF Taps
<1>8. Shifted(x) \in [Taps(s) -> Samples]
  BY <1>1, <1>7 DEF Shifted
<1> QED BY <1>3, <1>4, <1>6, <1>8

\* The insertion points stay inside the buffer.
LEMMA AdvancedType ==
    ASSUME TypeOK, s \in Stages
    PROVE  /\ Advanced \in Taps(s)
           /\ \/ ins1[s] = NumTaps[s] - 1 /\ Advanced = 0
              \/ ins1[s] < NumTaps[s] - 1 /\ Advanced = ins1[s] + 1
<1>1. ins1[s] \in Taps(s) /\ NumTaps[s] \in Nat \ {0}
  BY StageType DEF TypeOK
<1> QED BY <1>1 DEF Advanced, Taps

\* The current stage after an insertion: its halves are the same, and its
\* window lies behind the advanced insertion points.
LEMMA InsertedWindow ==
    ASSUME IInv, s \in Stages, NEW x \in Samples, NEW k \in Taps(s)
    PROVE  /\ Inserted(x)[k + NumTaps[s]] = Inserted(x)[k]
           /\ Inserted(x)[Advanced + NumTaps[s] - 1 - k] = Shifted(x)[k]
           /\ Convolved(Inserted(x))[k] = Shifted(x)[k]
<1> DEFINE n == NumTaps[s]
           i == ins1[s]
<1>1. /\ i \in Nat /\ i <= n - 1 /\ n \in Nat \ {0} /\ k \in Nat /\ k <= n - 1
      /\ TypeOK
  BY StageType DEF IInv, TypeOK, Taps
<1>2. \A p \in Positions(s) :
          Inserted(x)[p] = IF p \in {i, i + n} THEN x ELSE state[s][p]
  BY <1>1, InsertedType
<1>3. \A q \in Taps(s) : state[s][q + n] = state[s][q]
  BY DEF IInv, Doubled
<1>4. \A q \in Taps(s) : state[s][i + n - 1 - q] = window[s][q]
  BY DEF IInv, BufferIsWindow, Behind
<1>5. Shifted(x)[k] = IF k = 0 THEN x ELSE window[s][k - 1]
  BY DEF Shifted
<1>6. Convolved(Inserted(x))[k] = Inserted(x)[i + n - k]
  BY DEF Convolved
<1>7. Inserted(x)[k + n] = Inserted(x)[k]
  <2>1. k \in Positions(s) /\ k + n \in Positions(s)
    BY <1>1 DEF Positions
  <2>2. k + n \in {i, i + n} <=> k \in {i, i + n}
    BY <1>1
  <2> QED BY <1>2, <1>3, <2>1, <2>2
<1>8. Inserted(x)[i + n - k] = Shifted(x)[k]
  <2>1. i + n - k \in Positions(s)
    BY <1>1 DEF Positions
  <2>2. CASE k = 0
    <3>1. i + n - k = i + n
      BY <1>1, <2>2
    <3> QED BY <1>2, <1>5, <2>1, <2>2, <3>1
  <2>3. CASE k # 0
    <3>1. k - 1 \in Taps(s) /\ i + n - 1 - (k - 1) = i + n - k
      BY <1>1, <2>3 DEF Taps
    <3>2. i + n - k \notin {i, i + n}
      BY <1>1, <2>3
    <3>3. window[s][k - 1] = state[s][i + n - k]
      BY <1>4, <3>1
    <3> QED BY <1>2, <1>5, <2>1, <2>3, <3>2, <3>3
  <2> QED BY <2>2, <2>3
<1>9. Inserted(x)[Advanced + n - 1 - k] = Inserted(x)[i + n - k]
  <2>1. CASE i < n - 1 /\ Advanced = i + 1
    BY <1>1, <2>1
  <2>2. CASE i = n - 1 /\ Advanced = 0
    <3>1. /\ Advanced + n - 1 - k = n - 1 - k
          /\ i + n - k = (n - 1 - k) + n
          /\ n - 1 - k \in Positions(s) /\ (n - 1 - k) + n \in Positions(s)
          /\ n - 1 - k \in Taps(s)
      BY <1>1, <2>2 DEF Positions, Taps
    <3>2. (n - 1 - k) + n \in {i, i + n} <=> n - 1 - k \in {i, i + n}
      BY <1>1, <2>2
    <3> HIDE DEF i, n
    <3> QED BY <1>2, <1>3, <3>1, <3>2
  <2> QED BY <1>1, <2>1, <2>2, AdvancedType
<1> QED BY <1>6, <1>7, <1>8, <1>9

LEMMA InsertInv == ASSUME IInv, Insert PROVE IInv'
<1> DEFINE x == Head(input)
<1>1. TypeOK /\ s \in Stages /\ input # <<>>
  BY DEF IInv, Insert
<1>2. x \in Samples /\ Tail(input) \in Seq(Samples)
  BY <1>1 DEF TypeOK
<1>3. /\ state' = [state EXCEPT ![s] = Inserted(x)]
      /\ ins1' = [ins1 EXCEPT ![s] = Advanced]
      /\ window' = [window EXCEPT ![s] = Shifted(x)]
      /\ input' = Tail(input) /\ s' = s
      /\ Count(Inserted(x))
  BY DEF Insert
<1> HIDE DEF x
<1>4. /\ DOMAIN state = Stages /\ DOMAIN ins1 = Stages /\ DOMAIN count = Stages
      /\ DOMAIN window = Stages
  BY <1>1 DEF TypeOK
<1>5. /\ state'[s] = Inserted(x) /\ ins1'[s] = Advanced /\ window'[s] = Shifted(x)
      /\ DOMAIN state' = Stages /\ DOMAIN ins1' = Stages /\ DOMAIN window' = Stages
      /\ \A t \in Stages \ {s} :
             state'[t] = state[t] /\ ins1'[t] = ins1[t] /\ window'[t] = window[t]
  BY <1>1, <1>3, <1>4
<1>6. DOMAIN count' = Stages /\ \A t \in Stages : count'[t] \in 1 .. Decimations[t]
  <2>1. \A t \in Stages : count[t] \in 1 .. Decimations[t] /\ Decimations[t] \in Nat \ {0}
    BY <1>1, StageType DEF TypeOK
  <2>2. CASE count[s] - 1 = 0
    BY <1>1, <1>3, <1>4, <2>1, <2>2 DEF Count
  <2>3. CASE count[s] - 1 # 0
    <3>1. count' = [count EXCEPT ![s] = @ - 1]
      BY <1>3, <2>3 DEF Count
    <3>2. count[s] - 1 \in 1 .. Decimations[s]
      BY <1>1, <2>1, <2>3
    <3> QED BY <1>1, <1>4, <2>1, <3>1, <3>2
  <2> QED BY <2>2, <2>3
<1>7. output' \in Seq(Samples)
  <2>1. Convolve(s, Convolved(Inserted(x))) \in Samples
    BY <1>1, <1>2, InsertedType, FilterAssumption
  <2>2. output' = Append(output, Convolve(s, Convolved(Inserted(x)))) \/ output' = output
    BY <1>3 DEF Count
  <2>3. output \in Seq(Samples)
    BY <1>1 DEF TypeOK
  <2>4. Append(output, Convolve(s, Convolved(Inserted(x)))) \in Seq(Samples)
    BY <2>1, <2>3, AppendProperties
  <2> QED BY <2>2, <2>3, <2>4
<1>8. TypeOK'
  <2>1. /\ Inserted(x) \in [Positions(s) -> Samples] /\ Advanced \in Taps(s)
        /\ Shifted(x) \in [Taps(s) -> Samples]
    BY <1>1, <1>2, InsertedType, AdvancedType
  <2>2. ASSUME NEW t \in Stages
        PROVE  /\ state'[t] \in [Positions(t) -> Samples] /\ ins1'[t] \in Taps(t)
               /\ window'[t] \in [Taps(t) -> Samples]
    <3>1. CASE t = s
      BY <1>5, <2>1, <3>1
    <3>2. CASE t # s
      BY <1>1, <1>5, <3>2 DEF TypeOK
    <3> QED BY <3>1, <3>2
  <2> QED BY <1>1, <1>2, <1>3, <1>5, <1>6, <1>7, <2>2 DEF TypeOK
<1>9. ASSUME NEW t \in Stages, NEW k \in Taps(t)
      PROVE  /\ state'[t][k + NumTaps[t]] = state'[t][k]
             /\ state'[t][ins1'[t] + NumTaps[t] - 1 - k] = window'[t][k]
  <2>1. CASE t = s
    BY <1>1, <1>2, <1>5, <2>1, InsertedWindow
  <2>2. CASE t # s
    BY <1>5, <2>2 DEF IInv, Doubled, BufferIsWindow, Behind
  <2> QED BY <2>1, <2>2
<1> QED BY <1>8, <1>9 DEF IInv, Doubled, BufferIsWindow, Behind

LEMMA NextInv == IInv /\ [Next]_vars => IInv'
<1> SUFFICES ASSUME IInv, [Next]_vars PROVE IInv'
  OBVIOUS
<1>1. /\ Len(Decimations) \in Nat \ {0} /\ Stages = 1 .. Len(Decimations)
      /\ s \in 0 .. Len(Decimations) /\ input \in Seq(Samples) /\ output \in Seq(Samples)
  BY FilterAssumption DEF IInv, TypeOK, Stages
<1>2. ASSUME NEW n \in 0 .. MaxInput, NEW samples \in [1 .. n -> Samples], Call(samples)
      PROVE  IInv'
  <2>1. samples \in Seq(Samples)
    BY SeqDef
  <2> QED BY <1>1, <1>2, <2>1, OthersInv DEF Call
<1>3. CASE Insert
  BY <1>3, InsertInv
<1>4. CASE NextStage
  BY <1>1, <1>4, OthersInv DEF NextStage
<1>5. CASE Return
  BY <1>1, <1>5, OthersInv DEF Return
<1>6. CASE UNCHANGED vars
  BY <1>1, <1>6, OthersInv DEF vars
<1> QED BY <1>2, <1>3, <1>4, <1>5, <1>6 DEF Next

\* Both halves of every buffer hold the window of its stage (update()).
THEOREM Invariance == Spec => []IInv
BY InitInv, NextInv, PTL DEF Spec

\* Behind the insertion points of every stage always lies the window of its
\* last samples.
THEOREM BufferHoldsWindow == Spec => []BufferIsWindow
<1>1. IInv => BufferIsWindow
  BY DEF IInv
<1> QED BY <1>1, Invariance, PTL

\* Every output is computed from the last samples of its stage, in order.
THEOREM OutputsFromWindow == Spec => OutputFromWindow
<1> DEFINE FromWindow ==
        Len(output') > Len(output) => output' = Append(output, Convolve(s, window'[s]))
<1>1. ASSUME IInv, [Next]_vars
      PROVE  [FromWindow]_vars
  <2>1. output \in Seq(Samples) /\ Len(output) \in Nat
    BY <1>1 DEF IInv, TypeOK
  <2>2. CASE Insert
    <3> DEFINE x == Head(input)
    <3>1. TypeOK /\ s \in Stages /\ x \in Samples
      BY <1>1, <2>2 DEF IInv, TypeOK, Insert
    <3>2. window'[s] = Shifted(x) /\ Count(Inserted(x))
      BY <2>2, <3>1 DEF Insert, TypeOK
    <3> HIDE DEF x
    <3>3. Convolved(Inserted(x)) = Shifted(x)
      <4>1. \A k \in Taps(s) : Convolved(Inserted(x))[k] = Shifted(x)[k]
        BY <1>1, <3>1, InsertedWindow
      <4> QED BY <3>1, <4>1, InsertedType
    <3> QED BY <2>1, <3>2, <3>3 DEF Count
  <2>3. CASE \E n \in 0 .. MaxInput : \E samples \in [1 .. n -> Samples] : Call(samples)
    BY <2>1, <2>3 DEF Call
  <2>4. CASE NextStage
    BY <2>1, <2>4 DEF NextStage
  <2>5. CASE Return
    BY <2>1, <2>5 DEF Return
  <2> QED BY <1>1, <2>2, <2>3, <2>4, <2>5 DEF Next
<1> QED BY <1>1, Invariance, PTL DEF Spec, OutputFromWindow

-----------------------------------------------------------------------------
(* The decimation up to a stage.                                           *)

\* The recursive definition of DecimationTo defines a function.
LEMMA DecimationToDef ==
    DecimationTo = [t \in 0 .. Len(Decimations) |->
                       IF t = 0 THEN 1 ELSE DecimationTo[t - 1] * Decimations[t]]
<1> DEFINE N == Len(Decimations)
           Product(f) == f = [t \in 0 .. N |-> IF t = 0 THEN 1 ELSE f[t - 1] * Decimations[t]]
<1>1. N \in Nat
  BY FilterAssumption
<1> HIDE DEF N
<1>2. \E f : Product(f)
  BY <1>1, RunningProduct
<1>3. Product(CHOOSE f : Product(f))
  BY <1>2
<1> QED BY <1>3 DEF N, DecimationTo

LEMMA DecimationSteps ==
    /\ DecimationTo[0] = 1
    /\ \A t \in Stages : DecimationTo[t] = DecimationTo[t - 1] * Decimations[t]
<1>1. Stages = 1 .. Len(Decimations) /\ Len(Decimations) \in Nat
  BY FilterAssumption DEF Stages
<1>2. \A t \in 0 .. Len(Decimations) :
          DecimationTo[t] = IF t = 0 THEN 1 ELSE DecimationTo[t - 1] * Decimations[t]
  <2> DEFINE f == DecimationTo
  <2>1. f = [t \in 0 .. Len(Decimations) |-> IF t = 0 THEN 1 ELSE f[t - 1] * Decimations[t]]
    BY DecimationToDef
  <2> HIDE DEF f
  <2>2. \A t \in 0 .. Len(Decimations) : f[t] = IF t = 0 THEN 1 ELSE f[t - 1] * Decimations[t]
    BY <2>1
  <2> QED BY <2>2 DEF f
<1> QED BY <1>1, <1>2

LEMMA DecimationType == \A t \in 0 .. Len(Decimations) : DecimationTo[t] \in Nat \ {0}
<1>1. Stages = 1 .. Len(Decimations) /\ Len(Decimations) \in Nat
  BY FilterAssumption DEF Stages
<1> DEFINE Bad == {t \in 0 .. Len(Decimations) : DecimationTo[t] \notin Nat \ {0}}
<1> SUFFICES ASSUME Bad # {} PROVE FALSE
  OBVIOUS
<1>2. Bad \in SUBSET Nat
  OBVIOUS
<1>3. PICK t \in Bad : \A u \in Bad : t <= u
  <2> HIDE DEF Bad
  <2> QED BY <1>2, Least
<1>4. t # 0 /\ t \in Stages
  BY <1>1, DecimationSteps
<1>5. DecimationTo[t - 1] \in Nat \ {0}
  BY <1>1, <1>3, <1>4
<1>6. Decimations[t] \in Nat \ {0}
  BY <1>4, StageType
<1> QED BY <1>4, <1>5, <1>6, DecimationSteps

-----------------------------------------------------------------------------
(* How far the stages are: the position a of the stream before this call   *)
(* and b after it, in samples of the first stage.                          *)

\* The samples that stage t is given up to position x of the stream.
Reached(x, t) == x \div DecimationTo[t - 1]

\* Where the countdown of stage t stands after c samples.
Counted(t, c) == Decimations[t] - count[t] = c % Decimations[t]

Positioned(a, b) ==
    /\ a <= b /\ b <= a + MaxInput
    /\ phase = b % TotalDecimation
    /\ due = (b \div TotalDecimation) - (a \div TotalDecimation)
    /\ \A t \in Stages : t < s \/ s = 0 => Counted(t, Reached(b, t))
    /\ \A t \in Stages : s < t /\ s # 0 => Counted(t, Reached(a, t))
    /\ s = 0 => Len(output) = due
    /\ s # 0 => LET c == Reached(b, s) - Len(input)
                IN  /\ Reached(a, s) <= c
                    /\ Counted(s, c)
                    /\ Len(output) = (c \div Decimations[s]) - (Reached(a, s) \div Decimations[s])

PositionInv == \E a, b \in Nat : Positioned(a, b)

LEMMA ReachedSteps ==
    ASSUME NEW x \in Nat, NEW t \in Stages
    PROVE  /\ Reached(x, t) \in Nat
           /\ Reached(x, t) \div Decimations[t] = x \div DecimationTo[t]
           /\ t < Len(Decimations) => Reached(x, t + 1) = x \div DecimationTo[t]
           /\ t = 1 => Reached(x, t) = x
<1>1. t \in 1 .. Len(Decimations) /\ Len(Decimations) \in Nat /\ Decimations[t] \in Nat \ {0}
  BY StageType
<1>2. t - 1 \in 0 .. Len(Decimations) /\ (t + 1) - 1 = t
  BY <1>1
<1>3. PICK d \in Nat \ {0}, e \in Nat \ {0} :
          d = DecimationTo[t - 1] /\ e = Decimations[t] /\ DecimationTo[t] = d * e
  BY <1>1, <1>2, DecimationType, DecimationSteps
<1>4. (x \div d) \div e = x \div (d * e) /\ x \div d \in Nat
  BY NestedDivision
<1>5. t = 1 => d = 1
  BY <1>3, DecimationSteps
<1>6. x \div 1 = x
  OBVIOUS
<1> QED BY <1>2, <1>3, <1>4, <1>5, <1>6 DEF Reached

LEMMA ReachedMonotone ==
    ASSUME NEW x \in Nat, NEW y \in Nat, x <= y, NEW t \in Stages
    PROVE  Reached(x, t) <= Reached(y, t)
<1>1. DecimationTo[t - 1] \in Nat \ {0}
  BY StageType, DecimationType
<1> QED BY <1>1, DivisionMonotone DEF Reached

LEMMA TotalType == TotalDecimation \in Nat \ {0}
<1>1. Len(Decimations) \in Nat
  BY FilterAssumption
<1> QED BY <1>1, DecimationType DEF TotalDecimation

LEMMA InitPosition == Init => PositionInv
<1> SUFFICES ASSUME Init PROVE Positioned(0, 0)
  BY DEF PositionInv
<1>1. \A d \in Nat \ {0} : 0 % d = 0 /\ 0 \div d = 0
  OBVIOUS
<1>2. ASSUME NEW t \in Stages PROVE Counted(t, Reached(0, t))
  <2>1. DecimationTo[t - 1] \in Nat \ {0} /\ Decimations[t] \in Nat \ {0}
    BY StageType, DecimationType
  <2>2. Reached(0, t) = 0
    BY <1>1, <2>1 DEF Reached
  <2>3. count[t] = Decimations[t]
    BY DEF Init
  <2> QED BY <1>1, <2>1, <2>2, <2>3 DEF Counted
<1>3. MaxInput \in Nat
  BY FilterAssumption
<1>4. phase = 0 % TotalDecimation
      /\ due = (0 \div TotalDecimation) - (0 \div TotalDecimation)
  BY <1>1, TotalType DEF Init
<1>5. s = 0 /\ Len(output) = due
  BY DEF Init
<1> QED BY <1>2, <1>3, <1>4, <1>5 DEF Positioned

\* A call takes the position before it to where the last call ended.
LEMMA CallPosition ==
    ASSUME IInv, PositionInv, NEW n \in 0 .. MaxInput,
           NEW samples \in [1 .. n -> Samples], Call(samples)
    PROVE  PositionInv'
<1>1. PICK a \in Nat, b \in Nat : Positioned(a, b)
  BY DEF PositionInv
<1>2. MaxInput \in Nat /\ n \in Nat /\ n <= MaxInput /\ b + n \in Nat /\ b <= b + n
  BY FilterAssumption
<1>3. Len(samples) = n
  BY <1>2
<1>4. /\ s = 0 /\ s' = 1 /\ input' = samples /\ output' = <<>> /\ count' = count
      /\ phase' = (phase + n) % TotalDecimation
      /\ due' = (phase + n) \div TotalDecimation
  BY <1>3 DEF Call, stageVars
<1>5. /\ phase' = (b + n) % TotalDecimation
      /\ due' = ((b + n) \div TotalDecimation) - (b \div TotalDecimation)
  <2>1. phase = b % TotalDecimation
    BY <1>1 DEF Positioned
  <2> QED BY <1>2, <1>4, <2>1, Modulo, TotalType
<1>6. \A t \in Stages : Decimations[t] - count'[t] = Reached(b, t) % Decimations[t]
  BY <1>1, <1>4 DEF Positioned, Counted
<1>7. 1 \in Stages
  BY FilterAssumption DEF Stages
<1>8. Reached(b, 1) = b /\ Reached(b + n, 1) = b + n
  BY <1>2, <1>7, ReachedSteps
<1>9. Positioned(b, b + n)'
  <2>1. (b + n) - Len(input') = b /\ Len(output') = 0
    BY <1>2, <1>3, <1>4
  <2>2. b \div Decimations[1] \in Nat
    BY <1>7, <1>8, ReachedSteps, StageType, QuotientAndRest
  <2>3. /\ Reached(b + n, s') - Len(input') = b
        /\ Reached(b, s') <= b
        /\ Decimations[s'] - count'[s'] = b % Decimations[s']
        /\ Len(output') = (b \div Decimations[s']) - (Reached(b, s') \div Decimations[s'])
    BY <1>4, <1>6, <1>7, <1>8, <2>1, <2>2
  <2>4. \A t \in Stages : ~(t < s')
    BY <1>4, StageType
  <2>5. s' # 0
    BY <1>4
  <2>6. b <= b + n /\ b + n <= b + MaxInput
    BY <1>2
  <2> QED BY <1>5, <1>6, <2>3, <2>4, <2>5, <2>6, Zenon DEF Positioned, Counted, Reached
<1> QED BY <1>2, <1>9 DEF PositionInv

\* A sample moves the current stage on by one position.
LEMMA InsertPosition == ASSUME IInv, PositionInv, Insert PROVE PositionInv'
<1>1. PICK a \in Nat, b \in Nat : Positioned(a, b)
  BY DEF PositionInv
<1>2. /\ s \in Stages /\ s # 0 /\ input # <<>> /\ input \in Seq(Samples)
      /\ output \in Seq(Samples)
      /\ Decimations[s] \in Nat \ {0} /\ count[s] \in 1 .. Decimations[s]
      /\ DOMAIN count = Stages
  BY StageType DEF Insert, IInv, TypeOK
<1>3. Len(input') = Len(input) - 1 /\ Len(input) \in Nat \ {0} /\ Len(output) \in Nat
  BY <1>2 DEF Insert
<1>4. s' = s /\ phase' = phase /\ due' = due /\ Count(Inserted(Head(input)))
  BY DEF Insert
<1>5. PICK c \in Nat : c = Reached(b, s) - Len(input)
  <2>1. /\ Reached(b, s) \in Nat /\ Reached(a, s) \in Nat
        /\ Reached(a, s) <= Reached(b, s) - Len(input)
    BY <1>1, <1>2, ReachedSteps DEF Positioned
  <2> QED BY <1>3, <2>1
<1>6. /\ Reached(a, s) <= c /\ Reached(a, s) \in Nat /\ Reached(b, s) \in Nat
      /\ Decimations[s] - count[s] = c % Decimations[s]
      /\ Len(output) = (c \div Decimations[s]) - (Reached(a, s) \div Decimations[s])
  BY <1>1, <1>2, <1>5, ReachedSteps DEF Positioned, Counted
<1>7. \A t \in Stages \ {s} : count'[t] = count[t]
  BY <1>2, <1>4 DEF Count
<1>8. /\ Decimations[s] - count'[s] = (c + 1) % Decimations[s]
      /\ Len(output') = ((c + 1) \div Decimations[s]) - (Reached(a, s) \div Decimations[s])
  <2>1. c \div Decimations[s] \in Nat /\ Reached(a, s) \div Decimations[s] \in Nat
    BY <1>2, <1>6, QuotientAndRest
  <2>2. CASE count[s] - 1 = 0
    <3>1. count'[s] = Decimations[s] /\ Len(output') = Len(output) + 1
      BY <1>2, <1>4, <2>2 DEF Count
    <3>2. c % Decimations[s] = Decimations[s] - 1
      BY <1>2, <1>6, <2>2
    <3>3. (c + 1) % Decimations[s] = 0 /\ (c + 1) \div Decimations[s] = (c \div Decimations[s]) + 1
      BY <1>2, <3>2, NextPosition
    <3>4. Len(output') = ((c \div Decimations[s]) + 1) - (Reached(a, s) \div Decimations[s])
      <4> DEFINE q == c \div Decimations[s]
                 p == Reached(a, s) \div Decimations[s]
      <4>1. Len(output) = q - p /\ q \in Nat /\ p \in Nat
        BY <1>6, <2>1
      <4> HIDE DEF q, p
      <4>2. Len(output') = (q + 1) - p
        BY <3>1, <4>1
      <4> QED BY <4>2 DEF q, p
    <3>5. Decimations[s] - count'[s] = (c + 1) % Decimations[s]
      BY <1>2, <3>1, <3>3
    <3> QED BY <3>3, <3>4, <3>5
  <2>3. CASE count[s] - 1 # 0
    <3>1. count'[s] = count[s] - 1 /\ Len(output') = Len(output)
      BY <1>2, <1>4, <2>3 DEF Count
    <3>2. c % Decimations[s] # Decimations[s] - 1
      BY <1>2, <1>6, <2>3
    <3>3. /\ (c + 1) % Decimations[s] = (c % Decimations[s]) + 1
          /\ (c + 1) \div Decimations[s] = c \div Decimations[s]
      BY <1>2, <3>2, NextPosition
    <3> QED BY <1>2, <1>6, <2>1, <3>1, <3>3
  <2> QED BY <2>2, <2>3
<1>9. c + 1 = Reached(b, s) - Len(input') /\ Reached(a, s) <= c + 1
  BY <1>3, <1>5, <1>6
<1>10. Positioned(a, b)'
  <2>1. \A t \in Stages : t < s => Decimations[t] - count'[t] = Reached(b, t) % Decimations[t]
    BY <1>1, <1>2, <1>7, StageType DEF Positioned, Counted
  <2>2. \A t \in Stages : s < t => Decimations[t] - count'[t] = Reached(a, t) % Decimations[t]
    BY <1>1, <1>2, <1>7, StageType DEF Positioned, Counted
  <2>3. /\ a <= b /\ b <= a + MaxInput /\ phase' = b % TotalDecimation
        /\ due' = (b \div TotalDecimation) - (a \div TotalDecimation)
    BY <1>1, <1>4 DEF Positioned
  <2> QED BY <1>2, <1>4, <1>8, <1>9, <2>1, <2>2, <2>3 DEF Positioned, Counted, Reached
<1> QED BY <1>10 DEF PositionInv

\* A stage that has taken all its samples has as many outputs as the
\* positions of the next stage differ.
LEMMA StageEnds ==
    ASSUME IInv, s \in Stages, input = <<>>,
           NEW a \in Nat, NEW b \in Nat, Positioned(a, b)
    PROVE  /\ Counted(s, Reached(b, s))
           /\ Len(output) = (b \div DecimationTo[s]) - (a \div DecimationTo[s])
<1>1. s # 0 /\ Len(input) = 0
  BY StageType
<1>2. Reached(b, s) \in Nat /\ Reached(b, s) - Len(input) = Reached(b, s)
  BY <1>1, ReachedSteps
<1> QED BY <1>1, <1>2, ReachedSteps DEF Positioned

LEMMA NextStagePosition == ASSUME IInv, PositionInv, NextStage PROVE PositionInv'
<1>1. PICK a \in Nat, b \in Nat : Positioned(a, b)
  BY DEF PositionInv
<1>2. /\ s \in Stages /\ s # 0 /\ s + 1 \in Stages /\ s \in Nat /\ s < Len(Decimations)
      /\ input = <<>>
  BY StageType DEF NextStage
<1>3. /\ s' = s + 1 /\ input' = output /\ output' = <<>> /\ count' = count
      /\ phase' = phase /\ due' = due
  BY DEF NextStage, stageVars
<1>4. /\ Counted(s, Reached(b, s))
      /\ Len(output) = Reached(b, s + 1) - Reached(a, s + 1)
      /\ Reached(a, s + 1) \in Nat /\ Reached(b, s + 1) \in Nat
  BY <1>1, <1>2, StageEnds, ReachedSteps
<1>5. Reached(b, s + 1) - Len(input') = Reached(a, s + 1) /\ Len(output') = 0
  BY <1>3, <1>4
<1>6. Reached(a, s + 1) \div Decimations[s + 1] \in Nat
  BY <1>2, <1>4, StageType, QuotientAndRest
<1>7. \A t \in Stages : t < s + 1 =>
          Decimations[t] - count'[t] = Reached(b, t) % Decimations[t]
  <2> SUFFICES ASSUME NEW t \in Stages, t < s + 1 PROVE Counted(t, Reached(b, t))
    BY <1>3 DEF Counted
  <2>1. t < s \/ t = s
    BY <1>2, StageType
  <2> QED BY <1>1, <1>4, <2>1 DEF Positioned
<1>8. \A t \in Stages : s < t =>
          Decimations[t] - count'[t] = Reached(a, t) % Decimations[t]
  BY <1>1, <1>2, <1>3 DEF Positioned, Counted
<1>9. /\ a <= b /\ b <= a + MaxInput /\ phase' = b % TotalDecimation
      /\ due' = (b \div TotalDecimation) - (a \div TotalDecimation)
  BY <1>1, <1>3 DEF Positioned
<1>10. Positioned(a, b)'
  <2>1. s' # 0 /\ s < s + 1 /\ \A t \in Stages : s + 1 < t => s < t
    BY <1>2, <1>3, StageType
  <2>2. \A t \in Stages :
            /\ t < s' => Decimations[t] - count'[t] = Reached(b, t) % Decimations[t]
            /\ s' < t => Decimations[t] - count'[t] = Reached(a, t) % Decimations[t]
    BY <1>3, <1>7, <1>8, <2>1
  <2>3. /\ Reached(a, s') <= Reached(b, s') - Len(input')
        /\ Decimations[s'] - count'[s'] = (Reached(b, s') - Len(input')) % Decimations[s']
        /\ Len(output') = ((Reached(b, s') - Len(input')) \div Decimations[s'])
                              - (Reached(a, s') \div Decimations[s'])
    <3>1. Decimations[s + 1] - count'[s + 1] = Reached(a, s + 1) % Decimations[s + 1]
      BY <1>2, <1>8, <2>1
    <3> QED BY <1>3, <1>4, <1>5, <1>6, <3>1
  <2> QED BY <1>9, <2>1, <2>2, <2>3, Zenon DEF Positioned, Counted, Reached
<1> QED BY <1>10 DEF PositionInv

LEMMA ReturnPosition == ASSUME IInv, PositionInv, Return PROVE PositionInv'
<1>1. PICK a \in Nat, b \in Nat : Positioned(a, b)
  BY DEF PositionInv
<1>2. s \in Stages /\ s # 0 /\ s = Len(Decimations) /\ input = <<>>
  BY FilterAssumption DEF Return, Stages
<1>3. s' = 0 /\ output' = output /\ count' = count /\ phase' = phase /\ due' = due
  BY DEF Return, stageVars
<1>4. /\ a <= b /\ b <= a + MaxInput /\ phase' = b % TotalDecimation
      /\ due' = (b \div TotalDecimation) - (a \div TotalDecimation)
  BY <1>1, <1>3 DEF Positioned
<1>5. Len(output') = due'
  BY <1>1, <1>2, <1>3, <1>4, StageEnds DEF TotalDecimation
<1>6. \A t \in Stages : Decimations[t] - count'[t] = Reached(b, t) % Decimations[t]
  <2> SUFFICES ASSUME NEW t \in Stages PROVE Counted(t, Reached(b, t))
    BY <1>3 DEF Counted
  <2>1. t < s \/ t = s
    BY <1>2, StageType
  <2> QED BY <1>1, <1>2, <2>1, StageEnds DEF Positioned
<1>7. Positioned(a, b)'
  BY <1>3, <1>4, <1>5, <1>6 DEF Positioned, Counted, Reached
<1> QED BY <1>7 DEF PositionInv

\* The countdowns of all stages are where the number of samples put into the
\* cascade puts them (perform_stage()).
THEOREM Position == Spec => []PositionInv
<1>1. ASSUME IInv, PositionInv, [Next]_vars PROVE PositionInv'
  <2>1. CASE \E n \in 0 .. MaxInput : \E samples \in [1 .. n -> Samples] : Call(samples)
    BY <1>1, <2>1, CallPosition
  <2>2. CASE UNCHANGED vars
    BY <1>1, <2>2 DEF PositionInv, Positioned, Counted, Reached, vars, stageVars
  <2> QED BY <1>1, <2>1, <2>2, InsertPosition, NextStagePosition, ReturnPosition DEF Next
<1> QED BY <1>1, InitPosition, Invariance, PTL DEF Spec

\* No stage writes past the end of its output buffer, wherever the calls
\* before left the countdowns: the outputs of a call are at most the ceiling
\* of max_input by the decimation up to the stage.
THEOREM StageFitsItsBuffer == Spec => []FitsOutput
<1>1. ASSUME IInv, PositionInv, s # 0 PROVE Len(output) <= OutputLen(s)
  <2>1. PICK a \in Nat, b \in Nat : Positioned(a, b)
    BY <1>1 DEF PositionInv
  <2>2. s \in Stages /\ input \in Seq(Samples) /\ Len(input) \in Nat /\ output \in Seq(Samples)
    BY <1>1, FilterAssumption DEF IInv, TypeOK, Stages
  <2>3. /\ Reached(a, s) \in Nat /\ Reached(b, s) \in Nat /\ Decimations[s] \in Nat \ {0}
        /\ Reached(a, s) \div Decimations[s] = a \div DecimationTo[s]
        /\ Reached(b, s) \div Decimations[s] = b \div DecimationTo[s]
    BY <2>2, ReachedSteps, StageType
  <2>4. PICK c \in Nat : c = Reached(b, s) - Len(input)
    <3>1. Reached(a, s) <= Reached(b, s) - Len(input)
      BY <1>1, <2>1 DEF Positioned
    <3> QED BY <2>2, <2>3, <3>1
  <2>5. Len(output) = (c \div Decimations[s]) - (Reached(a, s) \div Decimations[s])
    <3>1. Len(output) = LET d == Reached(b, s) - Len(input)
                        IN  (d \div Decimations[s]) - (Reached(a, s) \div Decimations[s])
      BY <1>1, <2>1, Zenon DEF Positioned
    <3> QED BY <2>4, <3>1, Zenon
  <2>6. c \div Decimations[s] <= Reached(b, s) \div Decimations[s]
    <3>1. c <= Reached(b, s)
      BY <2>2, <2>3, <2>4
    <3> QED BY <2>3, <3>1, DivisionMonotone
  <2>7. DecimationTo[s] \in Nat \ {0} /\ MaxInput \in Nat /\ a <= b /\ b <= a + MaxInput
    BY <2>1, <2>2, FilterAssumption, StageType, DecimationType DEF Positioned
  <2>8. (b \div DecimationTo[s]) - (a \div DecimationTo[s]) <= OutputLen(s)
    BY <2>7, AtMostCeiling DEF OutputLen
  <2>9. /\ c \div Decimations[s] \in Nat
        /\ a \div DecimationTo[s] \in Nat /\ b \div DecimationTo[s] \in Nat
        /\ OutputLen(s) \in Nat
    <3>1. MaxInput + DecimationTo[s] - 1 \in Nat
      BY <2>7
    <3> QED BY <2>3, <2>4, <2>7, <3>1, QuotientAndRest DEF OutputLen
  <2> QED BY <2>3, <2>5, <2>6, <2>8, <2>9
<1>2. IInv /\ PositionInv => FitsOutput
  BY <1>1 DEF FitsOutput
<1> QED BY <1>2, Invariance, Position, PTL

\* A call yields as many outputs as the position in the stream is due,
\* however the stream is cut into calls: the countdowns of the stages
\* together count the stream modulo the product of the decimations.
THEOREM CascadeDecimatesEvenly == Spec => []DecimatesEvenly
<1>1. PositionInv => DecimatesEvenly
  BY DEF PositionInv, Positioned, DecimatesEvenly
<1> QED BY <1>1, Position, PTL
=============================================================================
