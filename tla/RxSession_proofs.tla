-------------------------- MODULE RxSession_proofs --------------------------
(***************************************************************************)
(* The buffers of a receiving run join up: however long the buffers and    *)
(* the decimation are, the device and the recordings are given the input   *)
(* as if it had been filtered in one piece.                                *)
(***************************************************************************)
EXTENDS RxSession, Arithmetic, SequenceTheorems

Labels == {"head", "receive", "record_input", "filter", "record_filtered", "dig", "device",
           "returned"}
Running == pc # "returned"

\* What was read of the signal, and what sdr_rx() has delivered.
ReadInv ==
    /\ pc \in Labels
    /\ cfg \in Config
    /\ signal \in Seq(BOOLEAN) /\ input \in Seq(BOOLEAN)
    /\ pos \in Nat /\ pos <= Len(signal)

\* Until a read of the file fails, the input is the beginning of the signal
\* and of the silence after it.
WholeInv ==
    ~read_error =>
        /\ input = SubSeq(Whole, 1, Len(input)) /\ Len(input) <= Len(Whole)
        /\ pos <= Len(input)
        /\ pos < Len(signal) => Len(input) = pos

\* The samples of a buffer after position p of s, and those before.
Cut(s, p) == [k \in 1 .. NumSamples |-> s[p + k]]
Part(s, p) == SubSeq(s, 1, p)

\* The input up to p, before and after the filter.
Slice(p) == Cut(input, p)
Taken(p) == Part(input, p)
Given(p) == IF cfg.filter THEN Decimated(Taken(p)) ELSE Taken(p)

\* Where the buffer in work starts, if it has not passed the label yet.
Read == Len(input)
Before(labels) == IF pc \in labels THEN Read - NumSamples ELSE Read

BufferInv ==
    /\ pc \in {"record_input", "filter", "record_filtered", "dig"} => Read >= NumSamples
    /\ pc \in {"record_input", "filter"} => samples = Slice(Read - NumSamples)
    /\ pc \in {"record_filtered", "dig"} => Given(Read - NumSamples) \o filtered = Given(Read)
    /\ Running /\ cfg.filter =>
           count = Decimation - (Before({"record_input", "filter"}) % Decimation)

\* What was recorded and thresholded.
JoinInv ==
    /\ Running => levels = Given(Before({"record_input", "filter", "record_filtered", "dig"}))
    /\ Running /\ cfg.recorder = "input" => recorded = Taken(Before({"record_input"}))
    /\ Running /\ cfg.recorder = "filtered" =>
           recorded = Given(Before({"record_input", "filter", "record_filtered"}))

FileOver == cfg.sdr = "bladerf_file" /\ (read_error \/ pos = Len(signal))
StatusInv ==
    /\ status \in {"unset", "ok", "error"}
    /\ Running => status # "error"
    /\ status = "unset" => input = <<>>
    /\ pc = "returned" /\ status = "unset" => ~running
    /\ pc = "returned" /\ status = "error" => cfg.sdr = "bladerf" \/ cfg.recorder # "none"
    /\ pc = "returned" /\ status = "ok" =>
           /\ ~running \/ FileOver
           /\ levels = Given(Read)
           /\ cfg.recorder = "input" => recorded = Taken(Read)
           /\ cfg.recorder = "filtered" => recorded = Given(Read)

\* The signal is seen by the test of the loop before the next buffer.
LateInv ==
    /\ late \in 0 .. 1
    /\ running \/ pc = "receive" => late = 0

SessionInv == ReadInv /\ WholeInv /\ BufferInv /\ JoinInv /\ StatusInv /\ LateInv

-----------------------------------------------------------------------------
(* Sequences of samples and their parts.                                   *)

LEMMA PartType ==
    ASSUME NEW s \in Seq(BOOLEAN), NEW p \in 0 .. Len(s)
    PROVE  /\ Part(s, p) \in Seq(BOOLEAN) /\ Len(Part(s, p)) = p
           /\ \A k \in 1 .. p : Part(s, p)[k] = s[k]
<1>1. /\ Len(s) \in Nat /\ p \in Nat /\ p <= Len(s)
  BY LenProperties
<1>2. \A k \in 1 .. p : s[k] \in BOOLEAN
  BY <1>1, ElementOfSeq
<1>3. /\ SubSeq(s, 1, p) \in Seq(BOOLEAN)
      /\ Len(SubSeq(s, 1, p)) = IF 1 <= p THEN p - 1 + 1 ELSE 0
      /\ \A k \in 1 .. p - 1 + 1 : SubSeq(s, 1, p)[k] = s[1 + k - 1]
  <2> HIDE DEF Part
  <2> QED BY <1>1, <1>2, SubSeqProperties
<1>4. \A k \in 1 .. p : SubSeq(s, 1, p)[k] = s[k]
  <2> SUFFICES ASSUME NEW k \in 1 .. p PROVE SubSeq(s, 1, p)[k] = s[k]
    OBVIOUS
  <2>1. k \in 1 .. p - 1 + 1 /\ 1 + k - 1 = k
    BY <1>1
  <2> QED BY <1>3, <2>1, Zenon
<1>5. Len(SubSeq(s, 1, p)) = p
  BY <1>1, <1>3
<1> QED BY <1>3, <1>4, <1>5, Zenon DEF Part

LEMMA CutType ==
    ASSUME NEW s \in Seq(BOOLEAN), NEW p \in Nat, p + NumSamples <= Len(s)
    PROVE  /\ Cut(s, p) \in Seq(BOOLEAN) /\ Len(Cut(s, p)) = NumSamples
           /\ \A k \in 1 .. NumSamples : Cut(s, p)[k] = s[p + k]
<1>1. NumSamples \in Nat \ {0} /\ Len(s) \in Nat
  BY SessionAssumption, LenProperties
<1>2. \A k \in 1 .. NumSamples : p + k \in 1 .. Len(s)
  BY <1>1
<1>3. \A k \in 1 .. NumSamples : s[p + k] \in BOOLEAN
  BY <1>1, <1>2, ElementOfSeq
<1>4. Cut(s, p) \in [1 .. NumSamples -> BOOLEAN]
  BY <1>3 DEF Cut
<1>5. Cut(s, p) \in Seq(BOOLEAN)
  BY <1>1, <1>4, SeqDef
<1>6. Len(Cut(s, p)) = NumSamples
  BY <1>1 DEF Cut
<1>7. \A k \in 1 .. NumSamples : Cut(s, p)[k] = s[p + k]
  BY Zenon DEF Cut
<1> QED BY <1>5, <1>6, <1>7

\* A buffer continues what was taken before.
LEMMA PartCut ==
    ASSUME NEW s \in Seq(BOOLEAN), NEW p \in Nat, p + NumSamples <= Len(s)
    PROVE  Part(s, p) \o Cut(s, p) = Part(s, p + NumSamples)
<1>1. NumSamples \in Nat \ {0} /\ Len(s) \in Nat
  BY SessionAssumption, LenProperties
<1>2. p \in 0 .. Len(s) /\ p + NumSamples \in 0 .. Len(s)
  BY <1>1
<1>3. /\ Part(s, p) \in Seq(BOOLEAN) /\ Len(Part(s, p)) = p
      /\ \A k \in 1 .. p : Part(s, p)[k] = s[k]
      /\ Cut(s, p) \in Seq(BOOLEAN) /\ Len(Cut(s, p)) = NumSamples
      /\ \A k \in 1 .. NumSamples : Cut(s, p)[k] = s[p + k]
      /\ Part(s, p + NumSamples) \in Seq(BOOLEAN) /\ Len(Part(s, p + NumSamples)) = p + NumSamples
      /\ \A k \in 1 .. p + NumSamples : Part(s, p + NumSamples)[k] = s[k]
  BY <1>2, PartType, CutType
<1>4. /\ Part(s, p) \o Cut(s, p) \in Seq(BOOLEAN)
      /\ Len(Part(s, p) \o Cut(s, p)) = p + NumSamples
      /\ \A k \in 1 .. p + NumSamples :
             (Part(s, p) \o Cut(s, p))[k] = IF k <= p THEN Part(s, p)[k] ELSE Cut(s, p)[k - p]
  <2> DEFINE a == Part(s, p)
             b == Cut(s, p)
  <2>1. a \in Seq(BOOLEAN) /\ Len(a) = p /\ b \in Seq(BOOLEAN) /\ Len(b) = NumSamples
    BY <1>3
  <2> HIDE DEF a, b
  <2>2. /\ a \o b \in Seq(BOOLEAN) /\ Len(a \o b) = Len(a) + Len(b)
        /\ \A k \in 1 .. Len(a) + Len(b) :
               (a \o b)[k] = IF k <= Len(a) THEN a[k] ELSE b[k - Len(a)]
    BY <2>1, ConcatProperties, Zenon
  <2> QED BY <2>1, <2>2, Zenon DEF a, b
<1>5. ASSUME NEW k \in 1 .. p + NumSamples
      PROVE  (Part(s, p) \o Cut(s, p))[k] = Part(s, p + NumSamples)[k]
  <2>1. CASE k <= p
    <3>1. k \in 1 .. p
      BY <2>1
    <3> QED BY <1>3, <1>4, <2>1, <3>1
  <2>2. CASE ~(k <= p)
    <3>1. k - p \in 1 .. NumSamples /\ p + (k - p) = k
      BY <1>1, <2>2
    <3> QED BY <1>3, <1>4, <2>2, <3>1
  <2> QED BY <2>1, <2>2
<1> QED BY <1>3, <1>4, <1>5, SeqEqual


\* A buffer that is appended is the cut behind what was there before.
LEMMA Appended ==
    ASSUME NEW s \in Seq(BOOLEAN), NEW t \in Seq(BOOLEAN), Len(t) = NumSamples
    PROVE  /\ s \o t \in Seq(BOOLEAN) /\ Len(s \o t) = Len(s) + NumSamples
           /\ Part(s \o t, Len(s)) = Part(s, Len(s))
           /\ Cut(s \o t, Len(s)) = t
<1> DEFINE n == Len(s)
           u == s \o t
<1>1. n \in Nat /\ NumSamples \in Nat \ {0}
  BY SessionAssumption, LenProperties
<1>2. /\ u \in Seq(BOOLEAN) /\ Len(u) = n + NumSamples
      /\ \A k \in 1 .. n + NumSamples : u[k] = IF k <= n THEN s[k] ELSE t[k - n]
  BY ConcatProperties
<1> HIDE DEF n, u
<1>3. n \in 0 .. Len(s) /\ n \in 0 .. Len(u) /\ n + NumSamples <= Len(u)
  BY <1>1, <1>2 DEF n
<1>4. /\ Part(u, n) \in Seq(BOOLEAN) /\ Len(Part(u, n)) = n
      /\ \A k \in 1 .. n : Part(u, n)[k] = u[k]
      /\ Part(s, n) \in Seq(BOOLEAN) /\ Len(Part(s, n)) = n
      /\ \A k \in 1 .. n : Part(s, n)[k] = s[k]
      /\ Cut(u, n) \in Seq(BOOLEAN) /\ Len(Cut(u, n)) = NumSamples
      /\ \A k \in 1 .. NumSamples : Cut(u, n)[k] = u[n + k]
  BY <1>1, <1>2, <1>3, PartType, CutType
<1>5. \A k \in 1 .. n : Part(u, n)[k] = Part(s, n)[k]
  <2>1. \A k \in 1 .. n : k \in 1 .. n + NumSamples /\ k <= n
    BY <1>1
  <2> QED BY <1>2, <1>4, <2>1, Zenon
<1>6. \A k \in 1 .. NumSamples : Cut(u, n)[k] = t[k]
  <2>1. \A k \in 1 .. NumSamples :
            n + k \in 1 .. n + NumSamples /\ ~(n + k <= n) /\ (n + k) - n = k
    BY <1>1
  <2> QED BY <1>2, <1>4, <2>1, Zenon
<1>7. Part(u, n) = Part(s, n)
  BY <1>4, <1>5, SeqEqual
<1>8. Cut(u, n) = t
  BY <1>4, <1>6, SeqEqual
<1> QED BY <1>2, <1>7, <1>8, Zenon DEF n, u

LEMMA PartOfAll == ASSUME NEW s \in Seq(BOOLEAN) PROVE Part(s, Len(s)) = s
<1> DEFINE n == Len(s)
<1>1. n \in Nat /\ n \in 0 .. Len(s)
  BY LenProperties
<1> HIDE DEF n
<1>2. /\ Part(s, n) \in Seq(BOOLEAN) /\ Len(Part(s, n)) = n
      /\ \A k \in 1 .. n : Part(s, n)[k] = s[k]
  BY <1>1, PartType
<1> QED BY <1>2, SeqEqual DEF n

LEMMA WholeType ==
    ASSUME signal \in Seq(BOOLEAN)
    PROVE  /\ Whole \in Seq(BOOLEAN)
           /\ Len(signal) \in Nat /\ Len(Whole) = Len(signal) + NumSamples
           /\ \A k \in 1 .. Len(Whole) :
                  Whole[k] = IF k <= Len(signal) THEN signal[k] ELSE FALSE
<1> DEFINE zeros == [k \in 1 .. NumSamples |-> FALSE]
<1>1. NumSamples \in Nat \ {0}
  BY SessionAssumption
<1>2. zeros \in Seq(BOOLEAN) /\ Len(zeros) = NumSamples
  BY <1>1, SeqDef
<1>3. \A k \in 1 .. NumSamples : zeros[k] = FALSE
  BY Zenon
<1>4. Whole = signal \o zeros
  BY DEF Whole
<1> HIDE DEF zeros
<1>5. /\ Whole \in Seq(BOOLEAN) /\ Len(Whole) = Len(signal) + Len(zeros)
      /\ \A k \in 1 .. Len(signal) + Len(zeros) :
             Whole[k] = IF k <= Len(signal) THEN signal[k] ELSE zeros[k - Len(signal)]
  BY <1>2, <1>4, ConcatProperties
<1>6. Len(signal) \in Nat
  BY LenProperties
<1>7. ASSUME NEW k \in 1 .. Len(Whole), ~(k <= Len(signal)) PROVE Whole[k] = FALSE
  <2>1. k - Len(signal) \in 1 .. NumSamples
    BY <1>1, <1>2, <1>5, <1>6, <1>7
  <2>2. zeros[k - Len(signal)] = FALSE
    BY <1>3, <2>1, Zenon
  <2>3. Whole[k] = zeros[k - Len(signal)]
    BY <1>2, <1>5, <1>6, <1>7
  <2> QED BY <2>2, <2>3, Zenon
<1>8. ASSUME NEW k \in 1 .. Len(Whole), k <= Len(signal) PROVE Whole[k] = signal[k]
  BY <1>2, <1>5, <1>6, <1>8
<1>9. \A k \in 1 .. Len(Whole) : Whole[k] = IF k <= Len(signal) THEN signal[k] ELSE FALSE
  BY <1>7, <1>8, Zenon
<1> QED BY <1>2, <1>5, <1>6, <1>9, Zenon

\* A read from the file, filled up with zeros, is the next buffer of the
\* padded input.
LEMMA ReadIsCut ==
    ASSUME signal \in Seq(BOOLEAN), pos \in Nat, pos < Len(signal)
    PROVE  Padded(SubSeq(signal, pos + 1, ReadTo)) = Cut(Whole, pos)
<1> DEFINE n == Len(signal)
           m == ReadTo - pos
           part == SubSeq(signal, pos + 1, ReadTo)
           zeros == [k \in 1 .. NumSamples - Len(part) |-> FALSE]
<1>1. n \in Nat /\ NumSamples \in Nat \ {0} /\ Len(Whole) = n + NumSamples
  BY SessionAssumption, WholeType
<1>2. /\ ReadTo \in Nat /\ pos + 1 <= ReadTo /\ ReadTo <= n
      /\ m \in Nat /\ m <= NumSamples
      /\ m < NumSamples => ReadTo = n
  BY <1>1 DEF ReadTo
<1> HIDE DEF n
<1>3. \A k \in pos + 1 .. ReadTo : signal[k] \in BOOLEAN
  <2>1. \A k \in pos + 1 .. ReadTo : k \in 1 .. Len(signal)
    BY <1>2 DEF n
  <2> QED BY <2>1, ElementOfSeq
<1>4. /\ part \in Seq(BOOLEAN)
      /\ Len(part) = IF pos + 1 <= ReadTo THEN ReadTo - (pos + 1) + 1 ELSE 0
      /\ \A k \in 1 .. ReadTo - (pos + 1) + 1 : part[k] = signal[pos + 1 + k - 1]
  <2>1. pos + 1 \in Int /\ ReadTo \in Int
    BY <1>2
  <2> QED BY <1>3, <2>1, SubSeqProperties
<1>5. /\ Len(part) = m
      /\ \A k \in 1 .. m : part[k] = signal[pos + k]
  <2>1. ReadTo - (pos + 1) + 1 = m /\ \A k \in 1 .. m : pos + 1 + k - 1 = pos + k
    BY <1>2
  <2> HIDE DEF part
  <2> QED BY <1>2, <1>4, <2>1
<1> HIDE DEF m, part
<1>6. zeros \in Seq(BOOLEAN) /\ Len(zeros) = NumSamples - m
  <2>1. PICK j \in Nat : j = NumSamples - Len(part)
    BY <1>1, <1>2, <1>5
  <2>2. zeros \in [1 .. j -> BOOLEAN] /\ zeros = [k \in 1 .. j |-> FALSE]
    BY <2>1
  <2>3. zeros \in Seq(BOOLEAN)
    <3>1. [1 .. j -> BOOLEAN] \subseteq Seq(BOOLEAN)
      BY SeqDef
    <3> QED BY <2>2, <3>1, Zenon
  <2>4. Len(zeros) = j
    <3>1. DOMAIN zeros = 1 .. j
      BY <2>2, Zenon
    <3>2. DOMAIN zeros = 1 .. Len(zeros) /\ Len(zeros) \in Nat
      BY <2>3, LenProperties, Zenon
    <3> HIDE DEF zeros
    <3> QED BY <3>1, <3>2
  <2> QED BY <1>5, <2>1, <2>3, <2>4
<1>7. \A k \in 1 .. NumSamples - m : zeros[k] = FALSE
  BY <1>5, Zenon
<1> HIDE DEF zeros
<1>8. /\ part \o zeros \in Seq(BOOLEAN) /\ Len(part \o zeros) = NumSamples
      /\ \A k \in 1 .. NumSamples :
             (part \o zeros)[k] = IF k <= m THEN part[k] ELSE zeros[k - m]
  <2>1. /\ part \o zeros \in Seq(BOOLEAN)
        /\ Len(part \o zeros) = Len(part) + Len(zeros)
        /\ \A k \in 1 .. Len(part) + Len(zeros) :
               (part \o zeros)[k] = IF k <= Len(part) THEN part[k] ELSE zeros[k - Len(part)]
    BY <1>4, <1>6, ConcatProperties, Zenon
  <2>2. Len(part) + Len(zeros) = NumSamples /\ Len(part) = m
    BY <1>1, <1>2, <1>5, <1>6
  <2> QED BY <2>1, <2>2, Zenon
<1>9. pos + NumSamples <= Len(Whole)
  BY <1>1, <1>2 DEF n
<1>10. /\ Cut(Whole, pos) \in Seq(BOOLEAN) /\ Len(Cut(Whole, pos)) = NumSamples
       /\ \A k \in 1 .. NumSamples : Cut(Whole, pos)[k] = Whole[pos + k]
  BY <1>9, WholeType, CutType
<1>11. ASSUME NEW k \in 1 .. NumSamples PROVE (part \o zeros)[k] = Cut(Whole, pos)[k]
  <2>1. pos + k \in 1 .. Len(Whole)
    BY <1>1, <1>9
  <2>2. Whole[pos + k] = IF pos + k <= n THEN signal[pos + k] ELSE FALSE
    BY <2>1, WholeType, Zenon DEF n
  <2>3. CASE k <= m
    <3>1. k \in 1 .. m /\ pos + k <= n
      BY <1>1, <1>2, <2>3 DEF m
    <3> QED BY <1>5, <1>8, <1>10, <2>2, <2>3, <3>1, Zenon
  <2>4. CASE ~(k <= m)
    <3>1. k - m \in 1 .. NumSamples - m /\ ~(pos + k <= n)
      BY <1>1, <1>2, <2>4 DEF m
    <3> QED BY <1>7, <1>8, <1>10, <2>2, <2>4, <3>1, Zenon
  <2> QED BY <2>3, <2>4
<1>12. part \o zeros = Cut(Whole, pos)
  BY <1>8, <1>10, <1>11, SeqEqual
<1> QED BY <1>12 DEF Padded, part, zeros

\* What fread() gave and zeros make a buffer.
LEMMA PaddedType ==
    ASSUME signal \in Seq(BOOLEAN), pos \in Nat, pos <= Len(signal),
           NEW last \in pos .. ReadTo
    PROVE  /\ Padded(SubSeq(signal, pos + 1, last)) \in Seq(BOOLEAN)
           /\ Len(Padded(SubSeq(signal, pos + 1, last))) = NumSamples
           /\ last <= Len(signal)
<1> DEFINE part == SubSeq(signal, pos + 1, last)
           zeros == [k \in 1 .. NumSamples - Len(part) |-> FALSE]
<1>1. Len(signal) \in Nat /\ NumSamples \in Nat \ {0}
  BY SessionAssumption, LenProperties
<1>2. /\ last \in Nat /\ pos <= last /\ last <= Len(signal)
      /\ last - pos \in Nat /\ last - pos <= NumSamples
  BY <1>1 DEF ReadTo
<1>3. \A k \in pos + 1 .. last : signal[k] \in BOOLEAN
  <2>1. \A k \in pos + 1 .. last : k \in 1 .. Len(signal)
    BY <1>2
  <2> QED BY <2>1, ElementOfSeq
<1>4. /\ part \in Seq(BOOLEAN)
      /\ Len(part) = IF pos + 1 <= last THEN last - (pos + 1) + 1 ELSE 0
  <2>1. pos + 1 \in Int /\ last \in Int
    BY <1>2
  <2> QED BY <1>3, <2>1, SubSeqProperties
<1> HIDE DEF part
<1>5. Len(part) = last - pos
  BY <1>2, <1>4
<1>6. PICK j \in Nat : j = NumSamples - Len(part)
  BY <1>1, <1>2, <1>5
<1>7. zeros \in [1 .. j -> BOOLEAN]
  BY <1>6
<1>8. zeros \in Seq(BOOLEAN) /\ Len(zeros) = j
  <2>1. [1 .. j -> BOOLEAN] \subseteq Seq(BOOLEAN)
    BY SeqDef
  <2>2. zeros \in Seq(BOOLEAN) /\ DOMAIN zeros = 1 .. j
    BY <1>7, <2>1, Zenon
  <2>3. DOMAIN zeros = 1 .. Len(zeros) /\ Len(zeros) \in Nat
    BY <2>2, LenProperties, Zenon
  <2> HIDE DEF zeros
  <2> QED BY <2>2, <2>3
<1> HIDE DEF zeros
<1>9. part \o zeros \in Seq(BOOLEAN) /\ Len(part \o zeros) = Len(part) + Len(zeros)
  BY <1>4, <1>8, ConcatProperties
<1>10. Len(part) + Len(zeros) = NumSamples
  BY <1>1, <1>2, <1>5, <1>6, <1>8
<1> QED BY <1>2, <1>9, <1>10 DEF Padded, part, zeros

-----------------------------------------------------------------------------
(* The countdown of the filter.                                            *)

\* As many multiples of d as its quotient lie up to x.
LEMMA Multiples ==
    ASSUME NEW x \in Nat, NEW d \in Nat \ {0}, NEW k \in 1 .. x \div d
    PROVE  k * d \in 1 .. x
<1>1. PICK q \in Nat : q = x \div d /\ q * d <= x /\ q * d \in Nat
  <2>1. x \div d \in Nat /\ x % d \in 0 .. d - 1 /\ x = (x \div d) * d + (x % d)
    BY QuotientAndRest
  <2> DEFINE q == x \div d
             r == x % d
  <2>2. q \in Nat /\ r \in 0 .. d - 1 /\ x = q * d + r
    BY <2>1
  <2> HIDE DEF q, r
  <2>3. q * d \in Nat
    BY <2>2, Multiply
  <2>4. q * d <= x
    BY <2>2, <2>3
  <2> QED BY <2>2, <2>3, <2>4 DEF q
<1>2. k \in Nat /\ 1 <= k /\ k <= q
  BY <1>1
<1>3. k * d <= q * d /\ k * d \in Nat
  BY <1>2, <1>1, Multiply
<1>4. 1 * d <= k * d
  BY <1>2, Multiply
<1>5. 1 * d = d
  OBVIOUS
<1> QED BY <1>1, <1>3, <1>4, <1>5

LEMMA DecimatedType ==
    ASSUME NEW s \in Seq(BOOLEAN), NEW p \in 0 .. Len(s)
    PROVE  /\ Decimated(Part(s, p)) \in Seq(BOOLEAN)
           /\ Len(Decimated(Part(s, p))) = p \div Decimation
           /\ \A k \in 1 .. p \div Decimation :
                  Decimated(Part(s, p))[k] = s[k * Decimation]
<1>1. /\ Decimation \in Nat \ {0} /\ p \in Nat /\ Len(s) \in Nat
      /\ s \in Seq(BOOLEAN)
  BY SessionAssumption, LenProperties
<1>2. PICK q \in Nat : q = p \div Decimation
  BY <1>1, QuotientAndRest
<1>3. /\ Part(s, p) \in Seq(BOOLEAN) /\ Len(Part(s, p)) = p
      /\ \A k \in 1 .. p : Part(s, p)[k] = s[k]
  BY PartType
<1>4. \A k \in 1 .. q : k * Decimation \in 1 .. p
  BY <1>1, <1>2, Multiples
<1>5. Decimated(Part(s, p)) = [k \in 1 .. q |-> Part(s, p)[k * Decimation]]
  BY <1>2, <1>3, Zenon DEF Decimated
<1>6. \A k \in 1 .. q : Part(s, p)[k * Decimation] = s[k * Decimation]
  BY <1>3, <1>4, Zenon
<1>7. \A k \in 1 .. q : Part(s, p)[k * Decimation] \in BOOLEAN
  BY <1>3, <1>4, ElementOfSeq
<1> DEFINE f == [k \in 1 .. q |-> Part(s, p)[k * Decimation]]
<1>8. f \in [1 .. q -> BOOLEAN] /\ DOMAIN f = 1 .. q
      /\ \A k \in 1 .. q : f[k] = s[k * Decimation]
  BY <1>6, <1>7, Zenon
<1> HIDE DEF f
<1>9. f \in Seq(BOOLEAN)
  <2>1. [1 .. q -> BOOLEAN] \subseteq Seq(BOOLEAN)
    BY SeqDef
  <2> QED BY <1>8, <2>1, Zenon
<1>10. Len(f) = q
  BY <1>8, <1>9
<1> QED BY <1>2, <1>5, <1>8, <1>9, <1>10, Zenon DEF f

\* A buffer that starts at position p, with the countdown that this
\* position requires, gives the outputs that are due, and leaves the
\* countdown that its end requires.
LEMMA Countdown ==
    ASSUME NEW p \in Nat, NEW c, c = Decimation - (p % Decimation)
    PROVE  /\ Outputs(c) = ((p + NumSamples) \div Decimation) - (p \div Decimation)
           /\ Outputs(c) \in Nat
           /\ c + Outputs(c) * Decimation - NumSamples
                  = Decimation - ((p + NumSamples) % Decimation)
           /\ \A k \in 1 .. Outputs(c) :
                  /\ c + (k - 1) * Decimation \in 1 .. NumSamples
                  /\ p + (c + (k - 1) * Decimation) = ((p \div Decimation) + k) * Decimation
<1> DEFINE d == Decimation
           n == NumSamples
           q == p \div d
           r == p % d
           m == (r + n) \div d
           e == (r + n) % d
<1>1. d \in Nat \ {0} /\ n \in Nat \ {0}
  BY SessionAssumption
<1>2. q \in Nat /\ r \in 0 .. d - 1 /\ p = q * d + r /\ q * d \in Nat
  BY <1>1, QuotientAndRest, Multiply
<1>3. c = d - r
  OBVIOUS
<1> HIDE DEF d, n, q, r
<1>4. m \in Nat /\ e \in 0 .. d - 1 /\ r + n = m * d + e /\ m * d \in Nat
  <2>1. r + n \in Nat
    BY <1>1, <1>2
  <2>2. m \in Nat /\ e \in 0 .. d - 1 /\ r + n = m * d + e
    BY <1>1, <2>1, QuotientAndRest, Zenon
  <2> HIDE DEF m, e
  <2> QED BY <1>1, <2>2, Multiply
<1>5. (p + n) \div d = q + m /\ (p + n) % d = e
  <2>1. (r + n) % d = (p + n) % d /\ (r + n) \div d = ((p + n) \div d) - q
    <3>1. n \in Nat
      BY <1>1
    <3> QED BY <1>1, <3>1, Modulo, Zenon DEF q, r
  <2>2. (p + n) \div d \in Nat
    <3>1. p + n \in Nat
      BY <1>1
    <3> QED BY <1>1, <3>1, QuotientAndRest
  <2> QED BY <1>2, <1>4, <2>1, <2>2
<1> DEFINE md == m * d
<1>6. r + n = md + e /\ md \in Nat
  BY <1>4
<1>7. Outputs(c) = m
  <2>1. CASE n < c
    <3>1. r + n \in Nat /\ r + n < d /\ r + n = 0 * d + (r + n)
      BY <1>1, <1>2, <1>3, <2>1
    <3>2. (r + n) \div d = 0
      BY <1>1, <3>1, FitsOnce
    <3> QED BY <2>1, <3>2 DEF Outputs, n
  <2>2. CASE ~(n < c)
    <3>1. m # 0
      <4> SUFFICES ASSUME m = 0 PROVE FALSE
        OBVIOUS
      <4>1. 0 * d = 0
        BY <1>1
      <4> HIDE DEF m, e
      <4> QED BY <1>1, <1>2, <1>3, <1>4, <2>2, <4>1
    <3>2. PICK j \in Nat : m = j + 1
      <4>1. m - 1 \in Nat /\ m = (m - 1) + 1
        BY <1>4, <3>1
      <4> QED BY <4>1
    <3>3. PICK jd \in Nat : jd = j * d /\ md = jd + d
      BY <1>1, <3>2, Multiply
    <3>4. n - c \in Nat /\ n - c = j * d + e /\ e \in Nat /\ e < d
      <4> HIDE DEF m, e, md
      <4> QED BY <1>1, <1>2, <1>3, <1>4, <1>6, <2>2, <3>3
    <3>5. (n - c) \div d = j
      <4> HIDE DEF m, e, md
      <4> QED BY <1>1, <3>4, FitsOnce
    <3>6. Outputs(c) = 1 + ((n - c) \div d)
      BY <2>2 DEF Outputs, n, d
    <3> QED BY <3>2, <3>5, <3>6
  <2> QED BY <2>1, <2>2
<1> HIDE DEF m, e
<1>8. c + md - n = d - e
  <2> HIDE DEF md
  <2> QED BY <1>1, <1>2, <1>3, <1>4, <1>6
<1>9. ASSUME NEW k \in 1 .. m
      PROVE  c + (k - 1) * d \in 1 .. n /\ p + (c + (k - 1) * d) = (q + k) * d
  <2>1. PICK kd \in Nat : kd = k * d /\ d <= kd /\ kd <= md
    <3>1. 1 * d <= k * d /\ 1 * d = d /\ k * d <= m * d /\ k * d \in Nat
      BY <1>1, <1>4, Multiply
    <3> QED BY <3>1
  <2>2. (k - 1) * d = kd - d
    BY <1>1, <2>1
  <2>3. c + (k - 1) * d = kd - r
    BY <1>1, <1>2, <1>3, <2>1, <2>2
  <2>4. kd - r \in 1 .. n
    <3> HIDE DEF md
    <3> QED BY <1>1, <1>2, <1>4, <1>6, <2>1
  <2>5. p + (kd - r) = q * d + k * d
    BY <1>1, <1>2, <2>1
  <2>6. (q + k) * d = q * d + k * d
    BY <1>1, <1>2
  <2> QED BY <2>3, <2>4, <2>5, <2>6
<1>10. Outputs(c) = ((p + n) \div d) - (p \div d) /\ Outputs(c) \in Nat
  BY <1>2, <1>4, <1>5, <1>7 DEF q
<1>11. c + Outputs(c) * d - n = d - ((p + n) % d)
  BY <1>5, <1>7, <1>8
<1>12. \A k \in 1 .. Outputs(c) :
          /\ c + (k - 1) * d \in 1 .. n
          /\ p + (c + (k - 1) * d) = ((p \div d) + k) * d
  BY <1>7, <1>9 DEF q
<1> QED BY <1>10, <1>11, <1>12 DEF d, n

\* The outputs of a buffer continue those of the input before it.
LEMMA FilterJoins ==
    ASSUME NEW s \in Seq(BOOLEAN), NEW p \in Nat, p + NumSamples <= Len(s),
           NEW c, c = Decimation - (p % Decimation)
    PROVE  LET out == [k \in 1 .. Outputs(c) |-> Cut(s, p)[c + (k - 1) * Decimation]]
           IN  /\ out \in Seq(BOOLEAN)
               /\ Decimated(Part(s, p)) \o out = Decimated(Part(s, p + NumSamples))
<1> DEFINE D == Decimation
           out == [k \in 1 .. Outputs(c) |-> Cut(s, p)[c + (k - 1) * D]]
<1>1. /\ D \in Nat \ {0} /\ NumSamples \in Nat \ {0} /\ Len(s) \in Nat
      /\ p \in 0 .. Len(s) /\ p + NumSamples \in 0 .. Len(s)
  BY SessionAssumption, LenProperties
<1>2. PICK q \in Nat, m \in Nat : /\ q = p \div D /\ m = Outputs(c)
                                 /\ q + m = (p + NumSamples) \div D
  <2>1. p \div D \in Nat /\ (p + NumSamples) \div D \in Nat
    <3>1. p + NumSamples \in Nat
      BY <1>1
    <3> QED BY <1>1, <3>1, QuotientAndRest
  <2>2. /\ Outputs(c) = ((p + NumSamples) \div D) - (p \div D)
        /\ Outputs(c) \in Nat
    BY Countdown, Zenon
  <2> QED BY <2>1, <2>2
<1>3. \A k \in 1 .. m : /\ c + (k - 1) * D \in 1 .. NumSamples
                         /\ p + (c + (k - 1) * D) = (q + k) * D
  <2>1. \A k \in 1 .. Outputs(c) :
            /\ c + (k - 1) * D \in 1 .. NumSamples
            /\ p + (c + (k - 1) * D) = ((p \div D) + k) * D
    BY Countdown, Zenon
  <2> QED BY <1>2, <2>1, Zenon
<1>4. /\ Cut(s, p) \in Seq(BOOLEAN) /\ Len(Cut(s, p)) = NumSamples
      /\ \A k \in 1 .. NumSamples : Cut(s, p)[k] = s[p + k]
  BY CutType
<1>5. \A k \in 1 .. m : Cut(s, p)[c + (k - 1) * D] = s[(q + k) * D]
  BY <1>3, <1>4, Zenon
<1>6. \A k \in 1 .. m : Cut(s, p)[c + (k - 1) * D] \in BOOLEAN
  BY <1>3, <1>4, ElementOfSeq
<1>7. out \in [1 .. m -> BOOLEAN] /\ DOMAIN out = 1 .. m
      /\ \A k \in 1 .. m : out[k] = s[(q + k) * D]
  BY <1>2, <1>5, <1>6, Zenon
<1> HIDE DEF out
<1>8. out \in Seq(BOOLEAN) /\ Len(out) = m
  <2>1. [1 .. m -> BOOLEAN] \subseteq Seq(BOOLEAN)
    BY SeqDef
  <2>2. out \in Seq(BOOLEAN)
    BY <1>7, <2>1, Zenon
  <2> QED BY <1>7, <2>2
<1> DEFINE a == Decimated(Part(s, p))
           b == Decimated(Part(s, p + NumSamples))
<1>9. /\ a \in Seq(BOOLEAN) /\ Len(a) = q
      /\ \A k \in 1 .. q : a[k] = s[k * D]
  BY <1>1, <1>2, DecimatedType, Zenon
<1>10. /\ b \in Seq(BOOLEAN) /\ Len(b) = q + m
       /\ \A k \in 1 .. q + m : b[k] = s[k * D]
  BY <1>1, <1>2, DecimatedType, Zenon
<1> HIDE DEF a, b
<1>11. /\ a \o out \in Seq(BOOLEAN) /\ Len(a \o out) = q + m
       /\ \A k \in 1 .. q + m : (a \o out)[k] = IF k <= q THEN a[k] ELSE out[k - q]
  <2>1. /\ a \o out \in Seq(BOOLEAN) /\ Len(a \o out) = Len(a) + Len(out)
        /\ \A k \in 1 .. Len(a) + Len(out) :
               (a \o out)[k] = IF k <= Len(a) THEN a[k] ELSE out[k - Len(a)]
    BY <1>8, <1>9, ConcatProperties, Zenon
  <2> QED BY <1>8, <1>9, <2>1, Zenon
<1>12. ASSUME NEW k \in 1 .. q + m PROVE (a \o out)[k] = b[k]
  <2>1. CASE k <= q
    <3>1. k \in 1 .. q
      BY <2>1
    <3> QED BY <1>9, <1>10, <1>11, <2>1, <3>1, Zenon
  <2>2. CASE ~(k <= q)
    <3>1. k - q \in 1 .. m /\ q + (k - q) = k
      BY <2>2
    <3> QED BY <1>7, <1>10, <1>11, <2>2, <3>1, Zenon
  <2> QED BY <2>1, <2>2
<1>13. a \o out = b
  BY <1>10, <1>11, <1>12, SeqEqual
<1> QED BY <1>8, <1>13 DEF a, b, out

-----------------------------------------------------------------------------
(* The steps of the loop.                                                  *)

LEMMA InitSession == Init => SessionInv
<1> SUFFICES ASSUME Init PROVE SessionInv
  OBVIOUS
<1>1. /\ Decimation \in Nat \ {0} /\ NumSamples \in Nat \ {0}
      /\ Signals \subseteq Seq(BOOLEAN)
  BY SessionAssumption
<1>2. /\ pc = "head" /\ cfg \in Config /\ signal \in Seq(BOOLEAN) /\ pos = 0
      /\ count = Decimation /\ recorded = <<>> /\ levels = <<>> /\ status = "unset"
      /\ input = <<>> /\ late = 0
  BY <1>1 DEF Init
<1>3. /\ input \in Seq(BOOLEAN) /\ Read = 0 /\ Len(signal) \in Nat /\ 0 \in 0 .. Len(input)
      /\ Len(Whole) \in Nat
  BY <1>2, LenProperties, WholeType DEF Read
<1>4. ReadInv
  BY <1>2, <1>3 DEF ReadInv, Labels
<1>5. 0 \div Decimation = 0 /\ 0 % Decimation = 0
  BY <1>1
<1>6. Given(0) = <<>> /\ Taken(0) = <<>>
  <2>1. Part(input, 0) \in Seq(BOOLEAN) /\ Len(Part(input, 0)) = 0
    BY <1>3, PartType
  <2>2. Decimated(Part(input, 0)) \in Seq(BOOLEAN) /\ Len(Decimated(Part(input, 0))) = 0
    BY <1>3, <1>5, DecimatedType
  <2>3. Part(input, 0) = <<>> /\ Decimated(Part(input, 0)) = <<>>
    BY <2>1, <2>2, EmptySeq
  <2> QED BY <2>3, Zenon DEF Given, Taken
<1>7. WholeInv
  <2>1. 0 \in 0 .. Len(Whole) /\ Whole \in Seq(BOOLEAN)
    BY <1>2, <1>3, WholeType
  <2>2. Part(Whole, 0) \in Seq(BOOLEAN) /\ Len(Part(Whole, 0)) = 0
    BY <2>1, PartType
  <2>3. Part(Whole, 0) = <<>>
    BY <2>2, EmptySeq
  <2> QED BY <1>2, <1>3, <2>3 DEF WholeInv, Part, Read
<1>8. BufferInv
  BY <1>1, <1>2, <1>3, <1>5 DEF BufferInv, Before, Running
<1>9. JoinInv
  BY <1>2, <1>3, <1>6 DEF JoinInv, Before, Running
<1>10. StatusInv /\ LateInv
  BY <1>2 DEF StatusInv, LateInv, Running
<1> QED BY <1>4, <1>7, <1>8, <1>9, <1>10 DEF SessionInv

\* A step that reads nothing changes nothing of what the input is.
LEMMA WholeKept ==
    ASSUME WholeInv, UNCHANGED <<signal, input, read_error, pos>> PROVE WholeInv'
BY DEF WholeInv, Whole

LEMMA InterruptSession == ASSUME SessionInv, Interrupt PROVE SessionInv'
<1>1. /\ UNCHANGED <<pc, cfg, status, signal, pos, samples, filtered, count, recorded, levels,
                     input, read_error, late>>
      /\ ~running' /\ running
  BY DEF Interrupt, history
<1>2. ReadInv' /\ StatusInv' /\ LateInv'
  BY <1>1 DEF SessionInv, ReadInv, StatusInv, LateInv, FileOver, Running, Read, Given, Taken
<1>3. BufferInv'
  BY <1>1 DEF SessionInv, BufferInv, Before, Read, Running, Given, Taken, Slice
<1>4. JoinInv'
  BY <1>1 DEF SessionInv, JoinInv, Before, Read, Running, Given, Taken
<1>5. WholeInv'
  BY <1>1, WholeKept DEF SessionInv
<1> QED BY <1>2, <1>3, <1>4, <1>5 DEF SessionInv

LEMMA LoopTestSession == ASSUME SessionInv, LoopTest PROVE SessionInv'
<1>1. /\ UNCHANGED <<cfg, running, signal, pos, samples, filtered, count, recorded, levels,
                     input, read_error, late>>
      /\ pc = "head"
      /\ \/ running /\ pc' = "receive" /\ status' = status
         \/ /\ ~running /\ pc' = "returned"
            /\ status' = IF status = "eof" THEN "ok" ELSE status
  BY DEF LoopTest, Goto, Return, Files, history
<1>2. ReadInv' /\ LateInv'
  BY <1>1 DEF SessionInv, ReadInv, LateInv, Labels
<1>3. StatusInv'
  BY <1>1
  DEF SessionInv, StatusInv, FileOver, JoinInv, Before, Read, Running, Given, Taken
<1>4. BufferInv'
  BY <1>1 DEF SessionInv, BufferInv, Before, Read, Running, Given, Taken, Slice
<1>5. JoinInv'
  BY <1>1 DEF SessionInv, JoinInv, Before, Read, Running, Given, Taken
<1>6. WholeInv'
  BY <1>1, WholeKept DEF SessionInv
<1> QED BY <1>2, <1>3, <1>4, <1>5, <1>6 DEF SessionInv

\* A buffer is delivered, by the file or by the radio.
LEMMA DeliverSession ==
    ASSUME SessionInv, pc = "receive", NEW buffer \in Seq(BOOLEAN), Len(buffer) = NumSamples,
           Deliver(buffer), UNCHANGED <<cfg, running, signal, filtered, count, recorded, levels>>,
           pos' \in Nat, pos' <= Len(signal), WholeInv'
    PROVE  SessionInv'
<1>1. /\ NumSamples \in Nat \ {0} /\ input \in Seq(BOOLEAN) /\ Read \in Nat
      /\ Len(input) = Read
  BY SessionAssumption, LenProperties DEF SessionInv, ReadInv, Read
<1>2. /\ pc' = "record_input" /\ status' = "ok" /\ samples' = buffer
      /\ input' = input \o buffer /\ late' = IF running THEN late ELSE late + 1
  BY DEF Deliver, Goto
<1>3. /\ input' \in Seq(BOOLEAN) /\ Len(input') = Read + NumSamples
      /\ Part(input', Read) = Part(input, Read)
      /\ Cut(input', Read) = buffer
  BY <1>1, <1>2, Appended
<1>4. Read' = Read + NumSamples /\ Read' - NumSamples = Read /\ Read' >= NumSamples
  BY <1>1, <1>3 DEF Read
<1>5. Slice(Read - NumSamples)' = buffer /\ Taken(Read - NumSamples)' = Taken(Read)
  BY <1>3, <1>4, Zenon DEF Slice, Taken
<1>6. Given(Read - NumSamples)' = Given(Read)
  BY <1>5, Zenon DEF Given
<1>7. ReadInv'
  BY <1>2, <1>3 DEF SessionInv, ReadInv, Labels
<1>8. StatusInv' /\ LateInv'
  BY <1>2 DEF SessionInv, StatusInv, LateInv, Running
<1>9. BufferInv'
  <2>1. cfg.filter => count = Decimation - (Read % Decimation)
    BY DEF SessionInv, BufferInv, Before, Running
  <2>2. cfg'.filter => count' = Decimation - ((Read' - NumSamples) % Decimation)
    BY <1>4, <2>1, Zenon
  <2> QED BY <1>2, <1>4, <1>5, <2>2 DEF BufferInv, Before, Running
<1>10. JoinInv'
  <2>1. /\ levels = Given(Read) /\ (cfg.recorder = "input" => recorded = Taken(Read))
        /\ cfg.recorder = "filtered" => recorded = Given(Read)
    BY DEF SessionInv, JoinInv, Before, Running
  <2> QED BY <1>2, <1>5, <1>6, <2>1 DEF JoinInv, Before, Running
<1> QED BY <1>7, <1>8, <1>9, <1>10 DEF SessionInv

\* Unless its read failed, the buffer is the next one of the signal.
LEMMA NextOfWhole ==
    ASSUME SessionInv, ~read_error, pos < Len(signal),
           Deliver(Padded(SubSeq(signal, pos + 1, ReadTo))), pos' = ReadTo, UNCHANGED signal
    PROVE  WholeInv'
<1>1. /\ NumSamples \in Nat \ {0} /\ pos \in Nat /\ Len(signal) \in Nat
      /\ signal \in Seq(BOOLEAN) /\ Whole \in Seq(BOOLEAN)
      /\ Len(Whole) = Len(signal) + NumSamples
      /\ input = Part(Whole, Len(input)) /\ Len(input) = pos
  BY SessionAssumption, WholeType DEF SessionInv, ReadInv, WholeInv, Part
<1>2. input' = input \o Cut(Whole, pos)
  BY <1>1, ReadIsCut, Zenon DEF Deliver
<1>3. pos + NumSamples <= Len(Whole) /\ pos + NumSamples \in 0 .. Len(Whole)
  BY <1>1
<1>4. input' = Part(Whole, pos + NumSamples)
  BY <1>1, <1>2, <1>3, PartCut
<1>5. Len(input') = pos + NumSamples
  BY <1>1, <1>3, <1>4, PartType
<1>6. Whole' = Whole
  BY DEF Whole
<1>7. ReadTo <= pos + NumSamples /\ (ReadTo < Len(signal) => ReadTo = pos + NumSamples)
  BY <1>1 DEF ReadTo
<1>8. input' = SubSeq(Whole', 1, Len(input'))
  BY <1>4, <1>5, <1>6 DEF Part
<1> QED BY <1>3, <1>5, <1>6, <1>7, <1>8 DEF WholeInv

\* The loop is left by a read that gave nothing.
LEMMA ReturnedFile ==
    ASSUME SessionInv, pc = "receive", Return("eof"), cfg.sdr = "bladerf_file",
           UNCHANGED <<cfg, running, signal, pos, input, late, recorded, levels>>,
           read_error' \/ pos = Len(signal), ~read_error' => ~read_error
    PROVE  SessionInv'
<1>1. pc' = "returned" /\ status' = "ok"
  BY DEF Return, Goto
<1>2. ReadInv' /\ LateInv'
  BY <1>1 DEF SessionInv, ReadInv, LateInv, Labels
<1>3. StatusInv'
  BY <1>1 DEF SessionInv, StatusInv, FileOver, JoinInv, Before, Read, Running, Given, Taken
<1>4. BufferInv' /\ JoinInv'
  BY <1>1 DEF BufferInv, JoinInv, Running
<1>5. WholeInv'
  BY DEF SessionInv, WholeInv, Whole
<1> QED BY <1>2, <1>3, <1>4, <1>5 DEF SessionInv

LEMMA ReceiveFileSession == ASSUME SessionInv, ReceiveFile PROVE SessionInv'
<1>1. PICK last \in pos .. ReadTo :
          /\ IF last = pos
             THEN Return("eof") /\ UNCHANGED <<samples, input, late>>
             ELSE Deliver(Padded(SubSeq(signal, pos + 1, last)))
          /\ pos' = last
          /\ read_error' = (read_error \/ last < ReadTo)
  BY DEF ReceiveFile
<1>2. /\ UNCHANGED <<cfg, running, signal, filtered, count, recorded, levels>>
      /\ pc = "receive" /\ cfg.sdr = "bladerf_file"
  BY DEF ReceiveFile, Files
<1>3. /\ NumSamples \in Nat \ {0} /\ pos \in Nat /\ pos <= Len(signal)
      /\ signal \in Seq(BOOLEAN) /\ Len(signal) \in Nat
  BY SessionAssumption, LenProperties DEF SessionInv, ReadInv
<1>4. ReadTo \in Nat /\ ReadTo <= Len(signal) /\ (ReadTo = pos => pos = Len(signal))
  BY <1>3 DEF ReadTo
<1>5. CASE last = pos
  <2>1. Return("eof") /\ UNCHANGED <<pos, input, late>>
    BY <1>1, <1>5
  <2>2. read_error' \/ pos = Len(signal)
    <3>1. last < ReadTo \/ pos = Len(signal)
      BY <1>3, <1>4, <1>5
    <3> QED BY <1>1, <3>1, Zenon
  <2>3. ~read_error' => ~read_error
    BY <1>1
  <2> QED BY <1>2, <2>1, <2>2, <2>3, ReturnedFile
<1>6. CASE last # pos
  <2> DEFINE buffer == Padded(SubSeq(signal, pos + 1, last))
  <2>1. Deliver(buffer)
    BY <1>1, <1>6
  <2>2. buffer \in Seq(BOOLEAN) /\ Len(buffer) = NumSamples /\ last <= Len(signal)
    BY <1>3, PaddedType
  <2>3. WholeInv'
    <3>1. CASE read_error'
      BY <3>1 DEF WholeInv
    <3>2. CASE ~read_error'
      <4>1. ~read_error /\ ~(last < ReadTo)
        BY <1>1, <3>2, Zenon
      <4>2. last = ReadTo /\ pos < Len(signal)
        BY <1>3, <1>4, <1>6, <4>1
      <4> QED BY <1>1, <1>2, <2>1, <4>1, <4>2, NextOfWhole
    <3> QED BY <3>1, <3>2
  <2>4. pos' \in Nat /\ pos' <= Len(signal)
    BY <1>1, <1>3, <2>2
  <2> HIDE DEF buffer
  <2> QED BY <1>2, <2>1, <2>2, <2>3, <2>4, DeliverSession
<1> QED BY <1>5, <1>6

LEMMA ReceiveRadioSession == ASSUME SessionInv, ReceiveRadio PROVE SessionInv'
<1> DEFINE buffer == Padded(SubSeq(signal, pos + 1, ReadTo))
<1>1. /\ UNCHANGED <<cfg, running, signal, read_error, filtered, count, recorded, levels>>
      /\ pc = "receive" /\ pos < Len(signal) /\ Deliver(buffer) /\ pos' = ReadTo
  BY DEF ReceiveRadio, Files
<1>2. /\ NumSamples \in Nat \ {0} /\ pos \in Nat /\ pos <= Len(signal)
      /\ signal \in Seq(BOOLEAN) /\ Len(signal) \in Nat
  BY SessionAssumption, LenProperties DEF SessionInv, ReadInv
<1>3. ReadTo \in Nat /\ ReadTo \in pos .. ReadTo /\ ReadTo <= Len(signal)
  BY <1>1, <1>2 DEF ReadTo
<1>4. buffer \in Seq(BOOLEAN) /\ Len(buffer) = NumSamples
  BY <1>2, <1>3, PaddedType
<1>5. WholeInv'
  <2>1. CASE read_error
    BY <1>1, <2>1 DEF WholeInv
  <2>2. CASE ~read_error
    BY <1>1, <2>2, NextOfWhole
  <2> QED BY <2>1, <2>2
<1> HIDE DEF buffer
<1> QED BY <1>1, <1>3, <1>4, <1>5, DeliverSession

\* The loop is left with an error of the radio or of the recorder.
LEMMA ErrorSession ==
    ASSUME SessionInv, Return("error"),
           UNCHANGED <<cfg, running, signal, pos, input, read_error, late>>,
           cfg.sdr = "bladerf" \/ cfg.recorder # "none"
    PROVE  SessionInv'
<1>1. pc' = "returned" /\ status' = "error"
  BY DEF Return, Goto
<1>2. ReadInv' /\ LateInv'
  BY <1>1 DEF SessionInv, ReadInv, LateInv, Labels
<1>3. StatusInv' /\ BufferInv' /\ JoinInv'
  BY <1>1 DEF StatusInv, BufferInv, JoinInv, Running
<1>4. WholeInv'
  BY WholeKept DEF SessionInv
<1> QED BY <1>2, <1>3, <1>4 DEF SessionInv

\* While a buffer is in work, it is a part of the input.
LEMMA InWork ==
    ASSUME SessionInv, pc \in {"record_input", "filter", "record_filtered", "dig"}
    PROVE  /\ Read - NumSamples \in Nat /\ (Read - NumSamples) + NumSamples = Read
           /\ Read <= Len(input) /\ input \in Seq(BOOLEAN) /\ Read \in Nat
BY SessionAssumption, LenProperties DEF SessionInv, ReadInv, BufferInv, Read

LEMMA RecordInputSession == ASSUME SessionInv, RecordInput PROVE SessionInv'
<1>1. /\ UNCHANGED <<cfg, running, signal, pos, samples, filtered, count, levels, input,
                     read_error, late>>
      /\ pc = "record_input" /\ Record("input", samples, "filter")
  BY DEF RecordInput, history
<1>2. CASE Return("error")
  <2>1. cfg.recorder # "none"
    BY <1>1, <1>2 DEF Record, Return, Goto
  <2> QED BY <1>1, <1>2, <2>1, ErrorSession
<1>3. CASE ~Return("error")
  <2>1. /\ pc' = "filter" /\ status' = status
        /\ recorded' = IF cfg.recorder = "input" THEN recorded \o samples ELSE recorded
    BY <1>1, <1>3 DEF Record, Goto
  <2>2. Taken(Read - NumSamples) \o samples = Taken(Read)
    <3>1. samples = Cut(input, Read - NumSamples)
      BY <1>1 DEF SessionInv, BufferInv, Slice
    <3> QED BY <1>1, <3>1, InWork, PartCut DEF Taken
  <2>3. ReadInv' /\ LateInv'
    BY <1>1, <2>1 DEF SessionInv, ReadInv, LateInv, Labels
  <2>4. StatusInv'
    BY <1>1, <2>1 DEF SessionInv, StatusInv, Running
  <2>5. BufferInv'
    BY <1>1, <2>1 DEF SessionInv, BufferInv, Before, Read, Running, Slice
  <2>6. JoinInv'
    BY <1>1, <2>1, <2>2 DEF SessionInv, JoinInv, Before, Read, Running, Given, Taken
  <2>7. WholeInv'
    BY <1>1, WholeKept DEF SessionInv
  <2> QED BY <2>3, <2>4, <2>5, <2>6, <2>7 DEF SessionInv
<1> QED BY <1>2, <1>3

\* What the filter makes of the buffer continues what it made before.
LEMMA FilterOutput ==
    ASSUME SessionInv, Filter
    PROVE  /\ filtered' \in Seq(BOOLEAN)
           /\ Given(Read - NumSamples) \o filtered' = Given(Read)
           /\ cfg.filter => count' = Decimation - (Read % Decimation)
<1> DEFINE p == Read - NumSamples
<1>1. pc = "filter"
  BY DEF Filter
<1>2. p \in Nat /\ p + NumSamples = Read /\ Read <= Len(input) /\ input \in Seq(BOOLEAN)
  BY <1>1, InWork
<1>3. samples = Cut(input, p)
  BY <1>1 DEF SessionInv, BufferInv, Slice
<1>4. CASE cfg.filter
  <2>1. count = Decimation - (p % Decimation)
    BY <1>1, <1>4 DEF SessionInv, BufferInv, Before, Running
  <2>2. /\ filtered' = [k \in 1 .. Outputs(count) |->
                            Cut(input, p)[count + (k - 1) * Decimation]]
        /\ count' = count + Outputs(count) * Decimation - NumSamples
    BY <1>3, <1>4, Zenon DEF Filter
  <2> HIDE DEF p
  <2>3. /\ filtered' \in Seq(BOOLEAN)
        /\ Decimated(Part(input, p)) \o filtered' = Decimated(Part(input, p + NumSamples))
    BY <1>2, <2>1, <2>2, FilterJoins, Zenon
  <2>4. count + Outputs(count) * Decimation - NumSamples
            = Decimation - ((p + NumSamples) % Decimation)
    BY <1>2, <2>1, Countdown, Zenon
  <2>5. Given(p) \o filtered' = Given(Read)
    BY <1>2, <1>4, <2>3, Zenon DEF Given, Taken
  <2>6. count' = Decimation - (Read % Decimation)
    BY <1>2, <2>2, <2>4, Zenon
  <2> QED BY <2>3, <2>5, <2>6, Zenon DEF p
<1>5. CASE ~cfg.filter
  <2>1. filtered' = Cut(input, p)
    BY <1>3, <1>5, Zenon DEF Filter
  <2> HIDE DEF p
  <2>2. filtered' \in Seq(BOOLEAN) /\ Part(input, p) \o filtered' = Part(input, p + NumSamples)
    BY <1>2, <2>1, PartCut, CutType
  <2>3. Given(p) \o filtered' = Given(Read)
    BY <1>2, <1>5, <2>2, Zenon DEF Given, Taken
  <2> QED BY <1>5, <2>2, <2>3, Zenon DEF p
<1> QED BY <1>4, <1>5

LEMMA FilterSession == ASSUME SessionInv, Filter PROVE SessionInv'
<1>1. /\ UNCHANGED <<cfg, running, status, signal, pos, samples, recorded, levels, input,
                     read_error, late>>
      /\ pc = "filter" /\ pc' = "record_filtered"
  BY DEF Filter, Files, Goto, history
<1>2. /\ Given(Read - NumSamples) \o filtered' = Given(Read)
      /\ cfg.filter => count' = Decimation - (Read % Decimation)
  BY FilterOutput
<1>3. ReadInv' /\ StatusInv' /\ LateInv'
  BY <1>1 DEF SessionInv, ReadInv, StatusInv, LateInv, Labels, Running
<1>4. BufferInv'
  <2>1. (Given(Read - NumSamples) \o filtered = Given(Read))'
    BY <1>1, <1>2, Zenon DEF Given, Taken, Read
  <2>2. (cfg.filter => count = Decimation - (Read % Decimation))'
    BY <1>1, <1>2, Zenon DEF Read
  <2>3. Read' >= NumSamples
    BY <1>1 DEF SessionInv, BufferInv, Read
  <2> QED BY <1>1, <2>1, <2>2, <2>3 DEF BufferInv, Before, Running
<1>5. JoinInv'
  BY <1>1 DEF SessionInv, JoinInv, Before, Read, Running, Given, Taken
<1>6. WholeInv'
  BY <1>1, WholeKept DEF SessionInv
<1> QED BY <1>3, <1>4, <1>5, <1>6 DEF SessionInv

LEMMA RecordFilteredSession == ASSUME SessionInv, RecordFiltered PROVE SessionInv'
<1>1. /\ UNCHANGED <<cfg, running, signal, pos, samples, filtered, count, levels, input,
                     read_error, late>>
      /\ pc = "record_filtered" /\ Record("filtered", filtered, "dig")
  BY DEF RecordFiltered, history
<1>2. CASE Return("error")
  <2>1. cfg.recorder # "none"
    BY <1>1, <1>2 DEF Record, Return, Goto
  <2> QED BY <1>1, <1>2, <2>1, ErrorSession
<1>3. CASE ~Return("error")
  <2>1. /\ pc' = "dig" /\ status' = status
        /\ recorded' = IF cfg.recorder = "filtered" THEN recorded \o filtered ELSE recorded
    BY <1>1, <1>3 DEF Record, Goto
  <2>2. Given(Read - NumSamples) \o filtered = Given(Read)
    BY <1>1 DEF SessionInv, BufferInv
  <2>3. ReadInv' /\ LateInv'
    BY <1>1, <2>1 DEF SessionInv, ReadInv, LateInv, Labels
  <2>4. StatusInv'
    BY <1>1, <2>1 DEF SessionInv, StatusInv, Running
  <2>5. BufferInv'
    BY <1>1, <2>1 DEF SessionInv, BufferInv, Before, Read, Running, Given, Taken
  <2>6. JoinInv'
    BY <1>1, <2>1, <2>2 DEF SessionInv, JoinInv, Before, Read, Running, Given, Taken
  <2>7. WholeInv'
    BY <1>1, WholeKept DEF SessionInv
  <2> QED BY <2>3, <2>4, <2>5, <2>6, <2>7 DEF SessionInv
<1> QED BY <1>2, <1>3

LEMMA DigitalSession == ASSUME SessionInv, Digital PROVE SessionInv'
<1>1. /\ UNCHANGED <<cfg, running, status, signal, pos, samples, filtered, count, recorded,
                     input, read_error, late>>
      /\ pc = "dig" /\ pc' = "device" /\ levels' = levels \o filtered
  BY DEF Digital, Goto, history
<1>2. Given(Read - NumSamples) \o filtered = Given(Read)
  BY <1>1 DEF SessionInv, BufferInv
<1>3. levels' = Given(Read)
  BY <1>1, <1>2 DEF SessionInv, JoinInv, Before, Running
<1>4. ReadInv' /\ StatusInv' /\ LateInv'
  BY <1>1 DEF SessionInv, ReadInv, StatusInv, LateInv, Labels, Running
<1>5. BufferInv'
  BY <1>1 DEF SessionInv, BufferInv, Before, Read, Running, Given, Taken
<1>6. JoinInv'
  BY <1>1, <1>3 DEF SessionInv, JoinInv, Before, Read, Running, Given, Taken
<1>7. WholeInv'
  BY <1>1, WholeKept DEF SessionInv
<1> QED BY <1>4, <1>5, <1>6, <1>7 DEF SessionInv

LEMMA DecodeSession == ASSUME SessionInv, Decode PROVE SessionInv'
<1>1. /\ UNCHANGED <<cfg, running, status, signal, pos, samples, filtered, count, recorded,
                     levels, input, read_error, late>>
      /\ pc = "device" /\ pc' = "head"
  BY DEF Decode, Goto, history
<1>2. ReadInv' /\ StatusInv' /\ LateInv'
  BY <1>1 DEF SessionInv, ReadInv, StatusInv, LateInv, Labels, Running
<1>3. BufferInv'
  BY <1>1 DEF SessionInv, BufferInv, Before, Read, Running, Given, Taken
<1>4. JoinInv'
  BY <1>1 DEF SessionInv, JoinInv, Before, Read, Running, Given, Taken
<1>5. WholeInv'
  BY <1>1, WholeKept DEF SessionInv
<1> QED BY <1>2, <1>3, <1>4, <1>5 DEF SessionInv

LEMMA NextSession == SessionInv /\ [Next]_vars => SessionInv'
<1> SUFFICES ASSUME SessionInv, [Next]_vars PROVE SessionInv'
  OBVIOUS
<1>1. CASE RadioFails
  BY <1>1, ErrorSession DEF RadioFails, history
<1>2. CASE UNCHANGED vars
  <2>1. UNCHANGED <<pc, cfg, running, status, signal, pos, samples, filtered, count,
                    recorded, levels, input, read_error, late>>
    BY <1>2 DEF vars, history
  <2>2. WholeInv'
    BY <2>1, WholeKept DEF SessionInv
  <2> QED BY <2>1, <2>2
      DEF SessionInv, ReadInv, BufferInv, JoinInv, StatusInv, LateInv, FileOver, Running,
          Before, Read, Slice, Given, Taken
<1> QED BY <1>1, <1>2, InterruptSession, LoopTestSession, ReceiveFileSession,
           ReceiveRadioSession, RecordInputSession, FilterSession, RecordFilteredSession,
           DigitalSession, DecodeSession
    DEF Next, Loop

\* At each step of the loop of ookiedokie_rx(), what has been filtered,
\* recorded and decoded so far is determined by the input and the step.
THEOREM Session == Spec => []SessionInv
BY InitSession, NextSession, PTL DEF Spec

\* What the device and the recordings are to be given is the whole input.
LEMMA ExpectedIsGiven == ReadInv => Expected = Given(Read) /\ input = Taken(Read)
<1> SUFFICES ASSUME ReadInv PROVE Expected = Given(Read) /\ input = Taken(Read)
  OBVIOUS
<1>1. input = Taken(Read)
  BY PartOfAll DEF ReadInv, Taken, Read
<1> QED BY <1>1, Zenon DEF Expected, Given

\* Between two buffers the device and the recordings have been given all
\* that sdr_rx() delivered, as if it had been filtered in one piece, and
\* unless a read of the file has failed that is the signal from its beginning.
THEOREM SessionJoinsUp == Spec => []BuffersJoinUp
<1>1. SessionInv => BuffersJoinUp
  <2> SUFFICES ASSUME SessionInv PROVE BuffersJoinUp
    OBVIOUS
  <2>1. Expected = Given(Read) /\ input = Taken(Read)
    BY ExpectedIsGiven DEF SessionInv
  <2> QED BY <2>1
      DEF SessionInv, JoinInv, WholeInv, Before, Running, BuffersJoinUp
<1> QED BY <1>1, Session, PTL

\* ookiedokie_rx() fails only by the radio or the recorder, and succeeds only
\* after the signal, at the end of the file or when a read of it has failed,
\* with everything delivered also recorded and thresholded.
THEOREM SessionStopsCleanly == Spec => []StopsCleanly
<1>1. SessionInv => StopsCleanly
  <2> SUFFICES ASSUME SessionInv PROVE StopsCleanly
    OBVIOUS
  <2>1. Expected = Given(Read) /\ input = Taken(Read)
    BY ExpectedIsGiven DEF SessionInv
  <2> QED BY <2>1 DEF SessionInv, StatusInv, FileOver, StopsCleanly
<1> QED BY <1>1, Session, PTL

\* However long the input is, at most one buffer is received after the
\* signal to stop, wherever in the loop of ookiedokie_rx() it came.
THEOREM SessionStopsSoon == Spec => []StopsSoon
<1>1. SessionInv => StopsSoon
  BY DEF SessionInv, LateInv, StopsSoon
<1> QED BY <1>1, Session, PTL

-----------------------------------------------------------------------------
(* The recording of the digital signal.                                    *)

RowType == [index : Nat, level : BOOLEAN]

\* The last row up to each of the first m samples of l gives its level.
Describes(rs, l, m) ==
    /\ rs \in Seq(RowType)
    /\ \A r \in 1 .. Len(rs) : rs[r].index < m \/ rs[r].index = 0
    /\ \A n \in 0 .. m - 1 : \E r \in 1 .. Len(rs) :
           /\ rs[r].index <= n /\ rs[r].level = l[n + 1]
           /\ \A q \in 1 .. Len(rs) : rs[q].index <= n => q <= r

\* The recording goes on after m samples of l: prev is the level of the last
\* row, and of the sample before, or of the first sample if there is none.
Recorded(prev, rs, l, m) ==
    /\ prev \in BOOLEAN
    /\ Describes(rs, l, m)
    /\ Len(rs) > 0 /\ rs[Len(rs)].level = prev
    /\ m > 0 => prev = l[m]
    /\ m = 0 /\ Len(l) > 0 => prev = l[1]

DigInv ==
    /\ pc \in {"record_filtered", "dig"} => filtered \in Seq(BOOLEAN)
    /\ cfg.dig /\ Running =>
           /\ dig.sample_no = Len(levels)
           /\ Describes(rows, levels, Len(levels))
           /\ Len(levels) > 0 => Recorded(dig.prev, rows, levels, Len(levels))

LEMMA RowProperties ==
    ASSUME NEW n \in Nat, NEW x \in BOOLEAN
    PROVE  Row(n, x) \in RowType /\ Row(n, x).index = n /\ Row(n, x).level = x
BY Zenon DEF Row, RowType

\* A turn of the loop of record_dig().
LEMMA LevelStep ==
    ASSUME NEW l \in Seq(BOOLEAN), NEW m \in Nat, m < Len(l), NEW st,
           Recorded(st.prev, st.rows, l, m)
    PROVE  LET to == RecordLevel(st, m, l[m + 1]) IN Recorded(to.prev, to.rows, l, m + 1)
<1> DEFINE x == l[m + 1]
           rs == st.rows
           to == RecordLevel(st, m, x)
<1>1. /\ Len(l) \in Nat /\ m + 1 \in 1 .. Len(l) /\ x \in BOOLEAN /\ st.prev \in BOOLEAN
      /\ rs \in Seq(RowType) /\ Len(rs) \in Nat /\ Len(rs) > 0
      /\ rs[Len(rs)].level = st.prev
  BY LenProperties, ElementOfSeq DEF Recorded, Describes
<1>2. \A r \in 1 .. Len(rs) : rs[r].index \in Nat /\ (rs[r].index < m \/ rs[r].index = 0)
  <2>1. \A r \in 1 .. Len(rs) : rs[r] \in RowType
    BY <1>1, ElementOfSeq
  <2>2. \A r \in 1 .. Len(rs) : rs[r].index < m \/ rs[r].index = 0
    BY Zenon DEF Recorded, Describes
  <2> QED BY <2>1, <2>2 DEF RowType
<1>3. ASSUME NEW n \in 0 .. m - 1
      PROVE  \E r \in 1 .. Len(rs) :
                 /\ rs[r].index <= n /\ rs[r].level = l[n + 1]
                 /\ \A q \in 1 .. Len(rs) : rs[q].index <= n => q <= r
  BY Zenon DEF Recorded, Describes
<1> HIDE DEF x, rs
<1>4. CASE x = st.prev
  <2>1. to.prev = x /\ to.rows = rs
    BY <1>4, Zenon DEF RecordLevel, rs
  <2>2. \A n \in 0 .. m : \E r \in 1 .. Len(rs) :
            /\ rs[r].index <= n /\ rs[r].level = l[n + 1]
            /\ \A q \in 1 .. Len(rs) : rs[q].index <= n => q <= r
    <3> TAKE n \in 0 .. m
    <3>1. CASE n = m
      <4>1. Len(rs) \in 1 .. Len(rs) /\ \A q \in 1 .. Len(rs) : q <= Len(rs)
        BY <1>1
      <4>2. rs[Len(rs)].index <= n
        BY <1>2, <3>1, <4>1
      <4>3. rs[Len(rs)].level = l[n + 1]
        BY <1>1, <1>4, <3>1, Zenon DEF x
      <4> QED BY <4>1, <4>2, <4>3, Zenon
    <3>2. CASE n # m
      <4>1. n \in 0 .. m - 1
        BY <3>2
      <4> QED BY <1>3, <4>1
    <3> QED BY <3>1, <3>2
  <2>3. \A r \in 1 .. Len(rs) : rs[r].index < m + 1 \/ rs[r].index = 0
    BY <1>2
  <2>4. 0 .. m + 1 - 1 = 0 .. m /\ m + 1 > 0 /\ m + 1 # 0
    OBVIOUS
  <2> HIDE DEF to
  <2>5. Describes(rs, l, m + 1)
    <3>1. ASSUME NEW n \in 0 .. m + 1 - 1
          PROVE  \E r \in 1 .. Len(rs) :
                     /\ rs[r].index <= n /\ rs[r].level = l[n + 1]
                     /\ \A q \in 1 .. Len(rs) : rs[q].index <= n => q <= r
      <4>1. n \in 0 .. m
        OBVIOUS
      <4> QED BY <4>1, <2>2, Zenon
    <3> QED BY <1>1, <2>3, <3>1 DEF Describes
  <2> QED BY <1>1, <1>4, <2>1, <2>4, <2>5, Zenon DEF Recorded, to, x
<1>5. CASE x # st.prev
  <2> DEFINE N == Len(rs)
             more == <<Row(m - 1, st.prev), Row(m, x)>>
             rt == rs \o more
  <2>1. m # 0
    <3>1. Len(l) > 0
      BY <1>1
    <3>2. 0 + 1 = 1
      OBVIOUS
    <3> QED BY <1>5, <3>1, <3>2, Zenon DEF Recorded, x
  <2>2. m - 1 \in Nat /\ st.prev = l[m]
    <3>1. m > 0 /\ m - 1 \in Nat
      BY <2>1
    <3> QED BY <3>1, Zenon DEF Recorded
  <2>3. to.prev = x /\ to.rows = rt
    BY <1>5, Zenon DEF RecordLevel, rs
  <2> HIDE DEF to
  <2>4. more \in Seq(RowType) /\ Len(more) = 2
        /\ more[1] = Row(m - 1, st.prev) /\ more[2] = Row(m, x)
    <3>1. Row(m - 1, st.prev) \in RowType /\ Row(m, x) \in RowType
      BY <1>1, <2>2, RowProperties
    <3> QED BY <3>1
  <2>5. /\ rt \in Seq(RowType) /\ Len(rt) = N + 2
        /\ \A r \in 1 .. N + 2 : rt[r] = IF r <= N THEN rs[r] ELSE more[r - N]
    <3> HIDE DEF more
    <3>1. /\ rs \o more \in Seq(RowType) /\ Len(rs \o more) = Len(rs) + Len(more)
          /\ \A r \in 1 .. Len(rs) + Len(more) :
                 (rs \o more)[r] = IF r <= Len(rs) THEN rs[r] ELSE more[r - Len(rs)]
      BY <1>1, <2>4, ConcatProperties, Zenon
    <3> QED BY <2>4, <3>1, Zenon
  <2> HIDE DEF rt
  <2>6. \A r \in 1 .. N : rt[r] = rs[r]
    BY <1>1, <2>5
  <2>7. rt[N + 1] = Row(m - 1, st.prev) /\ rt[N + 2] = Row(m, x)
    <3>1. /\ N + 1 \in 1 .. N + 2 /\ ~(N + 1 <= N) /\ (N + 1) - N = 1
          /\ N + 2 \in 1 .. N + 2 /\ ~(N + 2 <= N) /\ (N + 2) - N = 2
      BY <1>1
    <3> QED BY <2>4, <2>5, <3>1, Zenon
  <2>8. /\ rt[N + 1].index = m - 1 /\ rt[N + 1].level = l[m]
        /\ rt[N + 2].index = m /\ rt[N + 2].level = x
    BY <1>1, <2>2, <2>7, RowProperties
  <2>9. \A r \in 1 .. N + 2 : r \in 1 .. N \/ r = N + 1 \/ r = N + 2
    BY <1>1
  <2>10. \A r \in 1 .. Len(rt) : rt[r].index < m + 1 \/ rt[r].index = 0
    BY <1>2, <2>5, <2>6, <2>8, <2>9
  <2>11. \A n \in 0 .. m : \E r \in 1 .. Len(rt) :
            /\ rt[r].index <= n /\ rt[r].level = l[n + 1]
            /\ \A q \in 1 .. Len(rt) : rt[q].index <= n => q <= r
    <3> TAKE n \in 0 .. m
    <3>1. CASE n = m
      <4>1. N + 2 \in 1 .. Len(rt) /\ \A q \in 1 .. Len(rt) : q <= N + 2
        BY <1>1, <2>5
      <4>2. rt[N + 2].index <= n
        BY <2>8, <3>1
      <4>3. rt[N + 2].level = l[n + 1]
        BY <2>8, <3>1, Zenon DEF x
      <4> QED BY <4>1, <4>2, <4>3, Zenon
    <3>2. CASE n = m - 1
      <4>1. N + 1 \in 1 .. Len(rt) /\ rt[N + 1].index <= n
        BY <1>1, <2>2, <2>5, <2>8, <3>2
      <4>2. \A q \in 1 .. Len(rt) : rt[q].index <= n => q <= N + 1
        <5>1. \A q \in 1 .. Len(rt) : q # N + 2 => q <= N + 1
          BY <1>1, <2>5
        <5>2. ~(rt[N + 2].index <= n)
          BY <2>8, <3>2
        <5> QED BY <5>1, <5>2, Zenon
      <4>3. rt[N + 1].level = l[n + 1]
        <5>1. n + 1 = m
          BY <3>2
        <5> QED BY <2>8, <5>1, Zenon
      <4> QED BY <4>1, <4>2, <4>3, Zenon
    <3>3. CASE n # m /\ n # m - 1
      <4>1. n \in 0 .. m - 1 /\ ~(m - 1 <= n) /\ ~(m <= n)
        BY <3>3
      <4>2. PICK r \in 1 .. N :
                /\ rs[r].index <= n /\ rs[r].level = l[n + 1]
                /\ \A q \in 1 .. N : rs[q].index <= n => q <= r
        BY <1>3, <4>1
      <4>3. r \in 1 .. Len(rt) /\ rt[r] = rs[r]
        BY <1>1, <2>5, <2>6
      <4>4. \A q \in 1 .. Len(rt) : rt[q].index <= n => q <= r
        BY <2>5, <2>6, <2>8, <2>9, <4>1, <4>2, Zenon
      <4> QED BY <4>2, <4>3, <4>4, Zenon
    <3> QED BY <3>1, <3>2, <3>3
  <2>12. /\ 0 .. m + 1 - 1 = 0 .. m /\ m + 1 > 0 /\ m + 1 # 0
         /\ Len(rt) > 0 /\ Len(rt) = N + 2
    BY <1>1, <2>5
  <2>13. Describes(rt, l, m + 1)
    <3>1. ASSUME NEW n \in 0 .. m + 1 - 1
          PROVE  \E r \in 1 .. Len(rt) :
                     /\ rt[r].index <= n /\ rt[r].level = l[n + 1]
                     /\ \A q \in 1 .. Len(rt) : rt[q].index <= n => q <= r
      <4>1. n \in 0 .. m
        OBVIOUS
      <4> QED BY <4>1, <2>11, Zenon
    <3> QED BY <2>5, <2>10, <3>1 DEF Describes
  <2> QED BY <1>1, <2>3, <2>8, <2>12, <2>13, Zenon DEF Recorded, to, x
<1> QED BY <1>4, <1>5

\* The recursive definition of RecordedTo defines a function.
LEMMA RecordedToDef ==
    ASSUME NEW first, filtered \in Seq(BOOLEAN)
    PROVE  /\ RecordedTo(first)[0] = Started(first)
           /\ \A k \in 1 .. Len(filtered) :
                  RecordedTo(first)[k] = RecordLevel(RecordedTo(first)[k - 1],
                                                     dig.sample_no + k - 1, filtered[k])
<1> DEFINE N == Len(filtered)
           Turn(st, k) == RecordLevel(st, dig.sample_no + k - 1, filtered[k])
           Upto(m, f) == f = [k \in 0 .. m |-> IF k = 0 THEN Started(first)
                                              ELSE Turn(f[k - 1], k)]
           Without == {m \in 0 .. N : ~\E f : Upto(m, f)}
<1>1. N \in Nat
  BY LenProperties
<1> HIDE DEF N, Turn
<1>2. Without = {}
  <2> SUFFICES ASSUME Without # {} PROVE FALSE
    OBVIOUS
  <2>1. Without \subseteq Nat
    OBVIOUS
  <2>2. PICK x \in Without : \A y \in Without : x <= y
    <3> HIDE DEF Without
    <3> QED BY <2>1, Least
  <2>3. x \in Nat /\ x \in 0 .. N /\ ~\E f : Upto(x, f)
    BY <2>1
  <2>4. CASE x = 0
    <3> DEFINE f == [k \in 0 .. 0 |-> Started(first)]
    <3>1. Upto(0, f)
      OBVIOUS
    <3> QED BY <2>3, <2>4, <3>1
  <2>5. CASE x # 0
    <3>1. x - 1 \in 0 .. N /\ ~(x <= x - 1)
      BY <1>1, <2>3, <2>5
    <3>2. x - 1 \notin Without
      BY <2>2, <3>1
    <3>3. PICK f : Upto(x - 1, f)
      BY <3>1, <3>2
    <3> DEFINE g == [k \in 0 .. x |-> IF k = x THEN Turn(f[x - 1], x) ELSE f[k]]
    <3>4. g[x] = Turn(f[x - 1], x) /\ \A k \in 0 .. x - 1 : g[k] = f[k]
      <4>1. x \in 0 .. x /\ \A k \in 0 .. x - 1 : k \in 0 .. x /\ k # x
        BY <2>3
      <4>2. \A k \in 0 .. x : g[k] = IF k = x THEN Turn(f[x - 1], x) ELSE f[k]
        BY Zenon
      <4> QED BY <4>1, <4>2
    <3>5. \A k \in 0 .. x - 1 : f[k] = IF k = 0 THEN Started(first) ELSE Turn(f[k - 1], k)
      BY <3>3, Zenon
    <3>6. ASSUME NEW k \in 0 .. x
          PROVE  (IF k = x THEN Turn(f[x - 1], x) ELSE f[k])
                     = IF k = 0 THEN Started(first) ELSE Turn(g[k - 1], k)
      <4> HIDE DEF g
      <4>1. k # 0 => k - 1 \in 0 .. x - 1
        BY <2>3
      <4>2. CASE k = x
        BY <2>5, <3>4, <4>1, <4>2, Zenon
      <4>3. CASE k # x
        <5>1. k \in 0 .. x - 1
          BY <2>3, <4>3
        <5> QED BY <3>4, <3>5, <4>1, <4>3, <5>1, Zenon
      <4> QED BY <4>2, <4>3
    <3>7. Upto(x, g)
      BY <3>6, Zenon
    <3> QED BY <2>3, <3>7
  <2> QED BY <2>4, <2>5
<1>3. \E f : Upto(N, f)
  <2>1. N \in 0 .. N /\ N \notin Without
    BY <1>1, <1>2
  <2> QED BY <2>1
<1>4. Upto(N, CHOOSE f : Upto(N, f))
  BY <1>3, Zenon
<1> DEFINE F == RecordedTo(first)
<1>5. Upto(N, F)
  BY <1>4, Zenon DEF N, Turn, RecordedTo
<1> HIDE DEF F
<1>6. \A k \in 0 .. N : F[k] = IF k = 0 THEN Started(first) ELSE Turn(F[k - 1], k)
  BY <1>5, Zenon
<1>7. 0 \in 0 .. N /\ \A k \in 1 .. N : k \in 0 .. N /\ k # 0
  BY <1>1
<1>8. F[0] = Started(first) /\ \A k \in 1 .. N : F[k] = Turn(F[k - 1], k)
  BY <1>6, <1>7, Zenon
<1> QED BY <1>8, Zenon DEF F, N, Turn

\* What is recorded of a longer signal with the same beginning.
LEMMA SameBeginning ==
    ASSUME NEW l, NEW m \in Nat, NEW h, NEW rs, Describes(rs, l, m),
           \A k \in 1 .. m : h[k] = l[k]
    PROVE  Describes(rs, h, m)
<1>1. ASSUME NEW n \in 0 .. m - 1
      PROVE  \E r \in 1 .. Len(rs) :
                 /\ rs[r].index <= n /\ rs[r].level = h[n + 1]
                 /\ \A q \in 1 .. Len(rs) : rs[q].index <= n => q <= r
  <2>1. n + 1 \in 1 .. m
    OBVIOUS
  <2>2. h[n + 1] = l[n + 1]
    BY <2>1
  <2> QED BY <2>2, Zenon DEF Describes
<1> QED BY <1>1, Zenon DEF Describes

\* record_dig() goes on with the recording of the buffers before.
LEMMA BufferRecorded ==
    ASSUME DigInv, cfg.dig, pc = "dig", levels \in Seq(BOOLEAN), filtered \in Seq(BOOLEAN),
           NEW l, l = levels \o filtered, NEW first \in FirstLevels
    PROVE  LET end == RecordedTo(first)[Len(filtered)]
           IN  /\ Recorded(end.prev, end.rows, l, Len(l)) /\ l \in Seq(BOOLEAN)
               /\ Len(l) = dig.sample_no + Len(filtered)
<1> DEFINE m == Len(levels)
           n == Len(filtered)
           F == RecordedTo(first)
<1>1. /\ l \in Seq(BOOLEAN) /\ Len(l) = m + n /\ m \in Nat /\ n \in Nat
      /\ \A k \in 1 .. m + n : l[k] = IF k <= m THEN levels[k] ELSE filtered[k - m]
  BY ConcatProperties, LenProperties
<1>2. \A k \in 1 .. m : l[k] = levels[k]
  <2>1. \A k \in 1 .. m : k \in 1 .. m + n /\ k <= m
    BY <1>1
  <2> QED BY <1>1, <2>1, Zenon
<1>3. \A k \in 1 .. n : l[m + k] = filtered[k]
  <2>1. \A k \in 1 .. n : m + k \in 1 .. m + n /\ ~(m + k <= m) /\ (m + k) - m = k
    BY <1>1
  <2> QED BY <1>1, <2>1, Zenon
<1>4. /\ dig.sample_no = m
      /\ Describes(rows, levels, m)
      /\ m > 0 => Recorded(dig.prev, rows, levels, m)
  BY DEF DigInv, Running
<1>5. /\ F[0] = Started(first)
      /\ \A k \in 1 .. n : F[k] = RecordLevel(F[k - 1], dig.sample_no + k - 1, filtered[k])
  BY RecordedToDef
<1>6. Describes(rows, l, m)
  BY <1>1, <1>2, <1>4, SameBeginning
<1> HIDE DEF F, m
<1>7. Recorded(F[0].prev, F[0].rows, l, m)
  <2>1. CASE m > 0
    <3>1. F[0].prev = dig.prev /\ F[0].rows = rows
      BY <1>4, <1>5, <2>1 DEF Started
    <3>2. l[m] = levels[m] /\ ~(m = 0)
      BY <1>1, <1>2, <2>1
    <3> QED BY <1>4, <1>6, <2>1, <3>1, <3>2, Zenon DEF Recorded
  <2>2. CASE m = 0
    <3>1. first \in BOOLEAN /\ (n > 0 => first = l[1])
      <4>1. CASE filtered = <<>>
        BY <1>1, <4>1 DEF FirstLevels
      <4>2. CASE filtered # <<>>
        <5>1. 1 \in 1 .. n /\ m + 1 = 1
          BY <2>2, <4>2
        <5>2. first = filtered[1] /\ filtered[1] \in BOOLEAN
          BY <4>2, <5>1, ElementOfSeq DEF FirstLevels
        <5> QED BY <1>3, <5>1, <5>2, Zenon
      <4> QED BY <4>1, <4>2
    <3> DEFINE rt == Append(rows, Row(0, first))
               k == Len(rows)
    <3>2. F[0].prev = first /\ F[0].rows = rt
      <4>1. dig.sample_no = 0
        BY <1>4, <2>2
      <4>2. Started(first) = [prev |-> first, rows |-> rt]
        BY <4>1, Zenon DEF Started
      <4>3. F[0] = [prev |-> first, rows |-> rt]
        BY <1>5, <4>2, Zenon
      <4> HIDE DEF rt
      <4> QED BY <4>3
    <3>3. Row(0, first) \in RowType /\ Row(0, first).index = 0 /\ Row(0, first).level = first
      BY <3>1, RowProperties
    <3>4. rows \in Seq(RowType) /\ k \in Nat
      BY <1>4, LenProperties DEF Describes
    <3>5. /\ rt \in Seq(RowType) /\ Len(rt) = k + 1
          /\ rt[k + 1] = Row(0, first)
          /\ \A r \in 1 .. k : rt[r] = rows[r]
      BY <3>3, <3>4, AppendProperties
    <3> HIDE DEF rt
    <3>6. ASSUME NEW r \in 1 .. Len(rt) PROVE rt[r].index < m \/ rt[r].index = 0
      <4>1. CASE r = k + 1
        BY <3>3, <3>5, <4>1
      <4>2. CASE r # k + 1
        <5>1. r \in 1 .. k
          BY <3>4, <3>5, <4>2
        <5> QED BY <1>4, <3>5, <5>1, Zenon DEF Describes
      <4> QED BY <4>1, <4>2
    <3>7. Describes(rt, l, m)
      <4>1. 0 .. m - 1 = {}
        BY <2>2
      <4> QED BY <3>5, <3>6, <4>1 DEF Describes
    <3>8. Len(rt) > 0 /\ rt[Len(rt)].level = first /\ ~(m > 0) /\ (Len(l) > 0 => n > 0)
      BY <1>1, <2>2, <3>3, <3>4, <3>5
    <3> QED BY <2>2, <3>1, <3>2, <3>7, <3>8, Zenon DEF Recorded
  <2> QED BY <1>1, <2>1, <2>2
<1> DEFINE Bad == {k \in 0 .. n : ~Recorded(F[k].prev, F[k].rows, l, m + k)}
<1>8. Bad = {}
  <2> SUFFICES ASSUME Bad # {} PROVE FALSE
    OBVIOUS
  <2>1. Bad \in SUBSET Nat
    BY <1>1
  <2>2. PICK k \in Bad : \A j \in Bad : k <= j
    <3> HIDE DEF Bad
    <3> QED BY <2>1, Least
  <2>3. k \in 0 .. n /\ ~Recorded(F[k].prev, F[k].rows, l, m + k)
    OBVIOUS
  <2>4. k # 0
    <3>1. m + 0 = m
      BY <1>1
    <3> QED BY <1>7, <2>3, <3>1, Zenon
  <2>5. /\ k - 1 \in 0 .. n /\ ~(k <= k - 1) /\ k \in 1 .. n
        /\ m + (k - 1) \in Nat /\ m + (k - 1) < Len(l)
        /\ (m + (k - 1)) + 1 = m + k /\ m + k - 1 = m + (k - 1)
    BY <1>1, <2>3, <2>4
  <2>6. Recorded(F[k - 1].prev, F[k - 1].rows, l, m + (k - 1))
    BY <2>2, <2>5, Zenon
  <2>7. F[k] = RecordLevel(F[k - 1], m + (k - 1), l[(m + (k - 1)) + 1])
    <3>1. filtered[k] = l[(m + (k - 1)) + 1]
      BY <1>3, <2>5, Zenon
    <3> QED BY <1>4, <1>5, <2>5, <3>1, Zenon
  <2>8. Recorded(F[k].prev, F[k].rows, l, (m + (k - 1)) + 1)
    BY <1>1, <2>5, <2>6, <2>7, LevelStep, Zenon
  <2> QED BY <2>3, <2>5, <2>8, Zenon
<1>9. n \in 0 .. n /\ n \notin Bad
  BY <1>1, <1>8
<1>10. Recorded(F[n].prev, F[n].rows, l, m + n)
  BY <1>9
<1> QED BY <1>1, <1>4, <1>10, Zenon DEF F

-----------------------------------------------------------------------------

LEMMA GivenType ==
    ASSUME input \in Seq(BOOLEAN), NEW p \in 0 .. Len(input)
    PROVE  Given(p) \in Seq(BOOLEAN)
BY PartType, DecimatedType, Zenon DEF Given, Taken

LEMMA LevelsType == SessionInv /\ Running => levels \in Seq(BOOLEAN)
<1> SUFFICES ASSUME SessionInv, Running PROVE levels \in Seq(BOOLEAN)
  OBVIOUS
<1> DEFINE p == Before({"record_input", "filter", "record_filtered", "dig"})
<1>1. input \in Seq(BOOLEAN) /\ levels = Given(p)
  BY DEF SessionInv, ReadInv, JoinInv
<1>2. p \in 0 .. Len(input)
  BY <1>1, SessionAssumption, LenProperties DEF SessionInv, BufferInv, Before, Read
<1> HIDE DEF p
<1> QED BY <1>1, <1>2, GivenType

LEMMA InitDig == Init => DigInv
<1> SUFFICES ASSUME Init PROVE DigInv
  OBVIOUS
<1>1. pc = "head" /\ rows = <<>> /\ dig.sample_no = 0 /\ levels = <<>>
  BY Zenon DEF Init
<1>2. Describes(<<>>, <<>>, 0)
  <2>1. <<>> \in Seq(RowType) /\ Len(<<>>) = 0 /\ 1 .. 0 = {} /\ 0 .. 0 - 1 = {}
    OBVIOUS
  <2> QED BY <2>1 DEF Describes
<1>3. Len(<<>>) = 0 /\ ~(0 > 0)
  OBVIOUS
<1> QED BY <1>1, <1>2, <1>3 DEF DigInv

LEMMA NextDig == SessionInv /\ DigInv /\ [Next]_vars => DigInv'
<1> SUFFICES ASSUME SessionInv, DigInv, [Next]_vars PROVE DigInv'
  OBVIOUS
<1>1. CASE Digital
  <2>1. /\ pc = "dig" /\ pc' = "device" /\ cfg' = cfg /\ levels' = levels \o filtered
        /\ filtered \in Seq(BOOLEAN)
    BY <1>1 DEF Digital, Goto, DigInv
  <2>2. CASE cfg.dig
    <3>1. PICK first \in FirstLevels :
              LET end == RecordedTo(first)[Len(filtered)]
              IN  /\ rows' = end.rows
                  /\ dig' = [sample_no |-> dig.sample_no + Len(filtered), prev |-> end.prev]
      BY <1>1, <2>2, Zenon DEF Digital, RecordDig
    <3>2. levels \in Seq(BOOLEAN)
      BY <2>1, LevelsType DEF Running
    <3>3. /\ Recorded(RecordedTo(first)[Len(filtered)].prev,
                      RecordedTo(first)[Len(filtered)].rows, levels', Len(levels'))
          /\ Len(levels') = dig.sample_no + Len(filtered)
      BY <2>1, <2>2, <3>2, BufferRecorded, Zenon
    <3>4. dig'.prev = RecordedTo(first)[Len(filtered)].prev
          /\ dig'.sample_no = dig.sample_no + Len(filtered)
      BY <3>1
    <3>5. Recorded(dig'.prev, rows', levels', Len(levels')) /\ dig'.sample_no = Len(levels')
      BY <3>1, <3>3, <3>4, Zenon
    <3>6. Describes(rows', levels', Len(levels'))
      BY <3>5, Zenon DEF Recorded
    <3> QED BY <2>1, <3>5, <3>6 DEF DigInv
  <2>3. CASE ~cfg.dig
    BY <2>1, <2>3 DEF DigInv
  <2> QED BY <2>2, <2>3
<1>2. CASE Filter
  <2>1. /\ UNCHANGED <<cfg, dig, rows, levels>> /\ pc' = "record_filtered" /\ pc = "filter"
    BY <1>2 DEF Filter, Goto, Files
  <2> QED BY <1>2, <2>1, FilterOutput DEF DigInv, Running
<1>3. CASE Interrupt \/ UNCHANGED vars
  BY <1>3 DEF Interrupt, vars, DigInv, Running
<1>4. CASE LoopTest \/ ReceiveFile \/ ReceiveRadio \/ RadioFails \/ RecordInput \/ Decode
  <2>1. /\ UNCHANGED <<cfg, dig, rows, levels>>
        /\ pc' \notin {"record_filtered", "dig"} /\ Running
    BY <1>4
    DEF LoopTest, ReceiveFile, ReceiveRadio, RadioFails, Deliver, RecordInput, Record, Decode,
        PrintRow, Goto, Return, Files, Running
  <2> QED BY <2>1 DEF DigInv, Running
<1>5. CASE RecordFiltered
  <2>1. UNCHANGED <<cfg, dig, rows, levels, filtered>> /\ pc = "record_filtered"
    BY <1>5 DEF RecordFiltered
  <2> QED BY <2>1 DEF DigInv, Running
<1> QED BY <1>1, <1>2, <1>3, <1>4, <1>5 DEF Next, Loop

\* The rows of the CSV file give the level of every sample thresholded so
\* far, also across buffers and when a buffer is empty.
THEOREM RecordingIsSignal == Spec => []DigIsSignal
<1>1. ASSUME DigInv, cfg.dig, pc = "head" PROVE DigIsSignal
  <2>1. dig.sample_no = Len(levels) /\ Describes(rows, levels, Len(levels))
    BY <1>1 DEF DigInv, Running
  <2>2. ASSUME NEW n \in 0 .. Len(levels) - 1 PROVE LevelAt(n) = levels[n + 1]
    <3> DEFINE Last(r) == /\ rows[r].index <= n
                          /\ \A q \in DOMAIN rows : rows[q].index <= n => q <= r
    <3>1. rows \in Seq(RowType) /\ DOMAIN rows = 1 .. Len(rows) /\ Len(rows) \in Nat
      BY <2>1, LenProperties DEF Describes
    <3>2. PICK r \in DOMAIN rows : Last(r) /\ rows[r].level = levels[n + 1]
      BY <2>1, <2>2, <3>1, Zenon DEF Describes
    <3>3. ASSUME NEW q \in DOMAIN rows, Last(q) PROVE q = r
      <4>1. q <= r /\ r <= q /\ q \in Nat /\ r \in Nat
        BY <3>1, <3>2, <3>3
      <4> QED BY <4>1
    <3>4. (CHOOSE q \in DOMAIN rows : Last(q)) = r
      <4> HIDE DEF Last
      <4> QED BY <3>2, <3>3
    <3> QED BY <3>2, <3>4, Zenon DEF LevelAt
  <2> QED BY <2>1, <2>2, Zenon DEF DigIsSignal
<1>2. DigInv => DigIsSignal
  BY <1>1 DEF DigIsSignal
<1> QED BY <1>2, InitDig, NextDig, Session, PTL DEF Spec
=============================================================================
