--------------------------- MODULE Formatter_proofs ---------------------------
(***************************************************************************)
(* Packing a message, for every formatter whose fields lie in the message, *)
(* whether they share bits or not, every list of parameters and all widths *)
(* of the types: each field that was given a value holds the bits of it    *)
(* until a field that shares some of them is given one, nothing else is    *)
(* written, and a value that its field can hold is read back.              *)
(***************************************************************************)
EXTENDS Formatter, Arithmetic, SequenceTheorems, FiniteSetTheorems, TLAPS

\* The buffer holds at the positions of a field bits that the value may be
\* given, whether or not the machine reduces the counts of shifts that are
\* too long.
Holds(d, f, v) ==
    \E wraps \in BOOLEAN : \E b \in ToBits(Fields[f], v, wraps) :
        /\ b < Mask(Fields[f])
        /\ \A p \in Positions(Fields[f]) : d[p] = TestBit(b, BitOf(Fields[f], p), wraps)

\* The fields whose value is known hold it, and the bits between the fields
\* are clear.
PackInv ==
    /\ pc \in {"defaults", "params", "done", "failed"}
    /\ next \in Nat \ {0}
    /\ params \in Seq([field : Nat, value : Int])
    /\ DOMAIN data = 0 .. DataBits - 1
    /\ DOMAIN given \subseteq DOMAIN Fields
    /\ \A f \in DOMAIN given : given[f] \in Int /\ Holds(data, f, given[f])
    /\ \A p \in DOMAIN data :
           data[p] => \E f \in DOMAIN Fields : p \in Positions(Fields[f])

\* Every bit that a field is given lies in it and in the buffer.
LEMMA FieldProperties ==
    ASSUME NEW f \in DOMAIN Fields
    PROVE  /\ Fields[f] \in Field
           /\ Fields[f].default \in Int
           /\ Positions(Fields[f]) \subseteq 0 .. DataBits - 1
           /\ Width(Fields[f]) \in 1 .. WordBits
<1>1. Fields[f] \in Field
  BY FormatterAssumption
<1>2. /\ Fields[f].start_bit \in Nat /\ Fields[f].end_bit \in Nat /\ Fields[f].default \in Int
  BY <1>1 DEF Field
<1>3. /\ Fields[f].start_bit <= Fields[f].end_bit /\ Fields[f].end_bit < DataBits
      /\ Fields[f].end_bit - Fields[f].start_bit + 1 <= WordBits
  BY FormatterAssumption DEF Width
<1>4. DataBits \in Nat /\ WordBits \in Nat
  BY FormatterAssumption
<1> QED BY <1>1, <1>2, <1>3, <1>4 DEF Positions, Width

LEMMA InitPack == Init => PackInv
<1> SUFFICES ASSUME Init PROVE PackInv
  OBVIOUS
<1>1. params \in Seq([field : Nat, value : Int])
  BY FormatterAssumption DEF Init
<1>2. DOMAIN given = {}
  BY DEF Init
<1>3. /\ DOMAIN data = 0 .. DataBits - 1
      /\ \A p \in DOMAIN data : ~data[p]
  BY DEF Init
<1> QED BY <1>1, <1>2, <1>3 DEF Init, PackInv

\* apply_field_bits() gives one field its bits and leaves those that share
\* none with it alone.
LEMMA FieldGiven ==
    ASSUME PackInv, NEW f \in DOMAIN Fields, NEW v \in Int, NEW wraps \in BOOLEAN,
           NEW b \in ToBits(Fields[f], v, wraps), b < Mask(Fields[f]),
           data' = ApplyBits(data, Fields[f], b, wraps), Give(f, v)
    PROVE  /\ DOMAIN data' = 0 .. DataBits - 1
           /\ \A p \in DOMAIN data : p \notin Positions(Fields[f]) => data'[p] = data[p]
           /\ DOMAIN given' \subseteq DOMAIN Fields
           /\ \A g \in DOMAIN given' : given'[g] \in Int /\ Holds(data', g, given'[g])
           /\ \A p \in DOMAIN data' :
                  data'[p] => \E g \in DOMAIN Fields : p \in Positions(Fields[g])
<1>1. PICK d : d = data
  OBVIOUS
<1>2. PICK e : e = data'
  OBVIOUS
<1>3. PICK G : G = given
  OBVIOUS
<1>4. PICK H : H = given'
  OBVIOUS
<1>5. /\ DOMAIN d = 0 .. DataBits - 1
      /\ DOMAIN G \subseteq DOMAIN Fields
      /\ \A g \in DOMAIN G : G[g] \in Int /\ Holds(d, g, G[g])
      /\ \A p \in DOMAIN d : d[p] => \E g \in DOMAIN Fields : p \in Positions(Fields[g])
  BY <1>1, <1>3 DEF PackInv
<1>6. /\ DOMAIN e = DOMAIN d
      /\ \A p \in DOMAIN d : e[p] = IF p \in Positions(Fields[f])
                                    THEN TestBit(b, BitOf(Fields[f], p), wraps) ELSE d[p]
  BY <1>1, <1>2 DEF ApplyBits
<1>7. H = [g \in {f} \cup {h \in DOMAIN G : Positions(Fields[h]) \cap Positions(Fields[f]) = {}}
             |-> IF g = f THEN v ELSE G[g]]
  BY <1>3, <1>4, Zenon DEF Give
<1>8. Holds(e, f, v)
  <2>1. Positions(Fields[f]) \subseteq DOMAIN d
    BY <1>5, FieldProperties
  <2>2. \A p \in Positions(Fields[f]) : e[p] = TestBit(b, BitOf(Fields[f], p), wraps)
    BY <1>6, <2>1
  <2> QED BY <2>2, Zenon DEF Holds
<1>9. ASSUME NEW g \in DOMAIN H PROVE g \in DOMAIN Fields /\ H[g] \in Int /\ Holds(e, g, H[g])
  <2>1. CASE g = f
    <3>1. H[g] = v
      BY <1>7, <2>1
    <3> QED BY <1>8, <2>1, <3>1
  <2>2. CASE g # f
    <3>1. /\ g \in DOMAIN G /\ H[g] = G[g]
          /\ Positions(Fields[g]) \cap Positions(Fields[f]) = {}
      BY <1>7, <2>2
    <3>2. PICK w : w = G[g]
      OBVIOUS
    <3>3. g \in DOMAIN Fields /\ w \in Int /\ Holds(d, g, w)
      BY <1>5, <3>1, <3>2
    <3>4. \A p \in Positions(Fields[g]) : e[p] = d[p]
      <4>1. Positions(Fields[g]) \subseteq DOMAIN d
        BY <1>5, <3>3, FieldProperties
      <4> QED BY <1>6, <3>1, <4>1
    <3>5. Holds(e, g, w)
      <4>3. PICK other \in BOOLEAN : \E c \in ToBits(Fields[g], w, other) :
                /\ c < Mask(Fields[g])
                /\ \A p \in Positions(Fields[g]) :
                       d[p] = TestBit(c, BitOf(Fields[g], p), other)
        BY <3>3, Zenon DEF Holds
      <4>1. PICK c \in ToBits(Fields[g], w, other) :
                /\ c < Mask(Fields[g])
                /\ \A p \in Positions(Fields[g]) :
                       d[p] = TestBit(c, BitOf(Fields[g], p), other)
        BY <4>3
      <4>2. \A p \in Positions(Fields[g]) : e[p] = TestBit(c, BitOf(Fields[g], p), other)
        BY <3>4, <4>1, Zenon
      <4> QED BY <4>1, <4>2, Zenon DEF Holds
    <3> QED BY <3>1, <3>2, <3>3, <3>5
  <2> QED BY <2>1, <2>2
<1>10. \A p \in DOMAIN e : e[p] => \E g \in DOMAIN Fields : p \in Positions(Fields[g])
  BY <1>5, <1>6
<1> QED BY <1>1, <1>2, <1>4, <1>5, <1>6, <1>9, <1>10

\* The field that a step gives a value, and the step: the default of the next
\* field, or the next parameter.
LEMMA StepGives ==
    ASSUME PackInv, Default \/ Param
    PROVE  \E f \in DOMAIN Fields, v \in Int, wraps \in BOOLEAN :
               /\ f = IF pc = "defaults" THEN next ELSE params[next].field
               /\ pc # "defaults" => next <= Len(params)
               /\ \E b \in ToBits(Fields[f], v, wraps) :
                      b < Mask(Fields[f]) /\ data' = ApplyBits(data, Fields[f], b, wraps)
               /\ Give(f, v)
<1>1. CASE Default
  <2>1. pc = "defaults" /\ next \in DOMAIN Fields
    BY <1>1, FormatterAssumption DEF Default, PackInv
  <2>2. PICK f : f = next
    OBVIOUS
  <2>3. PICK wraps \in BOOLEAN : \E b \in ToBits(Fields[f], Fields[f].default, wraps) :
            /\ b < Mask(Fields[f])
            /\ data' = ApplyBits(data, Fields[f], b, wraps)
            /\ Give(f, Fields[f].default)
    BY <1>1, <2>2, Zenon DEF Default
  <2>4. PICK v : v = Fields[f].default
    OBVIOUS
  <2>5. v \in Int /\ f \in DOMAIN Fields
    BY <2>1, <2>2, <2>4, FieldProperties
  <2>6. /\ \E b \in ToBits(Fields[f], v, wraps) :
               b < Mask(Fields[f]) /\ data' = ApplyBits(data, Fields[f], b, wraps)
        /\ Give(f, v)
    BY <2>3, <2>4, Zenon
  <2> QED BY <2>1, <2>2, <2>5, <2>6, Zenon
<1>2. CASE Param
  <2>1. /\ pc = "params" /\ next \in 1 .. Len(params) /\ next <= Len(params)
        /\ params \in Seq([field : Nat, value : Int])
    BY <1>2 DEF Param, PackInv
  <2>2. PICK f : f = params[next].field
    OBVIOUS
  <2>3. PICK v : v = params[next].value
    OBVIOUS
  <2>4. v \in Int
    <3>1. params[next] \in [field : Nat, value : Int]
      BY <2>1, ElementOfSeq
    <3> QED BY <2>3, <3>1
  <2>5. /\ f \in DOMAIN Fields
        /\ \E wraps \in BOOLEAN : \E b \in ToBits(Fields[f], v, wraps) :
               b < Mask(Fields[f]) /\ data' = ApplyBits(data, Fields[f], b, wraps)
        /\ Give(f, v)
    BY <1>2, <2>2, <2>3, Zenon DEF Param
  <2>6. f = IF pc = "defaults" THEN next ELSE params[next].field
    BY <2>1, <2>2
  <2> QED BY <2>1, <2>4, <2>5, <2>6, Zenon
<1> QED BY <1>1, <1>2

LEMMA NextPack == PackInv /\ [Next]_vars => PackInv'
<1> SUFFICES ASSUME PackInv, [Next]_vars PROVE PackInv'
  OBVIOUS
<1>1. CASE Default \/ Param
  <2>1. PICK f \in DOMAIN Fields, v \in Int, wraps \in BOOLEAN :
            /\ \E b \in ToBits(Fields[f], v, wraps) :
                   b < Mask(Fields[f]) /\ data' = ApplyBits(data, Fields[f], b, wraps)
            /\ Give(f, v)
    BY <1>1, StepGives, Zenon
  <2>2. PICK b \in ToBits(Fields[f], v, wraps) :
            b < Mask(Fields[f]) /\ data' = ApplyBits(data, Fields[f], b, wraps)
    BY <2>1
  <2>3. /\ DOMAIN data' = 0 .. DataBits - 1
        /\ DOMAIN given' \subseteq DOMAIN Fields
        /\ \A g \in DOMAIN given' : given'[g] \in Int /\ Holds(data', g, given'[g])
        /\ \A p \in DOMAIN data' :
               data'[p] => \E g \in DOMAIN Fields : p \in Positions(Fields[g])
    BY <2>1, <2>2, FieldGiven
  <2>4. /\ pc' = pc /\ next' = next + 1 /\ params' = params
    BY <1>1 DEF Default, Param
  <2>5. /\ pc' \in {"defaults", "params", "done", "failed"}
        /\ next' \in Nat \ {0}
        /\ params' \in Seq([field : Nat, value : Int])
    BY <2>4 DEF PackInv
  <2> QED BY <2>3, <2>5 DEF PackInv, Holds
<1>2. CASE DefaultsDone
  BY <1>2 DEF DefaultsDone, PackInv, Holds
<1>3. CASE ParamRefused
  BY <1>3 DEF ParamRefused, PackInv, Holds
<1>4. CASE ParamsDone
  BY <1>4 DEF ParamsDone, PackInv, Holds
<1>5. CASE UNCHANGED vars
  BY <1>5 DEF vars, PackInv, Holds
<1> QED BY <1>1, <1>2, <1>3, <1>4, <1>5 DEF Next

\* While a message is packed, each field that was given a value holds its
\* bits as long as no field that shares some of them is given one, and the
\* bits between the fields are clear (apply_field_bits()).
THEOREM Packing == Spec => []PackInv
BY InitPack, NextPack, PTL DEF Spec

-----------------------------------------------------------------------------
(* Fields apart.  What is read back of a field depends on its bits only.   *)

\* The bits of the value lie at positions of the field, each at one.
LEMMA PositionsOfBits ==
    ASSUME NEW f \in DOMAIN Fields, NEW n \in Nat, n < Width(Fields[f])
    PROVE  /\ PositionOf(Fields[f], n) \in Positions(Fields[f])
           /\ BitOf(Fields[f], PositionOf(Fields[f], n)) = n
<1>1. Fields[f].start_bit \in Nat /\ Fields[f].end_bit \in Nat
  BY FieldProperties DEF Field
<1> QED BY <1>1 DEF PositionOf, Positions, BitOf, Width

LEMMA SameShown ==
    ASSUME NEW f \in DOMAIN Fields, NEW d, NEW e, \A p \in Positions(Fields[f]) : e[p] = d[p]
    PROVE  FieldValue(Fields[f], e) = FieldValue(Fields[f], d)
<1> DEFINE W == Width(Fields[f])
           Value(x, v) == v = [n \in 0 .. W |->
                                  IF n = 0 THEN 0
                                  ELSE v[n - 1] + (IF x[PositionOf(Fields[f], n - 1)]
                                                   THEN Pow2[n - 1] ELSE 0)]
<1>1. ASSUME NEW n \in 0 .. W, n # 0
      PROVE  e[PositionOf(Fields[f], n - 1)] = d[PositionOf(Fields[f], n - 1)]
  <2>1. W \in Nat
    BY FieldProperties
  <2>2. n - 1 \in Nat /\ n - 1 < W
    BY <1>1, <2>1
  <2> QED BY <2>2, PositionsOfBits
<1>2. ASSUME NEW v
      PROVE  [n \in 0 .. W |-> IF n = 0 THEN 0
                               ELSE v[n - 1] + (IF e[PositionOf(Fields[f], n - 1)]
                                                THEN Pow2[n - 1] ELSE 0)]
             = [n \in 0 .. W |-> IF n = 0 THEN 0
                                 ELSE v[n - 1] + (IF d[PositionOf(Fields[f], n - 1)]
                                                  THEN Pow2[n - 1] ELSE 0)]
  <2> HIDE DEF W
  <2> QED BY <1>1
<1>3. \A v : Value(e, v) <=> Value(d, v)
  BY <1>2, Zenon
<1>4. (CHOOSE v : Value(e, v)) = (CHOOSE v : Value(d, v))
  <2> HIDE DEF Value
  <2> QED BY <1>3
<1>5. FieldValue(Fields[f], e) = (CHOOSE v : Value(e, v))[W]
  BY Zenon DEF FieldValue
<1>6. FieldValue(Fields[f], d) = (CHOOSE v : Value(d, v))[W]
  BY Zenon DEF FieldValue
<1> QED BY <1>4, <1>5, <1>6, Zenon

\* Setting a field leaves what is read back of every field that shares no bit
\* with it, for fields of any width, and no bit outside of the fields is ever
\* set (the &= of formatter.c:777).
THEOREM PackingKeepsFieldsApart == Spec => FieldsKeepApart
<1> DEFINE set == IF pc = "defaults" THEN next
                  ELSE IF next <= Len(params) THEN params[next].field ELSE 0
           Apart ==
             /\ \A p \in DOMAIN data' :
                    data'[p] => \E f \in DOMAIN Fields : p \in Positions(Fields[f])
             /\ \A f \in DOMAIN Fields :
                    (set \in DOMAIN Fields =>
                         Positions(Fields[f]) \cap Positions(Fields[set]) = {})
                        => FieldValue(Fields[f], data)' = FieldValue(Fields[f], data)
<1>1. PackInv /\ PackInv' /\ Next => Apart
  <2> SUFFICES ASSUME PackInv, PackInv', Next PROVE Apart
    OBVIOUS
  <2>1. \A p \in DOMAIN data' :
            data'[p] => \E f \in DOMAIN Fields : p \in Positions(Fields[f])
    BY DEF PackInv
  <2>2. ASSUME NEW f \in DOMAIN Fields,
               set \in DOMAIN Fields => Positions(Fields[f]) \cap Positions(Fields[set]) = {}
        PROVE  FieldValue(Fields[f], data)' = FieldValue(Fields[f], data)
    <3>1. PICK d : d = data
      OBVIOUS
    <3>2. PICK e : e = data'
      OBVIOUS
    <3>3. \A p \in Positions(Fields[f]) : e[p] = d[p]
      <4>1. CASE Default \/ Param
        <5>1. PICK g \in DOMAIN Fields, v \in Int, wraps \in BOOLEAN :
                  /\ g = IF pc = "defaults" THEN next ELSE params[next].field
                  /\ pc # "defaults" => next <= Len(params)
                  /\ \E b \in ToBits(Fields[g], v, wraps) :
                         b < Mask(Fields[g]) /\ data' = ApplyBits(data, Fields[g], b, wraps)
                  /\ Give(g, v)
          BY <4>1, StepGives, Zenon
        <5>2. \A p \in DOMAIN d : p \notin Positions(Fields[g]) => e[p] = d[p]
          BY <3>1, <3>2, <5>1, FieldGiven
        <5>3. Positions(Fields[f]) \subseteq DOMAIN d
          BY <3>1, FieldProperties DEF PackInv
        <5>4. set = g
          BY <5>1, Zenon
        <5>5. Positions(Fields[f]) \cap Positions(Fields[g]) = {}
          BY <2>2, <5>4, Zenon
        <5> QED BY <5>2, <5>3, <5>5
      <4>2. CASE data' = data
        BY <3>1, <3>2, <4>2
      <4> QED BY <4>1, <4>2 DEF Next, DefaultsDone, ParamRefused, ParamsDone
    <3>4. FieldValue(Fields[f], e) = FieldValue(Fields[f], d)
      BY <3>3, SameShown
    <3> QED BY <3>1, <3>2, <3>4
  <2> QED BY <2>1, <2>2
<1>2. PackInv /\ PackInv' /\ [Next]_vars => [Apart]_vars
  BY <1>1
<1> HIDE DEF Apart
<1>3. Spec => [][Apart]_vars
  BY <1>2, Packing, PTL DEF Spec
<1> QED BY <1>3 DEF Apart, FieldsKeepApart
-----------------------------------------------------------------------------
(* Reading back.  The value of the bits is summed up from its lowest one:  *)
(* the sum of the lowest n bits of b is the rest of b divided by 2^n.      *)

LastPower == WordBits + FloatBits

LEMMA Pow2Steps ==
    /\ DOMAIN Pow2 = 0 .. LastPower
    /\ Pow2[0] = 1
    /\ \A n \in 1 .. LastPower : Pow2[n] = Pow2[n - 1] * 2
<1>0. LastPower \in Nat
  BY FormatterAssumption DEF LastPower
<1> DEFINE Power(f) == f = [n \in 0 .. LastPower |-> IF n = 0 THEN 1 ELSE f[n - 1] * 2]
<1>1. \E f : Power(f)
  <2> DEFINE D == [t \in 0 .. LastPower |-> 2]
  <2>1. \A t \in 0 .. LastPower : D[t] = 2
    OBVIOUS
  <2> HIDE DEF D
  <2>2. LastPower \in Nat
    BY <1>0
  <2>3. PICK f : f = [t \in 0 .. LastPower |-> IF t = 0 THEN 1 ELSE f[t - 1] * D[t]]
    BY <2>2, RunningProduct
  <2>4. f = [n \in 0 .. LastPower |-> IF n = 0 THEN 1 ELSE f[n - 1] * 2]
    BY <2>1, <2>3
  <2> QED BY <2>4
<1>2. Power(CHOOSE f : Power(f))
  BY <1>1
<1>3. Power(Pow2)
  BY <1>2, Zenon DEF Pow2, LastPower
<1>4. PICK f : f = Pow2
  OBVIOUS
<1>5. f = [n \in 0 .. LastPower |-> IF n = 0 THEN 1 ELSE f[n - 1] * 2]
  BY <1>3, <1>4
<1>6. \A n \in 0 .. LastPower : f[n] = IF n = 0 THEN 1 ELSE f[n - 1] * 2
  BY <1>5
<1>7. DOMAIN f = 0 .. LastPower
  BY <1>5
<1> QED BY <1>0, <1>4, <1>6, <1>7

LEMMA Pow2Type == \A n \in 0 .. LastPower : Pow2[n] \in Nat \ {0}
<1> DEFINE Bad == {n \in 0 .. LastPower : Pow2[n] \notin Nat \ {0}}
<1> SUFFICES ASSUME Bad # {} PROVE FALSE
  OBVIOUS
<1>1. PICK x \in Bad : \A y \in Bad : x <= y
  <2>1. Bad \subseteq Nat
    OBVIOUS
  <2> HIDE DEF Bad
  <2> QED BY <2>1, Least
<1>2. x \in 0 .. LastPower /\ Pow2[x] \notin Nat \ {0} /\ x \in Nat
  BY <1>1
<1>3. x # 0
  BY <1>2, Pow2Steps
<1>4. x - 1 \in 0 .. LastPower /\ x \in 1 .. LastPower /\ ~(x <= x - 1)
  BY <1>2, <1>3, FormatterAssumption DEF LastPower
<1>5. Pow2[x - 1] \in Nat \ {0}
  BY <1>1, <1>4
<1>6. PICK p \in Nat \ {0} : p = Pow2[x - 1]
  BY <1>5
<1>7. Pow2[x] = p * 2
  BY <1>4, <1>6, Pow2Steps
<1> QED BY <1>2, <1>6, <1>7

\* One more bit: q times the bit number n of b, where q is 2^n.
LEMMA OneMoreBit ==
    ASSUME NEW b \in Nat, NEW q \in Nat \ {0}
    PROVE  b % (q * 2) = (b % q) + (IF (b \div q) % 2 = 1 THEN q ELSE 0)
<1>1. PICK x \in Nat, r \in Nat : x = b \div q /\ r = b % q /\ r < q /\ b = x * q + r
  BY QuotientAndRest
<1>2. PICK y \in Nat, z \in Nat : y = x \div 2 /\ z = x % 2 /\ z < 2 /\ x = y * 2 + z
  OBVIOUS
<1>3. PICK w \in Nat : w = q * 2
  OBVIOUS
<1>4. PICK yq \in Nat : yq = y * q
  BY Multiply
<1>5. x * q = y * w + z * q
  BY <1>2, <1>3
<1>6. z = 0 \/ z = 1
  BY <1>2
<1>7. CASE z = 0
  <2>1. x * q = y * w
    BY <1>5, <1>7
  <2>2. b = y * w + r /\ r < w /\ w \in Nat \ {0}
    BY <1>1, <1>3, <2>1
  <2>3. b % w = r
    BY <2>2, FitsOnce
  <2> QED BY <1>1, <1>2, <1>3, <1>7, <2>3
<1>8. CASE z = 1
  <2>1. x * q = y * w + q
    BY <1>5, <1>8
  <2>2. PICK s \in Nat : s = q + r
    OBVIOUS
  <2>3. b = y * w + s /\ s < w /\ w \in Nat \ {0}
    BY <1>1, <1>3, <2>1, <2>2
  <2>4. b % w = s
    BY <2>3, FitsOnce
  <2>5. b % (q * 2) = s
    BY <1>3, <2>4, Zenon
  <2>6. (b \div q) % 2 = 1 /\ b % q = r
    BY <1>1, <1>2, <1>8, Zenon
  <2>7. (b % q) + (IF (b \div q) % 2 = 1 THEN q ELSE 0) = r + q
    BY <2>6, Zenon
  <2>8. s = r + q
    BY <2>2
  <2> QED BY <2>5, <2>7, <2>8, Zenon
<1> QED BY <1>6, <1>7, <1>8

\* The test of a bit that the shift reaches, the one of the sign included:
\* the bits above it are clear.
LEMMA BitTested ==
    ASSUME NEW f \in DOMAIN Fields, Width(Fields[f]) <= IntBits, NEW b \in 0 .. Mask(Fields[f]) - 1,
           NEW n \in Nat, n < Width(Fields[f]), NEW wraps \in BOOLEAN
    PROVE  TestBit(b, n, wraps) <=> (b \div Pow2[n]) % 2 = 1
<1>1. PICK W \in 1 .. WordBits : W = Width(Fields[f])
  BY FieldProperties
<1>2. W <= IntBits /\ IntBits \in Nat \ {0, 1}
  BY <1>1, FormatterAssumption
<1>3. n \in 0 .. LastPower /\ n + 1 \in 1 .. LastPower /\ W \in 0 .. LastPower /\ n < IntBits
  BY <1>1, <1>2, FormatterAssumption DEF LastPower
<1>4. n % IntBits = n
  BY <1>2, <1>3
<1>5. TestBit(b, n, wraps) <=> IF n = IntBits - 1 THEN b >= Pow2[n] ELSE (b \div Pow2[n]) % 2 = 1
  BY <1>3, <1>4 DEF TestBit
<1>6. CASE n = IntBits - 1
  <2>1. n + 1 = W
    BY <1>1, <1>2, <1>6
  <2>2. PICK q \in Nat \ {0} : q = Pow2[n]
    BY <1>3, Pow2Type
  <2>3. Pow2[W] = q * 2
    <3>1. (n + 1) - 1 = n
      OBVIOUS
    <3> QED BY <1>3, <2>1, <2>2, <3>1, Pow2Steps
  <2>4. b \in Nat /\ b < q * 2
    BY <1>1, <2>2, <2>3 DEF Mask
  <2>5. CASE b >= q
    <3>1. b = 1 * q + (b - q) /\ b - q \in Nat /\ b - q < q
      BY <2>4, <2>5
    <3>2. b \div q = 1
      BY <2>4, <3>1, FitsOnce
    <3> QED BY <1>5, <1>6, <2>2, <2>5, <3>2
  <2>6. CASE b < q
    <3>1. b = 0 * q + b
      BY <2>4
    <3>2. b \div q = 0
      BY <2>4, <2>6, <3>1, FitsOnce
    <3> QED BY <1>5, <1>6, <2>2, <2>4, <2>6, <3>2
  <2> QED BY <2>2, <2>4, <2>5, <2>6
<1> QED BY <1>5, <1>6

\* The value of the field of a buffer that holds the bits of b is b.
LEMMA ValueOfBits ==
    ASSUME NEW f \in DOMAIN Fields, Width(Fields[f]) <= IntBits, NEW b \in 0 .. Mask(Fields[f]) - 1,
           NEW d, NEW wraps \in BOOLEAN,
           \A p \in Positions(Fields[f]) : d[p] = TestBit(b, BitOf(Fields[f], p), wraps)
    PROVE  FieldValue(Fields[f], d) = b
<1>1. PICK W \in 1 .. WordBits : W = Width(Fields[f])
  BY FieldProperties
<1> DEFINE Part(n) == IF d[PositionOf(Fields[f], n - 1)] THEN Pow2[n - 1] ELSE 0
           Value(v) == v = [n \in 0 .. W |-> IF n = 0 THEN 0 ELSE v[n - 1] + Part(n)]
<1>2. \E v : Value(v)
  <2> DEFINE D == [t \in 0 .. W |-> Part(t)]
  <2>1. \A t \in 0 .. W : D[t] = Part(t)
    OBVIOUS
  <2> HIDE DEF D
  <2>2. PICK v : v = [t \in 0 .. W |-> IF t = 0 THEN 0 ELSE v[t - 1] + D[t]]
    <3>1. W \in Nat
      BY <1>1
    <3> QED BY <3>1, RunningSum
  <2>3. v = [n \in 0 .. W |-> IF n = 0 THEN 0 ELSE v[n - 1] + Part(n)]
    <3> HIDE DEF Part
    <3> QED BY <2>1, <2>2
  <2> QED BY <2>3
<1>3. PICK value : value = (CHOOSE v : Value(v)) /\ Value(value)
  BY <1>2
<1>4. FieldValue(Fields[f], d) = value[W]
  BY <1>1, <1>3, Zenon DEF FieldValue
<1>5. /\ value[0] = 0
      /\ \A n \in 1 .. W : value[n] = value[n - 1] + Part(n)
  <2> HIDE DEF Part
  <2>1. value = [n \in 0 .. W |-> IF n = 0 THEN 0 ELSE value[n - 1] + Part(n)]
    BY <1>3
  <2>2. \A n \in 0 .. W : value[n] = IF n = 0 THEN 0 ELSE value[n - 1] + Part(n)
    BY <2>1
  <2> QED BY <2>2
<1>6. ASSUME NEW n \in 1 .. W
      PROVE  Part(n) = IF (b \div Pow2[n - 1]) % 2 = 1 THEN Pow2[n - 1] ELSE 0
  <2>1. n - 1 \in Nat /\ n - 1 < Width(Fields[f])
    BY <1>1
  <2>2. PICK p : p = PositionOf(Fields[f], n - 1)
    OBVIOUS
  <2>3. d[p] = TestBit(b, n - 1, wraps)
    BY <2>1, <2>2, PositionsOfBits
  <2>4. TestBit(b, n - 1, wraps) <=> (b \div Pow2[n - 1]) % 2 = 1
    BY <2>1, BitTested
  <2> QED BY <2>2, <2>3, <2>4, Zenon
<1> HIDE DEF Part, Value
<1> DEFINE Bad == {n \in 0 .. W : value[n] # b % Pow2[n]}
<1>7. Bad = {}
  <2> SUFFICES ASSUME Bad # {} PROVE FALSE
    OBVIOUS
  <2>1. PICK x \in Bad : \A y \in Bad : x <= y
    <3>1. Bad \subseteq Nat
      OBVIOUS
    <3> HIDE DEF Bad
    <3> QED BY <3>1, Least
  <2>2. x \in 0 .. W /\ value[x] # b % Pow2[x] /\ x \in Nat
    BY <2>1
  <2>3. x # 0
    <3>1. b % 1 = 0
      OBVIOUS
    <3> QED BY <1>5, <2>2, <3>1, Pow2Steps
  <2>4. x \in 1 .. W /\ x \in 1 .. LastPower /\ x - 1 \in 0 .. W /\ x - 1 \in 0 .. LastPower
    BY <2>2, <2>3, FormatterAssumption DEF LastPower
  <2>5. value[x - 1] = b % Pow2[x - 1]
    <3>1. ~(x <= x - 1)
      BY <2>2
    <3> QED BY <2>1, <2>4, <3>1
  <2>6. PICK q \in Nat \ {0} : q = Pow2[x - 1] /\ Pow2[x] = q * 2
    BY <2>4, Pow2Type, Pow2Steps
  <2>7. value[x] = (b % q) + (IF (b \div q) % 2 = 1 THEN q ELSE 0)
    BY <1>5, <1>6, <2>4, <2>5, <2>6
  <2>8. b \in Nat
    OBVIOUS
  <2> QED BY <2>2, <2>6, <2>7, <2>8, OneMoreBit
<1>8. value[W] = b % Pow2[W]
  BY <1>7
<1>9. b < Pow2[W] /\ b \in Nat /\ Pow2[W] \in Nat \ {0}
  <2>1. W \in 0 .. LastPower
    BY FormatterAssumption DEF LastPower
  <2> QED BY <1>1, <2>1, Pow2Type DEF Mask
<1>10. b % Pow2[W] = b
  <2>1. PICK m \in Nat \ {0} : m = Pow2[W]
    BY <1>9
  <2>2. b = 0 * m + b
    BY <1>9
  <2> QED BY <1>9, <2>1, <2>2, FitsOnce
<1> QED BY <1>4, <1>8, <1>10
-----------------------------------------------------------------------------
(* Floats.  A quotient that is an integer and a float is exact.            *)

\* A common factor does not change what is nearest.
LEMMA NearestCancels ==
    ASSUME NEW x \in Nat, NEW c \in Nat \ {0}, NEW d \in Nat \ {0}
    PROVE  Nearest(x * c, c * d) = Nearest(x, d)
<1>1. PICK q \in Nat, r \in Nat : q = x \div d /\ r = x % d /\ r < d /\ x = q * d + r
  BY QuotientAndRest
<1>2. PICK cd \in Nat \ {0} : cd = c * d
  <2>1. c * d \in Nat \ {0}
    OBVIOUS
  <2> QED BY <2>1
<1>3. PICK rc \in Nat : rc = r * c
  BY Multiply
<1>4. PICK xc \in Nat : xc = x * c
  BY Multiply
<1>5. xc = q * cd + rc
  BY <1>1, <1>2, <1>3, <1>4
<1>6. /\ r < d => rc < cd
      /\ 2 * rc > cd <=> 2 * r > d
      /\ 2 * rc = cd <=> 2 * r = d
  <2>1. /\ r < d <=> r * c < d * c
        /\ 2 * r > d <=> (2 * r) * c > d * c
        /\ 2 * r = d <=> (2 * r) * c = d * c
    OBVIOUS
  <2>2. d * c = cd /\ (2 * r) * c = 2 * rc
    BY <1>2, <1>3
  <2> QED BY <1>3, <2>1, <2>2
<1>7. xc \div cd = q /\ xc % cd = rc
  <2>1. rc < cd
    BY <1>1, <1>6
  <2> QED BY <1>5, <2>1, FitsOnce
<1> QED BY <1>1, <1>2, <1>4, <1>6, <1>7 DEF Nearest

\* A multiple is nearest to its quotient.
LEMMA NearestExact ==
    ASSUME NEW m \in Nat, NEW c \in Nat \ {0}
    PROVE  Nearest(m * c, c) = m
<1>1. PICK x \in Nat : x = m * c
  BY Multiply
<1>2. x = m * c + 0 /\ 0 < c
  BY <1>1
<1>3. x \div c = m /\ x % c = 0
  BY <1>2, FitsOnce
<1> QED BY <1>1, <1>3 DEF Nearest

LEMMA PowersOfTwo ==
    ASSUME NEW q \in Nat
    PROVE  Cardinality({n \in DOMAIN Pow2 : Pow2[n] <= q}) \in 0 .. LastPower + 1
<1>1. LastPower \in Nat
  BY FormatterAssumption DEF LastPower
<1>2. IsFiniteSet(0 .. LastPower) /\ Cardinality(0 .. LastPower) = LastPower + 1
  BY <1>1, FS_Interval
<1>3. DOMAIN Pow2 = 0 .. LastPower
  BY Pow2Steps
<1> DEFINE S == {n \in DOMAIN Pow2 : Pow2[n] <= q}
<1>4. S \in SUBSET (0 .. LastPower)
  BY <1>3
<1> HIDE DEF S
<1>5. IsFiniteSet(S) /\ Cardinality(S) <= Cardinality(0 .. LastPower)
  BY <1>2, <1>4, FS_Subset
<1>6. Cardinality(S) \in Nat
  BY <1>5, FS_CardinalityType
<1>7. Cardinality(S) \in 0 .. LastPower + 1
  BY <1>1, <1>2, <1>5, <1>6
<1> QED BY <1>7 DEF S

LEMMA ExactQuotient ==
    ASSUME NEW u \in Int, NEW b \in Int \ {0}, Float[u] = u
    PROVE  FloatQuotient(u * b, b) = u
<1>1. PICK x \in Nat : x = Abs(u)
  BY DEF Abs
<1>2. PICK c \in Nat \ {0} : c = Abs(b)
  BY DEF Abs
<1>3. PICK a \in Int : a = u * b
  OBVIOUS
<1>4. PICK xc \in Nat : xc = x * c
  BY Multiply
<1>5. Abs(a) = xc /\ (u > 0 => ((a < 0) <=> (b < 0))) /\ (u < 0 => ((a < 0) <=> ~(b < 0)))
      /\ (u = 0 => a = 0)
  BY <1>1, <1>2, <1>3, <1>4 DEF Abs
<1>6. xc \div c = x /\ x \div 1 = x
  <2>1. xc = x * c + 0 /\ 0 < c
    BY <1>4
  <2> QED BY <2>1, FitsOnce
<1>7. PICK bits \in 0 .. LastPower + 1 : bits = Cardinality({n \in DOMAIN Pow2 : Pow2[n] <= x})
  BY PowersOfTwo
<1>8. LastPower \in Nat /\ FloatBits \in Nat \ {0, 1} /\ LastPower >= FloatBits
  BY FormatterAssumption DEF LastPower
<1>9. Abs(1) = 1
  BY DEF Abs
<1> DEFINE Q(m, d) == RoundedQuotient(m, d)
<1>10. FloatQuotient(a, b) = IF (a < 0) <=> (b < 0) THEN Q(xc, c) ELSE -Q(xc, c)
  BY <1>2, <1>5, Zenon DEF FloatQuotient
<1>11. FloatQuotient(u, 1) = IF (u < 0) <=> (1 < 0) THEN Q(x, 1) ELSE -Q(x, 1)
  <2>1. 1 \in Int \ {0}
    OBVIOUS
  <2> QED BY <1>1, <1>9, <2>1, Zenon DEF FloatQuotient
<1>12. Q(xc, c) = x
  <2>1. CASE bits > FloatBits
    <3>1. PICK unit \in Nat \ {0} : unit = Pow2[bits - FloatBits]
      BY <1>8, <2>1, Pow2Type
    <3>2. Nearest(xc, c * unit) = Nearest(x, unit)
      BY <1>4, <3>1, NearestCancels
    <3>3. 1 * unit = unit
      BY <3>1
    <3>4. Q(x, 1) = Nearest(x, unit) * unit
      BY <1>6, <1>7, <2>1, <3>1, <3>3, Zenon DEF RoundedQuotient
    <3>5. Q(xc, c) = Nearest(x, unit) * unit
      BY <1>6, <1>7, <2>1, <3>1, <3>2, Zenon DEF RoundedQuotient
    <3>6. PICK n \in Nat : n = Nearest(x, unit) * unit
      <4>1. x \div unit \in Nat
        BY <3>1, QuotientAndRest
      <4>2. Nearest(x, unit) \in Nat
        BY <4>1 DEF Nearest
      <4> QED BY <3>1, <4>2, Multiply
    <3>7. u = IF (u < 0) <=> (1 < 0) THEN n ELSE -n
      BY <1>11, <3>4, <3>6, Zenon DEF Float
    <3> QED BY <1>1, <3>5, <3>6, <3>7 DEF Abs
  <2>2. CASE ~(bits > FloatBits)
    <3>1. PICK unit \in Nat \ {0} : unit = Pow2[FloatBits - bits]
      <4>1. FloatBits - bits \in 0 .. LastPower
        BY <1>8, <2>2
      <4> QED BY <4>1, Pow2Type
    <3>2. PICK xu \in Nat : xu = x * unit
      BY <3>1, Multiply
    <3>3. xc * unit = xu * c
      BY <1>4, <3>1, <3>2
    <3>4. Nearest(xc * unit, c) = xu
      BY <3>2, <3>3, NearestExact
    <3>5. xu \div unit = x
      <4>1. xu = x * unit + 0 /\ 0 < unit
        BY <3>1, <3>2
      <4> QED BY <3>1, <4>1, FitsOnce
    <3> QED BY <1>6, <1>7, <2>2, <3>1, <3>4, <3>5, Zenon DEF RoundedQuotient
  <2> QED BY <2>1, <2>2
<1> HIDE DEF Q
<1>13. FloatQuotient(a, b) = u
  <2>1. FloatQuotient(a, b) = IF (a < 0) <=> (b < 0) THEN x ELSE -x
    BY <1>10, <1>12
  <2> QED BY <1>1, <1>5, <2>1 DEF Abs
<1> QED BY <1>3, <1>13
-----------------------------------------------------------------------------
(* Reading back what was given.                                            *)

LEMMA RestOfSmall ==
    ASSUME NEW m \in Nat \ {0}, NEW x \in Int
    PROVE  /\ x \in 0 .. m - 1 => x % m = x
           /\ x \in -m .. -1 => x % m = x + m
           /\ x \in m .. m + m - 1 => x % m = x - m
<1>1. ASSUME x \in 0 .. m - 1 PROVE x % m = x
  <2>1. x \in Nat /\ x < m /\ x = 0 * m + x
    BY <1>1
  <2> QED BY <2>1, FitsOnce
<1>2. ASSUME x \in -m .. -1 PROVE x % m = x + m
  <2>1. PICK r \in Nat : r = x + m
    BY <1>2
  <2>2. r < m /\ x = (0 - 1) * m + r
    BY <1>2, <2>1
  <2>3. x % m = r
    BY <2>2
  <2> QED BY <2>1, <2>3
<1>3. ASSUME x \in m .. m + m - 1 PROVE x % m = x - m
  <2>1. PICK r \in Nat : r = x - m /\ r < m
    BY <1>3
  <2>2. x \in Nat /\ x = 1 * m + r
    BY <1>3, <2>1
  <2> QED BY <2>1, <2>2, FitsOnce
<1> QED BY <1>1, <1>2, <1>3

LEMMA Pow2Monotone ==
    ASSUME NEW n \in 0 .. LastPower, NEW m \in 0 .. LastPower, n <= m
    PROVE  Pow2[n] <= Pow2[m]
<1> DEFINE Bad == {k \in n .. LastPower : ~(Pow2[n] <= Pow2[k])}
<1>0. LastPower \in Nat
  BY FormatterAssumption DEF LastPower
<1>1. ASSUME Bad # {} PROVE FALSE
  <2>1. Bad \subseteq Nat
    BY <1>0
  <2>2. PICK x \in Bad : \A y \in Bad : x <= y
    <3> HIDE DEF Bad
    <3> QED BY <1>1, <2>1, Least
  <2>3. x \in n .. LastPower /\ x \in Nat /\ ~(Pow2[n] <= Pow2[x])
    BY <2>1, <2>2
  <2>4. x # n
    BY <2>3, Pow2Type
  <2>5. x - 1 \in n .. LastPower /\ x \in 1 .. LastPower /\ x - 1 \in 0 .. LastPower
        /\ ~(x <= x - 1)
    BY <1>0, <2>3, <2>4
  <2>6. Pow2[n] <= Pow2[x - 1]
    BY <2>2, <2>5
  <2>7. PICK p \in Nat, q \in Nat : p = Pow2[n] /\ q = Pow2[x - 1]
    BY <2>5, Pow2Type
  <2>8. Pow2[x] = q * 2
    BY <2>5, <2>7, Pow2Steps
  <2> QED BY <2>3, <2>6, <2>7, <2>8
<1>2. m \in n .. LastPower
  BY <1>0
<1> QED BY <1>1, <1>2

\* The sign bit of a field is worth half of its numbers, and an int64_t at
\* least as much.
LEMMA HalfOfField ==
    ASSUME NEW f \in DOMAIN Fields
    PROVE  \E s \in Nat \ {0}, t \in Nat \ {0} :
               /\ s = Pow2[Width(Fields[f]) - 1] /\ Mask(Fields[f]) = s * 2
               /\ t = Pow2[WordBits - 1] /\ Pow2[WordBits] = t * 2
               /\ s = t \/ s * 2 <= t
<1>1. PICK W \in 1 .. WordBits : W = Width(Fields[f])
  BY FieldProperties
<1>2. /\ W - 1 \in 0 .. LastPower /\ W \in 1 .. LastPower /\ W \in 0 .. LastPower
      /\ WordBits - 1 \in 0 .. LastPower /\ WordBits \in 1 .. LastPower
      /\ WordBits \in Nat
  BY FormatterAssumption DEF LastPower
<1>3. PICK s \in Nat \ {0} : s = Pow2[W - 1]
  BY <1>2, Pow2Type
<1>4. PICK t \in Nat \ {0} : t = Pow2[WordBits - 1]
  BY <1>2, Pow2Type
<1>5. Pow2[W] = s * 2 /\ Pow2[WordBits] = t * 2
  BY <1>2, <1>3, <1>4, Pow2Steps
<1>6. s = t \/ s * 2 <= t
  <2>1. CASE W = WordBits
    BY <1>3, <1>4, <2>1
  <2>2. CASE W # WordBits
    <3>1. W <= WordBits - 1
      BY <1>2, <2>2
    <3> QED BY <1>2, <1>4, <1>5, <3>1, Pow2Monotone
  <2> QED BY <2>1, <2>2
<1> QED BY <1>1, <1>3, <1>4, <1>5, <1>6 DEF Mask

\* The sign of a field no wider than an int: the bit is found where it is,
\* and has its worth, but for the sign of an int.
LEMMA SignOfField ==
    ASSUME NEW f \in DOMAIN Fields, Width(Fields[f]) <= IntBits, NEW wraps \in BOOLEAN,
           NEW s \in Nat \ {0}, s = Pow2[Width(Fields[f]) - 1], Mask(Fields[f]) = s * 2
    PROVE  /\ SignBit(Fields[f], wraps) \in {s, -s}
           /\ \A x \in Int : Magnitude(x, SignBit(Fields[f], wraps)) = x % s
           /\ \A b \in 0 .. s * 2 - 1 : TestBit(b, Width(Fields[f]) - 1, wraps) <=> b >= s
<1>1. PICK W \in 1 .. WordBits : W = Width(Fields[f])
  BY FieldProperties
<1>2. W - 1 \in Nat /\ W - 1 < IntBits /\ IntBits \in Nat \ {0, 1}
  BY <1>1, FormatterAssumption
<1>3. (W - 1) % IntBits = W - 1
  <2>1. W - 1 \in 0 .. IntBits - 1 /\ IntBits \in Nat \ {0}
    BY <1>2
  <2> QED BY <2>1, RestOfSmall
<1>4. SignBit(Fields[f], wraps) \in {s, -s}
  BY <1>1, <1>2, <1>3 DEF SignBit, IntShift
<1>5. ASSUME NEW x \in Int PROVE Magnitude(x, SignBit(Fields[f], wraps)) = x % s
  <2>1. PICK z \in {s, -s} : z = SignBit(Fields[f], wraps)
    BY <1>4
  <2>2. z # 0 /\ Abs(z) = s
    BY DEF Abs
  <2> QED BY <2>1, <2>2 DEF Magnitude
<1>6. ASSUME NEW b \in 0 .. s * 2 - 1 PROVE TestBit(b, W - 1, wraps) <=> b >= s
  <2>1. b \in 0 .. Mask(Fields[f]) - 1
    OBVIOUS
  <2>2. W - 1 < Width(Fields[f])
    BY <1>1
  <2>3. TestBit(b, W - 1, wraps) <=> (b \div Pow2[W - 1]) % 2 = 1
    BY <1>2, <2>1, <2>2, BitTested
  <2>4. CASE b >= s
    <3>1. b = 1 * s + (b - s) /\ b - s \in Nat /\ b - s < s /\ b \in Nat
      BY <2>4
    <3>2. b \div s = 1
      BY <3>1, FitsOnce
    <3> QED BY <1>1, <2>3, <2>4, <3>2
  <2>5. CASE b < s
    <3>1. b = 0 * s + b /\ b \in Nat
      OBVIOUS
    <3>2. b \div s = 0
      BY <2>5, <3>1, FitsOnce
    <3> QED BY <1>1, <2>3, <2>5, <3>2
  <2> QED BY <2>4, <2>5
<1> QED BY <1>1, <1>4, <1>5, <1>6

\* The bits of a value that the field can hold mean the value.
LEMMA HeldBits ==
    ASSUME NEW f \in DOMAIN Fields, NEW v \in Int, Holdable(Fields[f], v),
           NEW wraps \in BOOLEAN, NEW b \in ToBits(Fields[f], v, wraps), b < Mask(Fields[f]),
           NEW other \in BOOLEAN
    PROVE  b \in 0 .. Mask(Fields[f]) - 1 /\ FromBits(Fields[f], b, other) = {v}
<1> DEFINE fld == Fields[f]
<1>1. /\ fld.format \in Formats
      /\ fld.scaling \in Int \ {0} /\ fld.offset \in Int
      /\ Width(fld) <= IntBits /\ v \in NumberType(fld)
  BY FieldProperties DEF Field, Holdable
<1>2. PICK s \in Nat \ {0}, t \in Nat \ {0} :
          /\ s = Pow2[Width(fld) - 1] /\ Mask(fld) = s * 2
          /\ t = Pow2[WordBits - 1] /\ Pow2[WordBits] = t * 2
          /\ s = t \/ s * 2 <= t
  BY HalfOfField
<1>3. PICK u \in Numbers(fld) :
          /\ v = u * fld.scaling + fld.offset
          /\ \A x \in {u, v, v - fld.offset} : Float[x] = x
          /\ fld.format = "sign_magnitude" =>
                 IF v < 0 THEN u = 0 \/ 4 * u = -Mask(fld) ELSE u >= 0
  BY Zenon DEF Holdable
<1>4. /\ fld.format = "unsigned" => u \in 0 .. s * 2 - 1
      /\ fld.format = "twos_complement" => u \in -s .. s - 1
      /\ fld.format = "sign_magnitude" => u \in 1 - s .. s - 1
      /\ u \in Int
  <2>1. (s * 2) \div 2 = s
    OBVIOUS
  <2> QED BY <1>1, <1>2, <1>3, <2>1 DEF Numbers, Formats
<1>5. u \in NumberType(fld) /\ (fld.format # "unsigned" => u \in -t .. t - 1)
  BY <1>1, <1>2, <1>4 DEF NumberType, Formats
<1>6. Unscaled(fld, v) = {u}
  <2>1. PICK w \in Int : w = v - fld.offset /\ w = u * fld.scaling
    BY <1>1, <1>3, <1>4
  <2>2. Float[v] = v /\ Float[w] = w /\ Float[u] = u
    BY <1>3, <2>1
  <2>3. FloatQuotient(w, fld.scaling) = u
    BY <1>1, <1>4, <2>1, <2>2, ExactQuotient
  <2>4. FloatQuotient(Float[Float[v] - fld.offset], fld.scaling) = u
    BY <2>1, <2>2, <2>3, Zenon
  <2> QED BY <1>5, <2>4, Zenon DEF Unscaled, Converted
<1>7. b = CASE fld.format = "unsigned"        -> u
            [] fld.format = "twos_complement" -> u % Mask(fld)
            [] fld.format = "sign_magnitude"  ->
                   (Magnitude(u, SignBit(fld, wraps))
                    + (IF v < 0 THEN SignBit(fld, wraps) ELSE 0)) % Pow2[WordBits]
  BY <1>6 DEF ToBits
<1>8. PICK sign \in {s, -s} : sign = SignBit(fld, wraps)
  BY <1>1, <1>2, SignOfField
<1>9. /\ fld.format = "unsigned" => b = u
      /\ fld.format = "twos_complement" => b = IF u < 0 THEN u + s * 2 ELSE u
      /\ fld.format = "sign_magnitude" => b = IF v < 0 THEN s - u ELSE u
      /\ fld.format = "sign_magnitude" /\ v < 0 => -u \in 0 .. s - 1
  <2>1. CASE fld.format = "unsigned"
    BY <1>7, <2>1
  <2>2. CASE fld.format = "twos_complement"
    <3>1. PICK m \in Nat \ {0} : m = s * 2
      OBVIOUS
    <3>2. b = u % m
      BY <1>2, <1>7, <2>2, <3>1
    <3>3. (u \in 0 .. m - 1 \/ u \in -m .. -1) /\ u \in Int
      BY <1>4, <2>2, <3>1
    <3>4. (u \in 0 .. m - 1 => b = u) /\ (u \in -m .. -1 => b = u + m)
      BY <3>2, <3>3, RestOfSmall
    <3>5. CASE u \in 0 .. m - 1
      BY <2>2, <3>1, <3>4, <3>5
    <3>6. CASE u \in -m .. -1
      BY <2>2, <3>1, <3>4, <3>6
    <3> QED BY <3>3, <3>5, <3>6
  <2>3. CASE fld.format = "sign_magnitude"
    <3>1. PICK P \in Nat \ {0} : P = t * 2 /\ P = Pow2[WordBits]
      BY <1>2
    <3>2. b = ((u % s) + (IF v < 0 THEN sign ELSE 0)) % P
      <4>1. Magnitude(u, SignBit(fld, wraps)) = u % s
        BY <1>1, <1>2, <1>4, SignOfField
      <4> QED BY <1>7, <1>8, <2>3, <3>1, <4>1
    <3>3. CASE v < 0
      <4>6. PICK x \in Int : x = u /\ (x = 0 \/ 4 * x = -(s * 2)) /\ x \in 1 - s .. s - 1
        BY <1>2, <1>3, <1>4, <2>3, <3>3
      <4>1. /\ u \in Int /\ 0 <= -u /\ -u <= s - 1 /\ (u = 0 \/ u + u = -s)
            /\ -u \in 0 .. s - 1
        BY <4>6
      <4>2. u % s = -u
        <5>1. CASE u = 0
          <6>1. 0 \in 0 .. s - 1
            OBVIOUS
          <6> QED BY <5>1, <6>1, RestOfSmall
        <5>2. CASE u # 0
          <6>1. u \in -s .. -1 /\ u \in Int /\ u + s = -u
            BY <4>1, <5>2
          <6>2. u % s = u + s
            BY <6>1, RestOfSmall
          <6> QED BY <6>1, <6>2
        <5> QED BY <5>1, <5>2
      <4>3. PICK z \in Int : z = -u + sign /\ b = z % P
        BY <3>2, <3>3, <4>1, <4>2
      <4>4. CASE sign = s
        <5>1. z \in 0 .. P - 1 /\ z = s - u
          BY <1>2, <3>1, <4>1, <4>3, <4>4
        <5>2. b = z
          BY <4>3, <5>1, RestOfSmall
        <5> QED BY <2>3, <3>3, <4>1, <5>1, <5>2
      <4>5. CASE sign = -s
        <5>1. z \in -P .. -1 /\ z = -u - s
          BY <1>2, <3>1, <4>1, <4>3, <4>5
        <5>2. b = z + P
          BY <4>3, <5>1, RestOfSmall
        <5>3. P = s * 2
          <6>1. b < s * 2
            BY <1>2
          <6> QED BY <1>2, <3>1, <4>1, <5>1, <5>2, <6>1
        <5> QED BY <2>3, <3>3, <4>1, <5>1, <5>2, <5>3
      <4> QED BY <1>8, <4>4, <4>5
    <3>4. CASE ~(v < 0)
      <4>1. u \in 0 .. s - 1 /\ u \in 0 .. P - 1
        BY <1>2, <1>3, <1>4, <2>3, <3>1, <3>4
      <4>2. u % s = u /\ u % P = u
        BY <1>4, <3>1, <4>1, RestOfSmall
      <4>3. b = (u + 0) % P
        BY <3>2, <3>4, <4>2
      <4>4. u + 0 = u
        BY <1>4
      <4> QED BY <2>3, <3>4, <4>2, <4>3, <4>4
    <3> QED BY <3>3, <3>4
  <2> QED BY <1>1, <2>1, <2>2, <2>3 DEF Formats
<1>10. b \in 0 .. s * 2 - 1
  BY <1>1, <1>4, <1>9, <1>3 DEF Formats
<1> DEFINE negative == TestBit(b, Width(fld) - 1, other)
           m == CASE fld.format = "unsigned"        -> b
                  [] fld.format = "twos_complement" -> IF negative THEN (-b) % Mask(fld) ELSE b
                  [] fld.format = "sign_magnitude"  -> Magnitude(b, SignBit(fld, other))
           number == IF fld.format = "unsigned" THEN m
                     ELSE Wrapped(IF negative THEN -m ELSE m)
<1>11. negative <=> b >= s
  BY <1>1, <1>2, <1>10, SignOfField
<1>12. fld.format # "unsigned" => Wrapped(u) = u
  <2> SUFFICES ASSUME fld.format # "unsigned" PROVE Wrapped(u) = u
    OBVIOUS
  <2>1. PICK P \in Nat \ {0} : P = t * 2 /\ P = Pow2[WordBits]
    BY <1>2
  <2>2. u + t \in 0 .. P - 1 /\ u + t \in Int
    BY <1>5, <2>1
  <2>3. (u + t) % P = u + t
    BY <2>2, RestOfSmall
  <2>4. Wrapped(u) = ((u + t) % P) - t
    BY <1>2, <2>1 DEF Wrapped
  <2> QED BY <1>4, <2>3, <2>4
<1>13. number = u
  <2>1. CASE fld.format = "unsigned"
    BY <1>9, <2>1
  <2>2. CASE fld.format = "twos_complement"
    <3>1. CASE u < 0
      <4>1. b = u + s * 2 /\ b >= s /\ u \in -s .. -1
        BY <1>4, <1>9, <2>2, <3>1
      <4>2. PICK k \in Nat \ {0} : k = s * 2
        OBVIOUS
      <4>3. -b \in -k .. -1 /\ -b \in Int /\ -b + k = -u
        BY <4>1, <4>2
      <4>4. (-b) % k = -u
        BY <4>3, RestOfSmall
      <4>5. m = -u
        BY <1>2, <1>11, <2>2, <4>1, <4>2, <4>4
      <4>6. -(-u) = u
        BY <1>4
      <4> QED BY <1>11, <1>12, <2>2, <4>1, <4>5, <4>6
    <3>2. CASE ~(u < 0)
      <4>1. b = u /\ ~(b >= s)
        BY <1>4, <1>9, <2>2, <3>2
      <4> QED BY <1>11, <1>12, <2>2, <4>1
    <3> QED BY <3>1, <3>2
  <2>3. CASE fld.format = "sign_magnitude"
    <3>1. Magnitude(b, SignBit(fld, other)) = b % s
      BY <1>1, <1>2, <1>10, SignOfField
    <3>2. m = b % s
      BY <2>3, <3>1
    <3>3. CASE v < 0
      <4>1. b = s - u /\ b >= s /\ -u \in 0 .. s - 1
        BY <1>4, <1>9, <2>3, <3>3
      <4>6. 0 <= -u /\ -u < s /\ u \in Int
        BY <1>4, <4>1
      <4>2. PICK r \in Nat : r = -u /\ b = s + r /\ b \in Int /\ b \in s .. s + s - 1
        BY <4>1, <4>6
      <4>3. b % s = r
        <5>1. b % s = b - s
          BY <4>2, RestOfSmall
        <5> QED BY <4>2, <5>1
      <4>4. -r = u
        BY <1>4, <4>2
      <4>5. m = r
        BY <3>2, <4>3
      <4> QED BY <1>11, <1>12, <2>3, <4>1, <4>4, <4>5
    <3>4. CASE ~(v < 0)
      <4>1. b = u /\ u \in 0 .. s - 1 /\ ~(b >= s)
        BY <1>2, <1>3, <1>4, <1>9, <2>3, <3>4
      <4>2. b % s = u
        BY <1>4, <4>1, RestOfSmall
      <4> QED BY <1>11, <1>12, <2>3, <3>2, <4>1, <4>2
    <3> QED BY <3>3, <3>4
  <2> QED BY <1>1, <2>1, <2>2, <2>3 DEF Formats
<1>14. FromBits(fld, b, other)
           = Converted(fld, Float[Float[Float[number] * fld.scaling] + fld.offset])
  BY Zenon DEF FromBits
<1> HIDE DEF number
<1>15. Float[Float[Float[u] * fld.scaling] + fld.offset] = v
  <2>1. PICK w \in Int : w = v - fld.offset /\ w = u * fld.scaling /\ v = w + fld.offset
    BY <1>1, <1>3, <1>4
  <2>2. Float[v] = v /\ Float[w] = w /\ Float[u] = u
    BY <1>3, <2>1
  <2> QED BY <2>1, <2>2, Zenon
<1>16. FromBits(fld, b, other) = {v}
  BY <1>1, <1>13, <1>14, <1>15, Zenon DEF Converted
<1> QED BY <1>2, <1>10, <1>16

\* Whatever fields are packed together, whether they share bits or not, and in
\* whatever order the parameters come: a field no wider than an int shows the
\* value it was last given, if it is one that its format and a float can hold
\* and no field that shares bits with it was given one since
\* (get_field_value() and field_data_to_str() undo str_to_spt() and
\* apply_field_bits()).
THEOREM PackedFieldsReadBack == Spec => []ReadsBack
<1>1. PackInv => ReadsBack
  <2> SUFFICES ASSUME PackInv, NEW f \in DOMAIN given, Holdable(Fields[f], given[f])
               PROVE  Shown(f) = {given[f]}
    BY DEF ReadsBack
  <2>1. f \in DOMAIN Fields
    BY DEF PackInv
  <2>2. PICK v \in Int : v = given[f]
    BY DEF PackInv
  <2>3. PICK d : d = data
    OBVIOUS
  <2>4. Holds(d, f, v) /\ Holdable(Fields[f], v) /\ Width(Fields[f]) <= IntBits
    BY <2>2, <2>3 DEF PackInv, Holdable
  <2>5. PICK wraps \in BOOLEAN : \E b \in ToBits(Fields[f], v, wraps) :
            /\ b < Mask(Fields[f])
            /\ \A p \in Positions(Fields[f]) : d[p] = TestBit(b, BitOf(Fields[f], p), wraps)
    BY <2>4, Zenon DEF Holds
  <2>6. PICK b \in ToBits(Fields[f], v, wraps) :
            /\ b < Mask(Fields[f])
            /\ \A p \in Positions(Fields[f]) : d[p] = TestBit(b, BitOf(Fields[f], p), wraps)
    BY <2>5
  <2>7. /\ b \in 0 .. Mask(Fields[f]) - 1
        /\ \A other \in BOOLEAN : FromBits(Fields[f], b, other) = {v}
    BY <2>1, <2>4, <2>6, HeldBits
  <2>8. FieldValue(Fields[f], d) = b
    BY <2>1, <2>4, <2>6, <2>7, ValueOfBits
  <2>9. Shown(f) = UNION {FromBits(Fields[f], b, other) : other \in BOOLEAN}
    BY <2>3, <2>8, Zenon DEF Shown
  <2>10. UNION {FromBits(Fields[f], b, other) : other \in BOOLEAN} = {v}
    BY <2>7
  <2> QED BY <2>2, <2>9, <2>10
<1> QED BY <1>1, Packing, PTL DEF Spec
=============================================================================
