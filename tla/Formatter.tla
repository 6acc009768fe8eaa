----------------------------- MODULE Formatter -----------------------------
(***************************************************************************)
(* src/src/formatter.c: how the fields of a message are packed into its    *)
(* data bits to be sent (device_generate() of src/src/device.c: defaults   *)
(* first, then the parameters of the user) and read back from them when a  *)
(* message was received.                                                   *)
(*                                                                         *)
(* A field value is an integer, and so are scaling and offset, which are   *)
(* exact as a float; what is computed with them is a float of FloatBits    *)
(* significant bits.  Decimal and hexadecimal text, enumeration names and  *)
(* the float format are left out.  The buffer data[] is a function on bit  *)
(* positions, bit i of it being bit i % 8 of byte i / 8.                   *)
(***************************************************************************)
EXTENDS Integers, Sequences, FiniteSets

CONSTANTS
    DataBits,   \* num_bits of the device
    Fields,     \* formatter->fields
    ParamLists, \* the --tx-param lists that may be given, [field, value] each
    IntBits,    \* width of int, the type of the constant 1 in 1 << n
    WordBits,   \* width of uint64_t and int64_t
    FloatBits   \* bits of the significand of a float

Formats == {"unsigned", "twos_complement", "sign_magnitude"}

Field == [start_bit : Nat, end_bit : Nat, big : BOOLEAN, format : Formats,
          scaling : Int \ {0}, offset : Int, default : Int]

Positions(fld) == fld.start_bit .. fld.end_bit
Width(fld) == fld.end_bit - fld.start_bit + 1

\* formatter_add_field() sees to the order of the bits and to the width;
\* that a field lies inside of the message is up to its description.
ASSUME FormatterAssumption ==
    /\ DataBits \in Nat \ {0}
    /\ {IntBits, WordBits, FloatBits} \subseteq Nat \ {0, 1}
    /\ Fields \in Seq(Field)
    /\ \A f \in DOMAIN Fields :
           /\ Fields[f].start_bit <= Fields[f].end_bit /\ Fields[f].end_bit < DataBits
           /\ Width(Fields[f]) <= WordBits
    /\ ParamLists \subseteq Seq([field : Nat, value : Int])

VARIABLES
    pc,     \* "defaults", "params", "done" or "failed"
    next,   \* the next field or parameter
    params, \* the parameters of this transmission
    data,   \* d->data
    given   \* history: the value of each field whose bits are its own, because
            \* no field that shares some of them was given a value after it

vars == <<pc, next, params, data, given>>

-----------------------------------------------------------------------------
\* 1 << n
Pow2[n \in 0 .. WordBits + FloatBits] == IF n = 0 THEN 1 ELSE Pow2[n - 1] * 2

Abs(a) == IF a < 0 THEN -a ELSE a

\* a / b, for natural numbers, to the nearest integer, ties to the even one.
Nearest(a, b) ==
    LET q == a \div b
        r == a % b
    IN  IF 2 * r > b \/ (2 * r = b /\ q % 2 = 1) THEN q + 1 ELSE q

\* The integer part of a / b, for natural numbers, once it is rounded to
\* FloatBits significant bits: as many as the integer part has, or with some
\* fraction ones.
RoundedQuotient(a, b) ==
    LET bits == Cardinality({n \in DOMAIN Pow2 : Pow2[n] <= a \div b})
    IN  IF bits > FloatBits
        THEN Nearest(a, b * Pow2[bits - FloatBits]) * Pow2[bits - FloatBits]
        ELSE Nearest(a * Pow2[FloatBits - bits], b) \div Pow2[FloatBits - bits]

\* (int64_t) (a / b), where the division is one of floats.
FloatQuotient(a, b) ==
    LET q == RoundedQuotient(Abs(a), Abs(b))
    IN  IF (a < 0) <=> (b < 0) THEN q ELSE -q

\* An integer as a float.
Float[x \in Int] == FloatQuotient(x, 1)

\* The type that a value is parsed into and that floats are converted to.
\* A float outside of it becomes any value of it: the result is undefined.
NumberType(fld) ==
    IF fld.format = "unsigned" THEN 0 .. Pow2[WordBits] - 1
    ELSE -Pow2[WordBits - 1] .. Pow2[WordBits - 1] - 1

Converted(fld, x) == IF x \in NumberType(fld) THEN {x} ELSE NumberType(fld)

\* An int64_t of the bits of an integer.
Wrapped(x) == ((x + Pow2[WordBits - 1]) % Pow2[WordBits]) - Pow2[WordBits - 1]

-----------------------------------------------------------------------------
\* One more than the mask of the code.
Mask(fld) == Pow2[Width(fld)]

\* 1 << n, where 1 is an int and the result is sign-extended.  A shift by
\* IntBits or more is undefined: the machine may reduce the count modulo
\* IntBits (wraps) or shift the 1 out.
IntShift(n, wraps) ==
    LET m == n % IntBits
    IN  IF n >= IntBits /\ ~wraps THEN 0
        ELSE IF m = IntBits - 1 THEN -Pow2[m] ELSE Pow2[m]

\* b & IntShift(n, wraps) # 0
TestBit(b, n, wraps) ==
    LET m == n % IntBits
    IN  /\ n < IntBits \/ wraps
        /\ IF m = IntBits - 1 THEN b >= Pow2[m] ELSE (b \div Pow2[m]) % 2 = 1

\* The sign bit of a field, and x & (sign - 1).
SignBit(fld, wraps) == IntShift(Width(fld) - 1, wraps)
Magnitude(x, sign) == IF sign = 0 THEN x ELSE x % Abs(sign)

\* The value without offset and scaling, in the type it is kept in.
Unscaled(fld, v) ==
    Converted(fld, FloatQuotient(Float[Float[v] - fld.offset], fld.scaling))

\* str_to_spt(): what the bits of a value may be, before they are checked to
\* fit.  The magnitude of a negative value is taken from its two's complement.
ToBits(fld, v, wraps) ==
    LET sign == SignBit(fld, wraps)
    IN  {CASE fld.format = "unsigned"        -> u
           [] fld.format = "twos_complement" -> u % Mask(fld)
           [] fld.format = "sign_magnitude"  ->
                  (Magnitude(u, sign) + (IF v < 0 THEN sign ELSE 0)) % Pow2[WordBits]
         : u \in Unscaled(fld, v)}

\* field_data_to_str(): what may be shown of the bits of a field.
FromBits(fld, b, wraps) ==
    LET negative == TestBit(b, Width(fld) - 1, wraps)
        m == CASE fld.format = "unsigned"        -> b
               [] fld.format = "twos_complement" -> IF negative THEN (-b) % Mask(fld) ELSE b
               [] fld.format = "sign_magnitude"  -> Magnitude(b, SignBit(fld, wraps))
        number == IF fld.format = "unsigned" THEN m
                  ELSE Wrapped(IF negative THEN -m ELSE m)
    IN  Converted(fld, Float[Float[Float[number] * fld.scaling] + fld.offset])

-----------------------------------------------------------------------------
\* The bit of the value that belongs at position p of the buffer.
BitOf(fld, p) == IF fld.big THEN fld.end_bit - p ELSE p - fld.start_bit

\* Mutant: the rest of the byte is cleared, too.
ApplyBitsClearsByte(d, fld, b, wraps) ==
    [p \in DOMAIN d |->
        IF p \in Positions(fld) THEN TestBit(b, BitOf(fld, p), wraps)
        ELSE d[p] /\ \A q \in Positions(fld) : q \div 8 # p \div 8]

\* apply_field_bits()
ApplyBits(d, fld, b, wraps) ==
    [p \in DOMAIN d |-> IF p \in Positions(fld) THEN TestBit(b, BitOf(fld, p), wraps) ELSE d[p]]

\* The position in the buffer of bit n of the value.
PositionOf(fld, n) == IF fld.big THEN fld.end_bit - n ELSE fld.start_bit + n

\* Mutant: the bit order of the field is not looked at.
FieldValueIgnoresOrder(fld, d) ==
    LET value[n \in 0 .. Width(fld)] ==
            IF n = 0 THEN 0
            ELSE value[n - 1] + (IF d[fld.start_bit + n - 1] THEN Pow2[n - 1] ELSE 0)
    IN  value[Width(fld)]

\* get_field_value(): the value of the lowest n bits, for n up to the width.
FieldValue(fld, d) ==
    LET value[n \in 0 .. Width(fld)] ==
            IF n = 0 THEN 0
            ELSE value[n - 1] + (IF d[PositionOf(fld, n - 1)] THEN Pow2[n - 1] ELSE 0)
    IN  value[Width(fld)]

-----------------------------------------------------------------------------
\* device_generate() is entered with the buffer device_init() cleared.
Init ==
    /\ pc = "defaults"
    /\ next = 1
    /\ params \in ParamLists
    /\ data = [p \in 0 .. DataBits - 1 |-> FALSE]
    /\ given = <<>>

\* What is known of the values of fields when field f is given a value.
Give(f, v) ==
    given' = [g \in {f} \cup {h \in DOMAIN given :
                                 Positions(Fields[h]) \cap Positions(Fields[f]) = {}}
                |-> IF g = f THEN v ELSE given[g]]

\* One turn of formatter_default_data(): a default was found to fit by
\* formatter_set_field_default(), or it was refused with the device.
Default ==
    /\ pc = "defaults" /\ next <= Len(Fields)
    /\ LET fld == Fields[next]
       IN  \E wraps \in BOOLEAN : \E b \in ToBits(fld, fld.default, wraps) :
               /\ b < Mask(fld)
               /\ data' = ApplyBits(data, fld, b, wraps)
               /\ Give(next, fld.default)
    /\ next' = next + 1
    /\ UNCHANGED <<pc, params>>

DefaultsDone ==
    /\ pc = "defaults" /\ next > Len(Fields)
    /\ pc' = "params"
    /\ next' = 1
    /\ UNCHANGED <<params, data, given>>

\* One turn of formatter_keyval_to_data() for a value whose bits fit.
Param ==
    /\ pc = "params" /\ next <= Len(params)
    /\ params[next].field \in DOMAIN Fields
    /\ LET fld == Fields[params[next].field]
           v == params[next].value
       IN  /\ v \in NumberType(fld)
           /\ \E wraps \in BOOLEAN : \E b \in ToBits(fld, v, wraps) :
                  /\ b < Mask(fld)
                  /\ data' = ApplyBits(data, fld, b, wraps)
           /\ Give(params[next].field, v)
    /\ next' = next + 1
    /\ UNCHANGED <<pc, params>>

\* An unknown name, a number that is not of its type, or a value that is "too
\* large for field" ends it, the parameters before it having been applied.
ParamRefused ==
    /\ pc = "params" /\ next <= Len(params)
    /\ params[next].field \in DOMAIN Fields =>
           LET fld == Fields[params[next].field]
               v == params[next].value
           IN  v \in NumberType(fld) =>
                   \E wraps \in BOOLEAN : \E b \in ToBits(fld, v, wraps) : b >= Mask(fld)
    /\ pc' = "failed"
    /\ UNCHANGED <<next, params, data, given>>

ParamsDone ==
    /\ pc = "params" /\ next > Len(params)
    /\ pc' = "done"
    /\ UNCHANGED <<next, params, data, given>>

Next == Default \/ DefaultsDone \/ Param \/ ParamRefused \/ ParamsDone

Spec == Init /\ [][Next]_vars

-----------------------------------------------------------------------------
\* The numbers that the bits of a field can stand for.
Numbers(fld) ==
    CASE fld.format = "unsigned"        -> 0 .. Mask(fld) - 1
      [] fld.format = "twos_complement" -> -(Mask(fld) \div 2) .. (Mask(fld) \div 2) - 1
      [] fld.format = "sign_magnitude"  -> 1 - (Mask(fld) \div 2) .. (Mask(fld) \div 2) - 1

\* The values that one of them is shown as, by the formulas of
\* src/devices/README.md.
InRange(fld, v) ==
    /\ v \in NumberType(fld)
    /\ \E u \in Numbers(fld) : v = u * fld.scaling + fld.offset

\* Of these, the ones that do come back: those that are a float at each step,
\* in a field no wider than an int.  str_to_spt() takes a sign and magnitude
\* from the two's complement of a negative value, so that only zero and the
\* number in the middle of the range come out right.
Holdable(fld, v) ==
    /\ Width(fld) <= IntBits
    /\ v \in NumberType(fld)
    /\ \E u \in Numbers(fld) :
           /\ v = u * fld.scaling + fld.offset
           /\ \A x \in {u, v, v - fld.offset} : Float[x] = x
           /\ fld.format = "sign_magnitude" =>
                  IF v < 0 THEN u = 0 \/ 4 * u = -Mask(fld) ELSE u >= 0

\* What formatter_data_to_keyval() may show for field f.
Shown(f) ==
    UNION {FromBits(Fields[f], FieldValue(Fields[f], data), wraps) : wraps \in BOOLEAN}

\* The receiver of the message shows each field with the value the sender
\* gave it, the last one if there were several and its default if there were
\* none, unless a field that shares bits with it was given a value later.
ReadsBack ==
    pc = "done" =>
        \A f \in DOMAIN given : Holdable(Fields[f], given[f]) => Shown(f) = {given[f]}

\* The same as the documentation of the device format has it: for every value
\* in the range of its field.
FormulasHold ==
    pc = "done" =>
        \A f \in DOMAIN given : InRange(Fields[f], given[f]) => Shown(f) = {given[f]}

\* Setting a field leaves every other that shares no bit with it as it is, and
\* writes nothing between the fields (the &= of formatter.c:777 clears only
\* its own bit).
FieldsKeepApart ==
    [][/\ \A p \in DOMAIN data' :
              data'[p] => \E f \in DOMAIN Fields : p \in Positions(Fields[f])
       /\ LET set == IF pc = "defaults" THEN next
                     ELSE IF next <= Len(params) THEN params[next].field ELSE 0
          IN  \A f \in DOMAIN Fields :
                  (set \in DOMAIN Fields =>
                       Positions(Fields[f]) \cap Positions(Fields[set]) = {})
                      => FieldValue(Fields[f], data)' = FieldValue(Fields[f], data)]_vars
=============================================================================
