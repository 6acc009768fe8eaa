----------------------------- MODULE Conversions -----------------------------
(***************************************************************************)
(* The numbers of the command line: the range-checked conversions of       *)
(* src/src/conversions.c over the C library (external).  What strtol(),    *)
(* strtoul() or strtod() makes of a text is given with it: the number it   *)
(* begins with, if any, whether that is out of the range of the C type or  *)
(* no number at all ("nan", which only strtod() reads), and the rest.      *)
(***************************************************************************)
EXTENDS Integers

CONSTANTS
    UintMax,    \* UINT_MAX
    MHz         \* units of frequency in a MHz: 1000000

ASSUME ConversionAssumption ==
    /\ UintMax \in Nat /\ UintMax >= 65535
    /\ MHz \in Nat \ {0} /\ MHz % 1000 = 0

NaN == -1000000     \* a double that compares false with every limit

Text == [kind : {"number", "nan", "overflow", "none"}, value : Int, rest : STRING]

\* hz_suffixes[]; the comparison ignores case.
Multiplier(rest) ==
    CASE rest \in {"K", "KHz"} -> MHz \div 1000
      [] rest \in {"M", "MHz"} -> MHz
      [] rest \in {"G", "GHz"} -> 1000 * MHz
      [] OTHER                 -> 1

\* str2int() and str2uint(): the whole text is a number within the limits.
\* A text with a minus sign has the value strtoul() wraps it to.
IntegerAccepts(t, lo, hi) ==
    t.kind = "number" /\ t.rest = "" /\ t.value \in lo .. hi

\* str2double(): no comparison refuses a NaN.
DoubleAccepts(t, lo, hi) ==
    \/ t.kind = "nan" /\ t.rest = ""
    \/ IntegerAccepts(t, lo, hi)

DoubleValue(t) == IF t.kind = "nan" THEN NaN ELSE t.value

\* Mutant: the limits are those of the number without its suffix.
SuffixAcceptsUnscaled(t, lo, hi) ==
    \/ t.kind = "nan"
    \/ t.kind = "number" /\ t.value \in lo .. hi

\* str2uint_suffix(): a rest that is no suffix is ignored.
SuffixAccepts(t, lo, hi) ==
    \/ t.kind = "nan"
    \/ t.kind = "number" /\ t.value * Multiplier(t.rest) \in lo .. hi

\* The conversion of a NaN to unsigned int is undefined; it may give any number.
SuffixValues(t) ==
    IF t.kind = "nan" THEN {0, UintMax} ELSE {t.value * Multiplier(t.rest)}

\* What an option takes a text for, none when it is refused.
Converted(parser, t, lo, hi) ==
    CASE parser = "integer" -> IF IntegerAccepts(t, lo, hi) THEN {t.value} ELSE {}
      [] parser = "double"  -> IF DoubleAccepts(t, lo, hi) THEN {DoubleValue(t)} ELSE {}
      [] parser = "suffix"  -> IF SuffixAccepts(t, lo, hi) THEN SuffixValues(t) ELSE {}
=============================================================================
