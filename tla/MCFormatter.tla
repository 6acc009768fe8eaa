---------------------------- MODULE MCFormatter ----------------------------
(***************************************************************************)
(* Formatter for a message of 20 bits, an int of five, a word of seven and *)
(* floats of four: neighbouring fields of both bit orders across the       *)
(* bytes, one free bit, a scaled and two signed fields, one as wide as an  *)
(* int, two that share their bits as the two temperatures of the shipped   *)
(* description do, and values that a field, or a float, can not hold.      *)
(* WideFields is a field that a description may have, no wider than an int *)
(* but wider than the floats of formatter.c:161.                           *)
(***************************************************************************)
EXTENDS Formatter

Fld(first, last, big, format, scaling, offset, default) ==
    [start_bit |-> first, end_bit |-> last, big |-> big, format |-> format,
     scaling |-> scaling, offset |-> offset, default |-> default]

P(f, v) == [field |-> f, value |-> v]

MixedFields == <<Fld(0, 2, TRUE, "unsigned", 1, 0, 5),
                 Fld(3, 5, FALSE, "twos_complement", 1, 0, -3),
                 Fld(6, 7, TRUE, "sign_magnitude", 1, 0, 1),
                 Fld(9, 10, FALSE, "unsigned", 2, 10, 12),
                 Fld(9, 10, FALSE, "unsigned", -3, 6, 3),
                 Fld(11, 15, TRUE, "unsigned", 1, 0, 18),
                 Fld(14, 19, FALSE, "unsigned", 1, 0, 7)>>

MixedValues == {P(1, v) : v \in {0, 3, 8}} \cup {P(2, v) : v \in -5 .. -3 \cup {3}}
               \cup {P(3, v) : v \in -2 .. 1} \cup {P(4, v) : v \in {8, 16, 17, 18}}
               \cup {P(5, v) : v \in {-3, 0, 1, 6}} \cup {P(6, v) : v \in {0, 19, 30, 31}}
               \cup {P(7, v) : v \in {1, 40}} \cup {P(8, 0)}
MixedParams == {<<>>} \cup {<<p>> : p \in MixedValues}
               \cup {<<p, q>> : p \in MixedValues, q \in MixedValues}

WideFields == <<Fld(0, 5, FALSE, "unsigned", 1, 0, 0)>>
WideParams == {<<>>, <<P(1, 33)>>}
============================================================================
