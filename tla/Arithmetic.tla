----------------------------- MODULE Arithmetic -----------------------------
(***************************************************************************)
(* Natural numbers: division, as the countdowns of the decimating filter   *)
(* and the lengths of its buffers need it, and the least number of a set,  *)
(* by which facts about recursive functions are proved.  The provers know  *)
(* little of a product of two variables, so that the proofs name the       *)
(* products.                                                               *)
(***************************************************************************)
EXTENDS Integers, WellFoundedInduction, TLAPS

\* Any set of numbers has a least one.
LEMMA Least ==
    ASSUME NEW S \in SUBSET Nat, S # {}
    PROVE  \E x \in S : \A y \in S : x <= y
<1> DEFINE R == {ss \in Nat \X Nat : ss[1] < ss[2]}
<1>1. IsWellFoundedOn(R, Nat)
  BY NatLessThanWellFounded, Zenon DEF OpToRel
<1>2. PICK x \in S : \A y \in S : ~ (<<y, x>> \in R)
  <2> HIDE DEF R
  <2> QED BY <1>1, WFMin, Zenon
<1>3. ASSUME NEW y \in S, y < x PROVE FALSE
  <2>1. <<y, x>> \in Nat \X Nat /\ <<y, x>>[1] < <<y, x>>[2]
    BY <1>3
  <2>2. <<y, x>> \in R
    BY <2>1, Zenon
  <2> QED BY <2>2, <1>2, Zenon
<1> QED BY <1>3

\* A number is divided by d when it is given as a multiple and a rest.
LEMMA FitsOnce ==
    ASSUME NEW q \in Nat, NEW r \in Nat, NEW d \in Nat \ {0}, r < d,
           NEW x \in Nat, x = q * d + r
    PROVE  x \div d = q /\ x % d = r
<1>1. (q * d + r) \div d = q
  OBVIOUS
<1>2. (q * d + r) % d = r
  OBVIOUS
<1> QED BY <1>1, <1>2

\* Products of natural numbers, as far as the proofs use them.
LEMMA Multiply ==
    ASSUME NEW a \in Nat, NEW b \in Nat, NEW d \in Nat, a <= b
    PROVE  a * d <= b * d /\ a * d \in Nat /\ (a + 1) * d = a * d + d
OBVIOUS

\* A larger number has no smaller quotient.
LEMMA DivisionMonotone ==
    ASSUME NEW x \in Nat, NEW y \in Nat, NEW d \in Nat \ {0}, x <= y
    PROVE  x \div d <= y \div d
OBVIOUS

\* The quotient is the number of times d fits.
LEMMA QuotientAndRest ==
    ASSUME NEW x \in Nat, NEW d \in Nat \ {0}
    PROVE  /\ x \div d \in Nat /\ x % d \in 0 .. d - 1
           /\ x = (x \div d) * d + (x % d)
<1>1. x \div d \in Nat
  OBVIOUS
<1>2. PICK q \in Nat : q = x \div d
  BY <1>1
<1>3. PICK qd \in Nat : qd = q * d
  BY Multiply
<1>4. (q + 1) * d = qd + d /\ q + 1 \in Nat /\ qd + d \in Nat
  BY <1>3, Multiply
<1>5. x < qd + d
  <2> SUFFICES ASSUME qd + d <= x PROVE FALSE
    BY <1>4
  <2>1. qd + d = (q + 1) * d + 0 /\ 0 \in Nat /\ 0 < d
    BY <1>4
  <2>2. (qd + d) \div d = q + 1
    BY <1>4, <2>1, FitsOnce
  <2>3. q + 1 <= x \div d
    BY <1>4, <2>2, DivisionMonotone
  <2> QED BY <1>2, <2>3
<1>6. qd <= x
  <2> SUFFICES ASSUME x < qd PROVE FALSE
    OBVIOUS
  <2>1. q # 0
    BY <1>3
  <2>2. PICK p \in Nat : q = p + 1
    <3>1. q - 1 \in Nat /\ q = (q - 1) + 1
      BY <2>1
    <3> QED BY <3>1
  <2>3. PICK pd \in Nat : pd = p * d /\ qd = pd + d
    BY <1>3, <2>2, Multiply
  <2>4. pd + (d - 1) \in Nat /\ d - 1 \in Nat /\ d - 1 < d /\ x <= pd + (d - 1)
    BY <2>3
  <2>5. (pd + (d - 1)) \div d = p
    BY <2>3, <2>4, FitsOnce
  <2>6. x \div d <= p
    BY <2>4, <2>5, DivisionMonotone
  <2> QED BY <1>2, <2>2, <2>6
<1>7. PICK r \in 0 .. d - 1 : x = qd + r
  <2>1. x - qd \in 0 .. d - 1 /\ x = qd + (x - qd)
    BY <1>5, <1>6
  <2> QED BY <2>1
<1>8. x % d = r
  <2>1. x = q * d + r /\ r \in Nat /\ r < d
    BY <1>3, <1>7
  <2> QED BY <2>1, FitsOnce
<1>9. x = q * d + r
  BY <1>3, <1>7
<1>10. x = (x \div d) * d + (x % d)
  BY <1>2, <1>8, <1>9, Zenon
<1>11. x % d \in 0 .. d - 1
  BY <1>7, <1>8, Zenon
<1> QED BY <1>1, <1>10, <1>11

\* Dividing by the decimation up to a stage and then by that of the next.
LEMMA NestedDivision ==
    ASSUME NEW x \in Nat, NEW d \in Nat \ {0}, NEW e \in Nat \ {0}
    PROVE  (x \div d) \div e = x \div (d * e)
OBVIOUS

\* The next position: the countdown ends, or it does not.
LEMMA NextPosition ==
    ASSUME NEW c \in Nat, NEW d \in Nat \ {0}
    PROVE  /\ c % d = d - 1 => (c + 1) % d = 0 /\ (c + 1) \div d = (c \div d) + 1
           /\ c % d # d - 1 => (c + 1) % d = (c % d) + 1 /\ (c + 1) \div d = c \div d
<1> DEFINE q == c \div d
           r == c % d
<1>1. q \in Nat /\ r \in 0 .. d - 1 /\ c = q * d + r
  BY QuotientAndRest
<1> HIDE DEF q, r
<1>2. (q + 1) * d = q * d + d /\ q * d \in Nat
  BY <1>1, Multiply
<1>3. CASE r = d - 1
  <2>1. PICK p \in Nat, n \in Nat, z \in Nat : p = q + 1 /\ n = c + 1 /\ z = 0
    BY <1>1
  <2>2. n = p * d + z /\ z < d
    BY <1>1, <1>2, <1>3, <2>1
  <2>3. n \div d = p /\ n % d = z
    BY <2>2, FitsOnce
  <2>4. (c + 1) \div d = q + 1 /\ (c + 1) % d = 0
    BY <2>1, <2>3
  <2> QED BY <1>3, <2>4 DEF q, r
<1>4. CASE r # d - 1
  <2>1. c + 1 = q * d + (r + 1) /\ r + 1 \in Nat /\ r + 1 < d
    BY <1>1, <1>2, <1>4
  <2>2. (c + 1) \div d = q /\ (c + 1) % d = r + 1
    BY <1>1, <2>1, FitsOnce
  <2> QED BY <1>4, <2>2 DEF q, r
<1> QED BY <1>3, <1>4

\* No more outputs in m positions than the ceiling of m / d.
LEMMA AtMostCeiling ==
    ASSUME NEW a \in Nat, NEW b \in Nat, NEW m \in Nat, NEW d \in Nat \ {0},
           a <= b, b <= a + m
    PROVE  (b \div d) - (a \div d) <= (m + d - 1) \div d
<1> DEFINE p == a \div d
           q == b \div d
           k == q - p
<1>1. /\ p \in Nat /\ q \in Nat /\ p <= q
      /\ a = p * d + (a % d) /\ a % d \in 0 .. d - 1
      /\ b = q * d + (b % d) /\ b % d \in 0 .. d - 1
  BY QuotientAndRest, DivisionMonotone
<1> HIDE DEF p, q
<1>2. k \in Nat /\ q = p + k
  BY <1>1
<1> HIDE DEF k
<1>3. q * d = p * d + k * d /\ k * d \in Nat /\ p * d \in Nat
  BY <1>1, <1>2
<1>4. k * d <= m + d - 1 /\ m + d - 1 \in Nat
  <2> DEFINE pd == p * d
             qd == q * d
             kd == k * d
             ra == a % d
             rb == b % d
  <2>1. /\ qd = pd + kd /\ kd \in Nat /\ pd \in Nat
        /\ a = pd + ra /\ ra \in 0 .. d - 1
        /\ b = qd + rb /\ rb \in 0 .. d - 1
    BY <1>1, <1>3, QuotientAndRest
  <2> HIDE DEF pd, qd, kd, ra, rb
  <2>2. kd <= m + d - 1 /\ m + d - 1 \in Nat
    BY <2>1
  <2> QED BY <2>2 DEF kd
<1>5. (k * d) \div d = k
  <2>1. k * d = k * d + 0 /\ 0 \in Nat /\ 0 < d
    BY <1>3
  <2> QED BY <1>2, <1>3, <2>1, FitsOnce
<1>6. k <= (m + d - 1) \div d
  BY <1>3, <1>4, <1>5, DivisionMonotone
<1> QED BY <1>1, <1>2, <1>6 DEF p, q

\* A running product of factors is defined: the recursion has a function
\* that satisfies it.
LEMMA RunningProduct ==
    ASSUME NEW N \in Nat, NEW D
    PROVE  \E f : f = [t \in 0 .. N |-> IF t = 0 THEN 1 ELSE f[t - 1] * D[t]]
<1> DEFINE Upto(m, f) == f = [t \in 0 .. m |-> IF t = 0 THEN 1 ELSE f[t - 1] * D[t]]
           Without == {m \in 0 .. N : ~\E f : Upto(m, f)}
<1>1. Without = {}
  <2> SUFFICES ASSUME Without # {} PROVE FALSE
    OBVIOUS
  <2>1. Without \subseteq Nat
    OBVIOUS
  <2>2. PICK x \in Without : \A y \in Without : x <= y
    <3> HIDE DEF Without
    <3> QED BY <2>1, Least
  <2>3. x \in Nat /\ x \in 0 .. N /\ ~\E f : Upto(x, f)
    BY <2>1
  <2>4. CASE x = 0
    <3> DEFINE f == [t \in 0 .. 0 |-> 1]
    <3>1. Upto(0, f)
      OBVIOUS
    <3> QED BY <2>3, <2>4, <3>1
  <2>5. CASE x # 0
    <3>1. x - 1 \in 0 .. N /\ ~(x <= x - 1)
      BY <2>3, <2>5
    <3>2. x - 1 \notin Without
      BY <2>2, <3>1
    <3>3. PICK f : Upto(x - 1, f)
      BY <3>1, <3>2
    <3> DEFINE g == [t \in 0 .. x |-> IF t = x THEN f[x - 1] * D[x] ELSE f[t]]
    <3>4. g[x] = f[x - 1] * D[x] /\ \A t \in 0 .. x - 1 : g[t] = f[t]
      <4>1. x \in 0 .. x /\ \A t \in 0 .. x - 1 : t \in 0 .. x /\ t # x
        BY <2>3
      <4>2. \A t \in 0 .. x : g[t] = IF t = x THEN f[x - 1] * D[x] ELSE f[t]
        OBVIOUS
      <4> QED BY <4>1, <4>2
    <3>5. \A t \in 0 .. x - 1 : f[t] = IF t = 0 THEN 1 ELSE f[t - 1] * D[t]
      BY <3>3
    <3>6. ASSUME NEW t \in 0 .. x
          PROVE  (IF t = x THEN f[x - 1] * D[x] ELSE f[t])
                     = IF t = 0 THEN 1 ELSE g[t - 1] * D[t]
      <4> HIDE DEF g
      <4>1. t # 0 => t - 1 \in 0 .. x - 1
        BY <2>3
      <4>2. CASE t = x
        BY <2>5, <3>4, <4>1, <4>2
      <4>3. CASE t # x
        <5>1. t \in 0 .. x - 1
          BY <2>3, <4>3
        <5> QED BY <3>4, <3>5, <4>1, <4>3, <5>1
      <4> QED BY <4>2, <4>3
    <3>7. Upto(x, g)
      BY <3>6
    <3> QED BY <2>3, <3>7
  <2> QED BY <2>4, <2>5
<1>2. \E f : Upto(N, f)
  <2>1. N \in 0 .. N /\ N \notin Without
    BY <1>1
  <2> QED BY <2>1
<1> QED BY <1>2

\* The same for a running sum.
LEMMA RunningSum ==
    ASSUME NEW N \in Nat, NEW D
    PROVE  \E f : f = [t \in 0 .. N |-> IF t = 0 THEN 0 ELSE f[t - 1] + D[t]]
<1> DEFINE Upto(m, f) == f = [t \in 0 .. m |-> IF t = 0 THEN 0 ELSE f[t - 1] + D[t]]
           Without == {m \in 0 .. N : ~\E f : Upto(m, f)}
<1>1. Without = {}
  <2> SUFFICES ASSUME Without # {} PROVE FALSE
    OBVIOUS
  <2>1. Without \subseteq Nat
    OBVIOUS
  <2>2. PICK x \in Without : \A y \in Without : x <= y
    <3> HIDE DEF Without
    <3> QED BY <2>1, Least
  <2>3. x \in Nat /\ x \in 0 .. N /\ ~\E f : Upto(x, f)
    BY <2>1
  <2>4. CASE x = 0
    <3> DEFINE f == [t \in 0 .. 0 |-> 0]
    <3>1. Upto(0, f)
      OBVIOUS
    <3> QED BY <2>3, <2>4, <3>1
  <2>5. CASE x # 0
    <3>1. x - 1 \in 0 .. N /\ ~(x <= x - 1)
      BY <2>3, <2>5
    <3>2. x - 1 \notin Without
      BY <2>2, <3>1
    <3>3. PICK f : Upto(x - 1, f)
      BY <3>1, <3>2
    <3> DEFINE g == [t \in 0 .. x |-> IF t = x THEN f[x - 1] + D[x] ELSE f[t]]
    <3>4. g[x] = f[x - 1] + D[x] /\ \A t \in 0 .. x - 1 : g[t] = f[t]
      <4>1. x \in 0 .. x /\ \A t \in 0 .. x - 1 : t \in 0 .. x /\ t # x
        BY <2>3
      <4>2. \A t \in 0 .. x : g[t] = IF t = x THEN f[x - 1] + D[x] ELSE f[t]
        OBVIOUS
      <4> QED BY <4>1, <4>2
    <3>5. \A t \in 0 .. x - 1 : f[t] = IF t = 0 THEN 0 ELSE f[t - 1] + D[t]
      BY <3>3
    <3>6. ASSUME NEW t \in 0 .. x
          PROVE  (IF t = x THEN f[x - 1] + D[x] ELSE f[t])
                     = IF t = 0 THEN 0 ELSE g[t - 1] + D[t]
      <4> HIDE DEF g
      <4>1. t # 0 => t - 1 \in 0 .. x - 1
        BY <2>3
      <4>2. CASE t = x
        BY <2>5, <3>4, <4>1, <4>2
      <4>3. CASE t # x
        <5>1. t \in 0 .. x - 1
          BY <2>3, <4>3
        <5> QED BY <3>4, <3>5, <4>1, <4>3, <5>1
      <4> QED BY <4>2, <4>3
    <3>7. Upto(x, g)
      BY <3>6
    <3> QED BY <2>3, <3>7
  <2> QED BY <2>4, <2>5
<1>2. \E f : Upto(N, f)
  <2>1. N \in 0 .. N /\ N \notin Without
    BY <1>1
  <2> QED BY <2>1
<1> QED BY <1>2

\* Positions in the stream may be counted modulo d.
LEMMA Modulo ==
    ASSUME NEW b \in Nat, NEW n \in Nat, NEW d \in Nat \ {0}
    PROVE  /\ ((b % d) + n) % d = (b + n) % d
           /\ ((b % d) + n) \div d = ((b + n) \div d) - (b \div d)
<1> DEFINE p == b \div d
           r == b % d
           q == (r + n) \div d
           t == (r + n) % d
<1>1. p \in Nat /\ r \in 0 .. d - 1 /\ b = p * d + r
  BY QuotientAndRest
<1> HIDE DEF p, r
<1>2. r + n \in Nat
  BY <1>1
<1>3. q \in Nat /\ t \in 0 .. d - 1 /\ r + n = q * d + t
  BY <1>2, QuotientAndRest
<1> HIDE DEF q, t
<1>4. (p + q) * d = p * d + q * d /\ p * d \in Nat /\ q * d \in Nat
  BY <1>1, <1>3
<1>5. b + n = (p + q) * d + t
  BY <1>1, <1>3, <1>4
<1>6. (b + n) \div d = p + q /\ (b + n) % d = t
  <2>1. p + q \in Nat /\ t \in Nat /\ t < d /\ b + n \in Nat
    BY <1>1, <1>3
  <2> QED BY <1>5, <2>1, FitsOnce
<1>7. ((b + n) \div d) - p = q
  BY <1>1, <1>3, <1>6
<1> QED BY <1>6, <1>7 DEF p, r, q, t
=============================================================================
