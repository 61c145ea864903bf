-------------------------- MODULE TimerWheelProofs --------------------------
(***************************************************************************)
(* The timer wheel, for any number of rings, slots and timers.             *)
(***************************************************************************)
EXTENDS TimerWheel, WellFoundedInduction, TLAPS

-----------------------------------------------------------------------------
(***************************************************************************)
(* Induction.  The library's theorems on well-founded relations take sets, *)
(* so induction is stated for the set of the numbers that have the         *)
(* property.                                                               *)
(***************************************************************************)

\* The order of the natural numbers as a set of pairs.
Below == {ss \in Nat \X Nat : ss[1] < ss[2]}

\* The natural numbers are well founded.
LEMMA BelowWellFounded == IsWellFoundedOn(Below, Nat)
<1>1. Below = OpToRel(<, Nat)  BY Zenon DEF Below, OpToRel
<1>2. QED  BY <1>1, NatLessThanWellFounded, Zenon

\* A non-empty set of natural numbers has a least element.
LEMMA Least ==
    ASSUME NEW S, S \subseteq Nat, S # {}
    PROVE  \E m \in S : \A k \in S : m <= k
<1>1. PICK m \in S : \A k \in S : ~ (<<k, m>> \in Below)
  BY WFMin, BelowWellFounded
<1>2. ASSUME NEW k \in S  PROVE m <= k
  <2>1. <<k, m>> \notin Below  BY <1>1
  <2>2. QED  BY <2>1 DEF Below
<1>3. QED  BY <1>2

\* Induction up to a bound.
LEMMA Induction ==
    ASSUME NEW S, NEW N \in Nat, 0 \in S,
           \A n \in 0..(N - 1) : n \in S => n + 1 \in S
    PROVE  \A n \in 0..N : n \in S
<1> DEFINE Bad == {n \in 0..N : n \notin S}
<1>1. SUFFICES ASSUME Bad # {}  PROVE FALSE
  OBVIOUS
<1>2. PICK m \in Bad : \A k \in Bad : m <= k
  <2>1. Bad \subseteq Nat  OBVIOUS
  <2> HIDE DEF Bad
  <2>2. QED  BY <1>1, <2>1, Least
<1>3. m # 0 /\ m - 1 \in 0..(N - 1)  BY <1>2
<1>4. m - 1 \in S  BY <1>2, <1>3
<1>5. m \in S  BY <1>3, <1>4
<1>6. QED  BY <1>2, <1>5

\* A non-empty set of natural numbers below a bound has a greatest element.
LEMMA Greatest ==
    ASSUME NEW N \in Nat, NEW S, S \subseteq 0..N, S # {}
    PROVE  \E m \in S : \A k \in S : m >= k
<1> DEFINE Up == {u \in 0..N : \A k \in S : k <= u}
<1>1. N \in Up  OBVIOUS
<1>2. PICK m \in Up : \A k \in Up : m <= k
  <2>1. Up \subseteq Nat  OBVIOUS
  <2> HIDE DEF Up
  <2>2. QED  BY <1>1, <2>1, Least
<1>3. m \in S
  <2>1. SUFFICES ASSUME m \notin S  PROVE FALSE
    OBVIOUS
  <2>2. \A k \in S : k <= m - 1  BY <1>2, <2>1
  <2>3. m # 0
    <3>1. PICK k \in S : TRUE  OBVIOUS
    <3>2. k \in Nat /\ m \in Nat /\ k <= m - 1  BY <2>2, <3>1
    <3>3. QED  BY <3>2
  <2>4. m - 1 \in Up  BY <1>2, <2>2, <2>3
  <2>5. QED  BY <1>2, <2>4
<1>4. QED  BY <1>2, <1>3

-----------------------------------------------------------------------------
(***************************************************************************)
(* Functions defined by recursion over an initial segment of the natural   *)
(* numbers exist.  The step is a function, not an operator.                *)
(***************************************************************************)

\* The steps of N rounds on D, and their iterates from a on.
Steps(D, N) == [0..(N - 1) -> [D -> D]]
Iterate(g, D, N, a, f) ==
    /\ g \in [0..N -> D] /\ g[0] = a
    /\ \A i \in 0..(N - 1) : g[i + 1] = f[i][g[i]]

\* For every start and every step there is the sequence of iterates.
LEMMA Iterates ==
    ASSUME NEW D, NEW N \in Nat, NEW a \in D, NEW f \in Steps(D, N)
    PROVE  \E g : Iterate(g, D, N, a, f)
<1> DEFINE Run(g, n) == g[0] = a /\ \A i \in 0..(n - 1) : g[i + 1] = f[i][g[i]]
           S == {n \in 0..N : \E g \in [0..n -> D] : Run(g, n)}
<1>1. 0 \in S
  <2> DEFINE g0 == [i \in 0..0 |-> a]
  <2>1. g0 \in [0..0 -> D] /\ Run(g0, 0)  OBVIOUS
  <2> HIDE DEF g0, Run
  <2>2. QED  BY <2>1
<1>2. ASSUME NEW n \in 0..(N - 1), n \in S  PROVE n + 1 \in S
  <2>1. PICK g \in [0..n -> D] : Run(g, n)  BY <1>2
  <2> DEFINE h == [i \in 0..(n + 1) |-> IF i = n + 1 THEN f[n][g[n]] ELSE g[i]]
  <2>2. f[n][g[n]] \in D  BY DEF Steps
  <2>3. h \in [0..(n + 1) -> D]  BY <2>2
  <2>4. Run(h, n + 1)
    <3>1. h[0] = a  BY <2>1
    <3>2. ASSUME NEW i \in 0..n  PROVE h[i + 1] = f[i][h[i]]
      <4>1. CASE i = n  BY <4>1
      <4>2. CASE i < n  BY <4>2, <2>1
      <4>3. QED  BY <4>1, <4>2
    <3>3. (n + 1) - 1 = n  OBVIOUS
    <3> HIDE DEF h
    <3>4. QED  BY <3>1, <3>2, <3>3
  <2>5. n + 1 \in 0..N  OBVIOUS
  <2> HIDE DEF h, Run
  <2>6. QED  BY <2>3, <2>4, <2>5
<1>3. N \in S
  <2> HIDE DEF S
  <2>1. \A n \in 0..N : n \in S  BY <1>1, <1>2, Induction
  <2>2. QED  BY <2>1
<1>4. QED  BY <1>3 DEF Iterate

-----------------------------------------------------------------------------
(***************************************************************************)
(* Numbers in base Slots.                                                  *)
(***************************************************************************)

\* The recursive definition of weight has its solution.
LEMMA WeightDef ==
    /\ weight \in [0..Rings -> Nat \ {0}]
    /\ weight[0] = 1
    /\ \A r \in RingId : weight[r + 1] = Slots * weight[r]
<1> DEFINE D == Nat \ {0}
           f == [i \in 0..(Rings - 1) |-> [x \in D |-> Slots * x]]
<1>0. Rings \in Nat  BY WheelAssumption
<1>1. \A x \in D : Slots * x \in D  BY WheelAssumption
<1>2. f \in [0..(Rings - 1) -> [D -> D]]  BY <1>1
<1>3. 1 \in D  OBVIOUS
<1>4. PICK g : Iterate(g, D, Rings, 1, f)
  <2>1. f \in Steps(D, Rings)  BY <1>2 DEF Steps
  <2> HIDE DEF D, f
  <2>2. QED  BY <1>0, <1>3, <2>1, Iterates
<1>5. ASSUME NEW i \in 0..(Rings - 1)  PROVE g[i + 1] = Slots * g[i]
  <2>1. g[i] \in D  BY <1>0, <1>4 DEF Iterate
  <2>2. f[i][g[i]] = Slots * g[i]  BY <2>1
  <2>3. QED  BY <1>4, <2>2 DEF Iterate
<1>6. ASSUME NEW r \in 0..Rings  PROVE g[r] = IF r = 0 THEN 1 ELSE Slots * g[r - 1]
  <2>1. CASE r = 0  BY <1>4, <2>1 DEF Iterate
  <2>2. CASE r # 0
    <3>1. r - 1 \in 0..(Rings - 1) /\ (r - 1) + 1 = r  BY <2>2, <1>0
    <3>2. QED  BY <3>1, <1>5, <2>2
  <2>3. QED  BY <2>1, <2>2
<1>7. g = [r \in 0..Rings |-> IF r = 0 THEN 1 ELSE Slots * g[r - 1]]
  BY <1>4, <1>6 DEF Iterate
<1>8. weight = [r \in 0..Rings |-> IF r = 0 THEN 1 ELSE Slots * weight[r - 1]]
  BY <1>7 DEF weight
<1>9. 0 \in 0..Rings  BY <1>0
<1>10. weight[0] = 1  BY <1>8, <1>9
<1>11. ASSUME NEW r \in RingId  PROVE weight[r + 1] = Slots * weight[r]
  <2>1. r + 1 \in 0..Rings /\ r + 1 # 0 /\ (r + 1) - 1 = r  BY <1>0 DEF RingId
  <2>2. QED  BY <2>1, <1>8
<1>12. \A r \in 0..Rings : weight[r] \in D
  <2> DEFINE S == {r \in 0..Rings : weight[r] \in D}
  <2>1. 0 \in S  BY <1>9, <1>10
  <2>2. ASSUME NEW r \in 0..(Rings - 1), r \in S  PROVE r + 1 \in S
    BY <2>2, <1>0, <1>1, <1>11 DEF RingId
  <2>3. \A r \in 0..Rings : r \in S
    <3> HIDE DEF S
    <3>1. QED  BY <1>0, <1>1, <2>1, <2>2, Induction
  <2>4. QED  BY <2>3
<1>13. weight \in [0..Rings -> D]  BY <1>8, <1>12
<1>14. QED  BY <1>10, <1>11, <1>13

\* Quotient and remainder.
LEMMA DivMod ==
    ASSUME NEW n \in Nat, NEW w \in Nat \ {0}
    PROVE  /\ n \div w \in Nat /\ n % w \in 0..(w - 1)
           /\ n = w * (n \div w) + (n % w)
OBVIOUS

\* They are determined by the equation.
LEMMA DivModUnique ==
    ASSUME NEW w \in Nat \ {0}, NEW q \in Int, NEW m \in 0..(w - 1)
    PROVE  (w * q + m) \div w = q /\ (w * q + m) % w = m
OBVIOUS

\* Counting on by one: the remainder grows, or is used up and carried.
LEMMA DivModNext ==
    ASSUME NEW n \in Nat, NEW w \in Nat \ {0}
    PROVE  IF n % w = w - 1
           THEN (n + 1) \div w = n \div w + 1 /\ (n + 1) % w = 0
           ELSE (n + 1) \div w = n \div w /\ (n + 1) % w = (n % w) + 1
<1> DEFINE q == n \div w
           m == n % w
<1>1. q \in Nat /\ m \in 0..(w - 1) /\ n = w * q + m  BY DivMod
<1> HIDE DEF q, m
<1>2. CASE m = w - 1
  <2>1. n + 1 = w * (q + 1) + 0  BY <1>1, <1>2
  <2>2. q + 1 \in Int /\ 0 \in 0..(w - 1)  BY <1>1
  <2>3. QED  BY <1>2, <2>1, <2>2, DivModUnique DEF q, m
<1>3. CASE m # w - 1
  <2>1. n + 1 = w * q + (m + 1)  BY <1>1
  <2>2. q \in Int /\ m + 1 \in 0..(w - 1)  BY <1>1, <1>3
  <2>3. (n + 1) \div w = q /\ (n + 1) % w = m + 1  BY <2>1, <2>2, DivModUnique
  <2>4. QED  BY <1>3, <2>3 DEF q, m
<1>4. QED  BY <1>2, <1>3

\* The remainder of a number below the modulus, and one modulus further.
LEMMA ModSmall ==
    ASSUME NEW w \in Nat \ {0}, NEW m \in 0..(w - 1)
    PROVE  m % w = m /\ (m + w) % w = m /\ (m - w) % w = m
<1>1. m = w * 0 + m /\ m + w = w * 1 + m /\ m - w = w * (-1) + m  OBVIOUS
<1>2. 0 \in Int /\ 1 \in Int /\ -1 \in Int  OBVIOUS
<1>3. QED  BY <1>1, <1>2, DivModUnique

\* Products are monotonic.
LEMMA Times ==
    ASSUME NEW w \in Nat, NEW a \in Int, NEW b \in Int, a <= b
    PROVE  w * a <= w * b
OBVIOUS

\* A digit is a slot number.
LEMMA DigitType ==
    ASSUME NEW n \in Nat, NEW r \in RingId
    PROVE  /\ weight[r] \in Nat \ {0} /\ n \div weight[r] \in Nat
           /\ digit(n, r) \in 0..(Slots - 1)
<1>1. weight[r] \in Nat \ {0}  BY WeightDef, WheelAssumption DEF RingId
<1>2. n \div weight[r] \in Nat  BY <1>1, DivMod
<1>3. QED  BY <1>1, <1>2, DivMod, WheelAssumption DEF digit

\* A digit stands for so many weights of its ring.
LEMMA DigitSum ==
    ASSUME NEW n \in Nat, NEW r \in RingId
    PROVE  n % weight[r + 1] = weight[r] * digit(n, r) + (n % weight[r])
<1> DEFINE w == weight[r]
           q == n \div w
           m == n % w
           d == digit(n, r)
           h == q \div Slots
<1>1. w \in Nat \ {0} /\ q \in Nat /\ d \in 0..(Slots - 1)  BY DigitType
<1>2. m \in 0..(w - 1) /\ n = w * q + m  BY <1>1, DivMod
<1>3. h \in Nat /\ q = Slots * h + d  BY <1>1, DivMod, WheelAssumption DEF digit
<1>4. weight[r + 1] = Slots * w /\ Slots * w \in Nat \ {0}
  BY <1>1, WeightDef, WheelAssumption
<1> HIDE DEF w, q, m, d, h
<1>5. n = (Slots * w) * h + (w * d + m)  BY <1>1, <1>2, <1>3, WheelAssumption
<1>6. w * d + m \in 0..(Slots * w - 1)
  <2>1. w * d <= w * (Slots - 1)  BY <1>1, Times, WheelAssumption
  <2>2. w * (Slots - 1) = Slots * w - w  BY <1>1, WheelAssumption
  <2>3. w * d \in Nat  BY <1>1, WheelAssumption
  <2>4. Slots * w \in Int  BY <1>1, WheelAssumption
  <2>5. QED  BY <2>1, <2>2, <2>3, <2>4, <1>1, <1>2
<1>7. n % (Slots * w) = w * d + m
  <2>1. h \in Int  BY <1>3
  <2>2. QED  BY <1>4, <1>5, <1>6, <2>1, DivModUnique
<1>8. QED  BY <1>4, <1>7 DEF w, d, m

\* The digits below r are all at their last value just before the tick that
\* ring r turns on.
LEMMA CarryDigits ==
    ASSUME NEW n \in Nat, NEW r \in 0..Rings
    PROVE  (\A q \in 0..(r - 1) : digit(n, q) = Slots - 1)
           <=> n % weight[r] = weight[r] - 1
<1> DEFINE Full(k) == \A q \in 0..(k - 1) : digit(n, q) = Slots - 1
           S == {k \in 0..Rings : Full(k) <=> n % weight[k] = weight[k] - 1}
<1>0. Rings \in Nat /\ 0 \in 0..Rings  BY WheelAssumption
<1>1. 0 \in S
  <2>1. weight[0] = 1 /\ n % 1 = 0  BY WeightDef
  <2>2. Full(0)  OBVIOUS
  <2>3. QED  BY <1>0, <2>1, <2>2
<1>2. ASSUME NEW k \in 0..(Rings - 1), k \in S  PROVE k + 1 \in S
  <2> DEFINE w == weight[k]
             d == digit(n, k)
             m == n % w
  <2>1. k \in RingId /\ k + 1 \in 0..Rings  BY <1>0 DEF RingId
  <2>2. w \in Nat \ {0} /\ d \in 0..(Slots - 1)  BY <2>1, DigitType
  <2>3. m \in 0..(w - 1)  BY <2>2, DivMod
  <2>4. n % weight[k + 1] = w * d + m /\ weight[k + 1] = Slots * w
    BY <2>1, DigitSum, WeightDef
  <2>5. Full(k + 1) <=> Full(k) /\ d = Slots - 1
    <3>1. 0..((k + 1) - 1) = 0..(k - 1) \cup {k}  BY <2>1 DEF RingId
    <3>2. QED  BY <3>1
  <2>6. Full(k) <=> m = w - 1  BY <1>2
  <2> HIDE DEF w, d, m, Full
  <2>7. w * d + m = Slots * w - 1 <=> m = w - 1 /\ d = Slots - 1
    <3>1. CASE d = Slots - 1
      <4>1. w * d = Slots * w - w  BY <2>2, <3>1, WheelAssumption
      <4>2. Slots * w \in Int  BY <2>2, WheelAssumption
      <4>3. ASSUME NEW x \in Int, NEW y \in Int, x = y - w
            PROVE  x + m = y - 1 <=> m = w - 1
        BY <4>3, <2>2, <2>3
      <4>4. w * d + m = Slots * w - 1 <=> m = w - 1  BY <4>1, <4>2, <4>3, <2>2
      <4>5. QED  BY <4>4, <3>1
    <3>2. CASE d # Slots - 1
      <4>1. w * d <= w * (Slots - 2)  BY <2>2, <3>2, Times, WheelAssumption
      <4>2. w * (Slots - 2) = Slots * w - 2 * w  BY <2>2, WheelAssumption
      <4>3. Slots * w \in Int /\ w * d \in Int  BY <2>2, WheelAssumption
      <4>4. QED  BY <4>1, <4>2, <4>3, <2>2, <2>3, <3>2
    <3>3. QED  BY <3>1, <3>2
  <2>8. QED  BY <2>1, <2>4, <2>5, <2>6, <2>7 DEF w
<1>3. r \in S
  <2> HIDE DEF S
  <2>1. QED  BY <1>0, <1>1, <1>2, Induction
<1>4. QED  BY <1>3

\* What a tick does to a digit.
LEMMA DigitNext ==
    ASSUME NEW n \in Nat, NEW r \in RingId
    PROVE  digit(n + 1, r) = IF n % weight[r] = weight[r] - 1
                             THEN (digit(n, r) + 1) % Slots ELSE digit(n, r)
<1> DEFINE w == weight[r]
           q == n \div w
<1>1. w \in Nat \ {0} /\ q \in Nat /\ digit(n, r) \in 0..(Slots - 1)  BY DigitType
<1>2. CASE n % w = w - 1
  <2>1. (n + 1) \div w = q + 1  BY <1>1, <1>2, DivModNext
  <2>2. (q + 1) % Slots = ((q % Slots) + 1) % Slots
    <3> HIDE DEF q
    <3>1. Slots \in Nat \ {0} /\ q % Slots \in 0..(Slots - 1)
      BY <1>1, DivMod, WheelAssumption
    <3>2. CASE q % Slots = Slots - 1
      <4>1. (q + 1) % Slots = 0  BY <1>1, <3>1, <3>2, DivModNext
      <4>2. 0 \in 0..(Slots - 1) /\ (0 + Slots) % Slots = 0  BY <3>1, ModSmall
      <4>3. (q % Slots) + 1 = 0 + Slots  BY <3>1, <3>2
      <4>4. QED  BY <4>1, <4>2, <4>3
    <3>3. CASE q % Slots # Slots - 1
      <4>1. (q + 1) % Slots = (q % Slots) + 1  BY <1>1, <3>1, <3>3, DivModNext
      <4>2. (q % Slots) + 1 \in 0..(Slots - 1)  BY <3>1, <3>3
      <4>3. QED  BY <3>1, <4>1, <4>2, ModSmall
    <3>4. QED  BY <3>2, <3>3
  <2>3. QED  BY <1>2, <2>1, <2>2 DEF digit
<1>3. CASE n % w # w - 1
  <2>1. (n + 1) \div w = q  BY <1>1, <1>3, DivModNext
  <2>2. QED  BY <1>3, <2>1 DEF digit
<1>4. QED  BY <1>2, <1>3

-----------------------------------------------------------------------------
(***************************************************************************)
(* Slots.                                                                  *)
(***************************************************************************)

\* The turns of a ring until slot is current, when cur is.
Turns(cur, slot) == IF slot = cur THEN Slots ELSE (slot - cur) % Slots

\* The same without the remainder.
LEMMA TurnsLinear ==
    ASSUME NEW cur \in 0..(Slots - 1), NEW slot \in 0..(Slots - 1)
    PROVE  /\ Turns(cur, slot) = IF slot > cur THEN slot - cur ELSE slot - cur + Slots
           /\ Turns(cur, slot) \in 1..Slots
<1>0. Slots \in Nat \ {0, 1}  BY WheelAssumption
<1>1. CASE slot > cur
  <2>1. slot - cur \in 0..(Slots - 1)  BY <1>0, <1>1
  <2>2. (slot - cur) % Slots = slot - cur  BY <1>0, <2>1, ModSmall
  <2>3. QED  BY <1>0, <1>1, <2>2 DEF Turns
<1>2. CASE slot = cur
  BY <1>0, <1>2 DEF Turns
<1>3. CASE slot < cur
  <2>1. slot - cur + Slots \in 0..(Slots - 1)  BY <1>0, <1>3
  <2>2. ((slot - cur + Slots) - Slots) % Slots = slot - cur + Slots
    BY <1>0, <2>1, ModSmall
  <2>3. (slot - cur + Slots) - Slots = slot - cur  BY <1>0
  <2>4. (slot - cur) % Slots = slot - cur + Slots  BY <2>2, <2>3
  <2>5. QED  BY <1>0, <1>3, <2>4 DEF Turns
<1>4. QED  BY <1>0, <1>1, <1>2, <1>3

\* The slot after cur.
LEMMA NextSlot ==
    ASSUME NEW cur \in 0..(Slots - 1)
    PROVE  /\ (cur + 1) % Slots = IF cur = Slots - 1 THEN 0 ELSE cur + 1
           /\ (cur + 1) % Slots \in 0..(Slots - 1)
<1>0. Slots \in Nat \ {0, 1}  BY WheelAssumption
<1>1. CASE cur = Slots - 1
  <2>1. cur + 1 = 0 + Slots /\ 0 \in 0..(Slots - 1)  BY <1>0, <1>1
  <2>2. QED  BY <1>0, <1>1, <2>1, ModSmall
<1>2. CASE cur # Slots - 1
  <2>1. cur + 1 \in 0..(Slots - 1)  BY <1>0, <1>2
  <2>2. QED  BY <1>0, <1>2, <2>1, ModSmall
<1>3. QED  BY <1>1, <1>2

\* A slot d turns ahead.
LEMMA TurnsAhead ==
    ASSUME NEW cur \in 0..(Slots - 1), NEW d \in 1..(Slots - 1)
    PROVE  /\ (cur + d) % Slots \in 0..(Slots - 1)
           /\ Turns(cur, (cur + d) % Slots) = d
<1>0. Slots \in Nat \ {0, 1}  BY WheelAssumption
<1>1. CASE cur + d < Slots
  <2>1. cur + d \in 0..(Slots - 1)  BY <1>0, <1>1
  <2>2. (cur + d) % Slots = cur + d  BY <1>0, <2>1, ModSmall
  <2>3. Turns(cur, cur + d) = d  BY <1>0, <2>1, TurnsLinear
  <2>4. QED  BY <2>1, <2>2, <2>3
<1>2. CASE cur + d >= Slots
  <2>1. cur + d - Slots \in 0..(Slots - 1)  BY <1>0, <1>2
  <2>2. ((cur + d - Slots) + Slots) % Slots = cur + d - Slots
    BY <1>0, <2>1, ModSmall
  <2>3. (cur + d - Slots) + Slots = cur + d  BY <1>0
  <2>4. Turns(cur, cur + d - Slots) = d  BY <1>0, <2>1, TurnsLinear
  <2>5. QED  BY <2>1, <2>2, <2>3, <2>4
<1>3. QED  BY <1>0, <1>1, <1>2

\* One turn brings a slot one turn nearer, or makes it current.
LEMMA TurnsNext ==
    ASSUME NEW cur \in 0..(Slots - 1), NEW slot \in 0..(Slots - 1)
    PROVE  LET next == (cur + 1) % Slots
           IN  /\ slot = next <=> Turns(cur, slot) = 1
               /\ slot # next => Turns(next, slot) = Turns(cur, slot) - 1
<1>0. Slots \in Nat \ {0, 1}  BY WheelAssumption
<1> DEFINE next == (cur + 1) % Slots
<1>1. next = (IF cur = Slots - 1 THEN 0 ELSE cur + 1) /\ next \in 0..(Slots - 1)
  BY NextSlot
<1>2. Turns(cur, slot) = IF slot > cur THEN slot - cur ELSE slot - cur + Slots
  BY TurnsLinear
<1> HIDE DEF next
<1>3. Turns(next, slot) = IF slot > next THEN slot - next ELSE slot - next + Slots
  BY <1>1, TurnsLinear
<1>4. slot = next <=> Turns(cur, slot) = 1  BY <1>0, <1>1, <1>2
<1>5. slot # next => Turns(next, slot) = Turns(cur, slot) - 1
  BY <1>0, <1>1, <1>2, <1>3
<1>6. QED  BY <1>4, <1>5 DEF next

\* A number with no digit above the lowest is that digit.
LEMMA OneDigit ==
    ASSUME NEW left \in 0..MaxLife, \A i \in 1..RingMax : digit(left, i) = 0
    PROVE  digit(left, 0) = left
<1> DEFINE S == {k \in 0..Rings : k = 0 \/ left % weight[k] = digit(left, 0)}
<1>0. /\ Rings \in Nat \ {0} /\ 0 \in 0..Rings /\ left \in Nat
      /\ weight[Rings] \in Nat \ {0} /\ left \in 0..(weight[Rings] - 1)
  BY WheelAssumption, WeightDef DEF MaxLife
<1>1. 0 \in S  BY <1>0
<1>2. ASSUME NEW k \in 0..(Rings - 1), k \in S  PROVE k + 1 \in S
  <2>1. k \in RingId /\ k + 1 \in 0..Rings  BY <1>0 DEF RingId
  <2>2. left % weight[k + 1] = weight[k] * digit(left, k) + (left % weight[k])
    BY <1>0, <2>1, DigitSum
  <2>3. CASE k = 0
    <3>1. weight[0] = 1 /\ left % 1 = 0 /\ digit(left, 0) \in Int
      BY <1>0, <2>1, <2>3, WeightDef, DigitType
    <3>2. left % weight[k + 1] = digit(left, 0)  BY <2>2, <2>3, <3>1
    <3>3. QED  BY <2>1, <3>2
  <2>4. CASE k # 0
    <3>1. k \in 1..RingMax  BY <1>0, <2>4 DEF RingMax
    <3>2. digit(left, k) = 0  BY <3>1
    <3>3. left % weight[k] = digit(left, 0)  BY <1>2, <2>4
    <3>4. weight[k] \in Nat \ {0} /\ digit(left, 0) \in Int
      BY <1>0, <2>1, DigitType DEF RingId
    <3>5. left % weight[k + 1] = digit(left, 0)  BY <2>2, <3>2, <3>3, <3>4
    <3>6. QED  BY <2>1, <3>5
  <2>5. QED  BY <2>3, <2>4
<1>3. Rings \in S
  <2> HIDE DEF S
  <2>1. \A k \in 0..Rings : k \in S  BY <1>0, <1>1, <1>2, Induction
  <2>2. QED  BY <1>0, <2>1
<1>4. left % weight[Rings] = left  BY <1>0, ModSmall
<1>5. QED  BY <1>0, <1>3, <1>4

\* tm_find_ring names a slot.
LEMMA FindRingType ==
    ASSUME NEW left \in Nat, NEW cur \in [RingId -> 0..(Slots - 1)]
    PROVE  /\ tm_find_ring(left, cur).ring \in RingId
           /\ tm_find_ring(left, cur).slot \in 0..(Slots - 1)
<1> DEFINE high == {i \in 1..RingMax : digit(left, i) # 0}
           idx == IF high = {} THEN 0 ELSE CHOOSE i \in high : \A j \in high : i >= j
<1>0. Slots \in Nat \ {0, 1} /\ Rings \in Nat \ {0}  BY WheelAssumption
<1>1. idx \in RingId
  <2>1. CASE high = {}  BY <1>0, <2>1 DEF RingId
  <2>2. CASE high # {}
    <3>1. high \subseteq 0..RingMax /\ RingMax \in Nat  BY <1>0 DEF RingMax
    <3>2. \E m \in high : \A k \in high : m >= k
      <4> HIDE DEF high
      <4>1. QED  BY <2>2, <3>1, Greatest
    <3>3. idx \in high  BY <2>2, <3>2
    <3>4. QED  BY <3>1, <3>3 DEF RingMax, RingId
  <2>3. QED  BY <2>1, <2>2
<1>2. digit(left, idx) \in 0..(Slots - 1)
  <2> HIDE DEF idx
  <2>1. QED  BY <1>1, DigitType
<1>3. cur[idx] \in 0..(Slots - 1)
  <2> HIDE DEF idx
  <2>1. QED  BY <1>1
<1>4. (cur[idx] + digit(left, idx)) % Slots \in 0..(Slots - 1)
  <2> HIDE DEF idx
  <2>1. cur[idx] + digit(left, idx) \in Nat  BY <1>0, <1>2, <1>3
  <2>2. QED  BY <1>0, <2>1, DivMod
<1>5. tm_find_ring(left, cur) =
        [ring |-> idx, slot |-> (cur[idx] + digit(left, idx)) % Slots]
  BY DEF tm_find_ring
<1> HIDE DEF idx
<1>6. QED  BY <1>1, <1>4, <1>5

\* tm_find_ring looks ahead in some ring, at most by the time left, and by
\* exactly that time in ring 0.
LEMMA FindRing ==
    ASSUME NEW left \in 1..MaxLife, NEW cur \in [RingId -> 0..(Slots - 1)]
    PROVE  \E i \in RingId, d \in 1..(Slots - 1) :
             /\ tm_find_ring(left, cur) = [ring |-> i, slot |-> (cur[i] + d) % Slots]
             /\ weight[i] * d <= left
             /\ i = 0 => d = left
<1> DEFINE high == {i \in 1..RingMax : digit(left, i) # 0}
           idx == IF high = {} THEN 0 ELSE CHOOSE i \in high : \A j \in high : i >= j
           d == digit(left, idx)
<1>0. Slots \in Nat \ {0, 1} /\ Rings \in Nat \ {0}  BY WheelAssumption
<1>1. left \in Nat \ {0} /\ left \in 0..MaxLife  BY WeightDef, WheelAssumption DEF MaxLife
<1>2. tm_find_ring(left, cur) = [ring |-> idx, slot |-> (cur[idx] + d) % Slots]
  BY DEF tm_find_ring
<1>3. CASE high = {}
  <2>1. idx = 0 /\ 0 \in RingId  BY <1>0, <1>3 DEF RingId
  <2>2. \A i \in 1..RingMax : digit(left, i) = 0  BY <1>3
  <2>3. d = left  BY <1>1, <2>1, <2>2, OneDigit
  <2>4. d \in 1..(Slots - 1)
    <3>1. digit(left, 0) \in 0..(Slots - 1)  BY <1>1, <2>1, DigitType
    <3>2. digit(left, 0) = left  BY <2>1, <2>3
    <3>3. QED  BY <1>0, <1>1, <2>3, <3>1, <3>2
  <2>5. weight[0] * d <= left  BY <1>1, <2>3, WeightDef
  <2> HIDE DEF idx, d
  <2>6. QED  BY <1>2, <2>1, <2>3, <2>4, <2>5
<1>4. CASE high # {}
  <2>1. high \subseteq 0..RingMax /\ RingMax \in Nat  BY <1>0 DEF RingMax
  <2>2. \E m \in high : \A k \in high : m >= k
    <3> HIDE DEF high
    <3>1. QED  BY <1>4, <2>1, Greatest
  <2>3. idx \in high  BY <1>4, <2>2
  <2>4. idx \in RingId /\ idx # 0
    <3>1. \A i \in high : i \in RingId /\ i # 0  BY <1>0 DEF RingMax, RingId
    <3> HIDE DEF idx, high
    <3>2. QED  BY <2>3, <3>1
  <2>5. d # 0  BY <2>3
  <2> HIDE DEF idx, high
  <2>6. d \in 1..(Slots - 1)
    <3>1. d \in 0..(Slots - 1)  BY <1>1, <2>4, DigitType
    <3>2. QED  BY <1>0, <2>5, <3>1
  <2>7. weight[idx] * d <= left
    <3> DEFINE w == weight[idx]
               q == left \div w
               h == q \div Slots
    <3>1. w \in Nat \ {0} /\ q \in Nat  BY <1>1, <2>4, DigitType
    <3>2. left % w \in Nat /\ left = w * q + (left % w)
      <4> HIDE DEF w
      <4>1. left \in Nat /\ w \in Nat \ {0}  BY <1>1, <3>1
      <4>2. left % w \in 0..(w - 1) /\ left = w * (left \div w) + (left % w)
        BY <4>1, DivMod
      <4>3. QED  BY <4>1, <4>2
    <3>3. h \in Nat /\ q = Slots * h + d  BY <1>0, <3>1, DivMod DEF digit
    <3> HIDE DEF w, q, h, d
    <3>4. Slots * h \in Nat  BY <1>0, <3>3
    <3>5. d <= q  BY <1>0, <2>6, <3>1, <3>3, <3>4
    <3>6. w * d <= w * q  BY <1>0, <2>6, <3>1, <3>5, Times
    <3>7. w * q \in Int /\ w * d \in Int  BY <1>0, <2>6, <3>1
    <3>8. QED  BY <1>1, <3>2, <3>6, <3>7 DEF w
  <2> HIDE DEF d
  <2>8. QED  BY <1>2, <2>4, <2>6, <2>7
<1>5. QED  BY <1>3, <1>4

-----------------------------------------------------------------------------
(***************************************************************************)
(* Timers in their slots.                                                  *)
(***************************************************************************)

\* The current slot of every ring.
Currents == [RingId -> 0..(Slots - 1)]

\* The fields that os_tm_insert and os_tm_change set.
Sound(nd, now) == nd.create <= now /\ nd.expires <= MaxLife

\* The ticks until the slot of nd is triggered.  A ring of late is going to
\* turn in this very tick.
Comes(nd, now, cur, late) ==
    IF nd.ring \in late
    THEN weight[nd.ring] * (Turns(cur[nd.ring], nd.slot) - 1)
    ELSE weight[nd.ring] * Turns(cur[nd.ring], nd.slot) - (now % weight[nd.ring])

\* The slot of nd comes up in time.
InTime(nd, now, cur, late) ==
    /\ Comes(nd, now, cur, late) <= tm_left(nd, now)
    /\ nd.ring = 0 => Comes(nd, now, cur, late) = tm_left(nd, now)

\* The bound of MaxLife.
LEMMA MaxLifeType == MaxLife \in Nat /\ weight[Rings] \in Nat \ {0}
BY WeightDef, WheelAssumption DEF MaxLife

\* The time left is a number that does not exceed the time set.
LEMMA LeftType ==
    ASSUME NEW nd \in Node, NEW now \in Nat
    PROVE  /\ tm_left(nd, now) \in Nat
           /\ Sound(nd, now) => tm_left(nd, now) <= MaxLife
<1>1. nd.create \in Nat /\ nd.expires \in Nat  BY DEF Node
<1>2. QED  BY <1>1, MaxLifeType DEF tm_left, Sound

\* What tm_insert changes, and what it does not.
LEMMA InsertKeeps ==
    ASSUME NEW nd \in Node, NEW now \in Nat, NEW cur \in Currents
    PROVE  LET new == tm_insert(nd, now, cur)
               place == tm_find_ring(tm_left(nd, now), cur)
           IN  /\ new \in Node
               /\ new.pending /\ new.cycle = nd.cycle
               /\ new.create = nd.create /\ new.expires = nd.expires
               /\ new.ring = place.ring /\ new.slot = place.slot
               /\ tm_left(new, now) = tm_left(nd, now)
<1> DEFINE place == tm_find_ring(tm_left(nd, now), cur)
<1>1. tm_left(nd, now) \in Nat  BY LeftType
<1>2. place.ring \in RingId /\ place.slot \in 0..(Slots - 1)
  BY <1>1, FindRingType DEF Currents
<1>3. tm_insert(nd, now, cur) =
        [nd EXCEPT !.pending = TRUE, !.ring = place.ring, !.slot = place.slot]
  BY DEF tm_insert
<1> HIDE DEF place
<1>4. tm_insert(nd, now, cur) \in Node  BY <1>2, <1>3 DEF Node
<1>5. /\ tm_insert(nd, now, cur).pending
      /\ tm_insert(nd, now, cur).cycle = nd.cycle
      /\ tm_insert(nd, now, cur).create = nd.create
      /\ tm_insert(nd, now, cur).expires = nd.expires
      /\ tm_insert(nd, now, cur).ring = place.ring
      /\ tm_insert(nd, now, cur).slot = place.slot
  BY <1>3 DEF Node
<1>6. tm_left(tm_insert(nd, now, cur), now) = tm_left(nd, now)
  BY <1>5 DEF tm_left
<1>7. QED  BY <1>4, <1>5, <1>6 DEF place

\* A timer that is hung now comes up in time, also when rings above 0 are
\* still to turn in this tick.
LEMMA InTimeHang ==
    ASSUME NEW nd \in Node, NEW now \in Nat, NEW cur \in Currents, NEW late,
           Sound(nd, now), tm_left(nd, now) > 0, 0 \notin late,
           \A q \in late : now % weight[q] = 0
    PROVE  InTime(tm_insert(nd, now, cur), now, cur, late)
<1> DEFINE left == tm_left(nd, now)
           new == tm_insert(nd, now, cur)
<1>1. left \in 1..MaxLife  BY LeftType, MaxLifeType
<1>2. PICK i \in RingId, d \in 1..(Slots - 1) :
        /\ tm_find_ring(left, cur) = [ring |-> i, slot |-> (cur[i] + d) % Slots]
        /\ weight[i] * d <= left
        /\ i = 0 => d = left
  <2> HIDE DEF left
  <2>1. QED  BY <1>1, FindRing DEF Currents
<1>3. new.ring = i /\ new.slot = (cur[i] + d) % Slots /\ tm_left(new, now) = left
  BY <1>2, InsertKeeps
<1>4. cur[i] \in 0..(Slots - 1)  BY DEF Currents
<1>5. Turns(cur[i], (cur[i] + d) % Slots) = d  BY <1>4, TurnsAhead
<1>6. weight[i] \in Nat \ {0} /\ now % weight[i] \in Nat
  <2>1. weight[i] \in Nat \ {0}  BY DigitType
  <2>2. now % weight[i] \in 0..(weight[i] - 1)  BY <2>1, DivMod
  <2>3. QED  BY <2>1, <2>2
<1> HIDE DEF left, new
<1>7. Slots \in Nat /\ d \in Nat \ {0} /\ left \in Nat  BY <1>1, WheelAssumption, MaxLifeType
<1>8. weight[i] * d \in Nat /\ weight[i] * (d - 1) = weight[i] * d - weight[i]
  BY <1>6, <1>7
<1>9. Comes(new, now, cur, late) = IF i \in late THEN weight[i] * (d - 1)
                                   ELSE weight[i] * d - (now % weight[i])
  BY <1>3, <1>5 DEF Comes
<1>10. Comes(new, now, cur, late) <= left
  BY <1>2, <1>6, <1>7, <1>8, <1>9
<1>11. ASSUME i = 0  PROVE Comes(new, now, cur, late) = left
  <2>1. weight[0] = 1 /\ now % 1 = 0  BY WeightDef
  <2>2. Comes(new, now, cur, late) = 1 * d - 0  BY <1>9, <1>11, <2>1
  <2>3. QED  BY <1>2, <1>7, <1>11, <2>2
<1>12. QED  BY <1>3, <1>10, <1>11 DEF InTime, new

\* The rings that tick n + 1 turns.
LateRings(n) == {q \in RingId : n % weight[q] = weight[q] - 1}

\* Ring 0 turns on every tick.
LEMMA RingZeroTurns ==
    ASSUME NEW n \in Nat  PROVE 0 \in LateRings(n)
<1>1. 0 \in RingId  BY WheelAssumption DEF RingId
<1>2. weight[0] = 1 /\ n % 1 = 0  BY WeightDef
<1>3. QED  BY <1>1, <1>2 DEF LateRings

\* When a tick begins, every timer with time left is in time for it; one
\* whose time is up hangs in the slot a ring is about to turn to.
LEMMA InTimeTick ==
    ASSUME NEW nd \in Node, NEW n \in Nat, NEW cur \in Currents,
           Sound(nd, n), tm_left(nd, n) > 0, InTime(nd, n, cur, {})
    PROVE  /\ Sound(nd, n + 1)
           /\ tm_left(nd, n + 1) = tm_left(nd, n) - 1
           /\ InTime(nd, n + 1, cur, LateRings(n))
           /\ tm_left(nd, n + 1) = 0 =>
                /\ nd.ring \in LateRings(n)
                /\ nd.slot = (cur[nd.ring] + 1) % Slots
<1> DEFINE r == nd.ring
           w == weight[r]
           k == Turns(cur[r], nd.slot)
           left == tm_left(nd, n)
<1>1. r \in RingId /\ nd.slot \in 0..(Slots - 1) /\ nd.create \in Nat /\ nd.expires \in Nat
  BY DEF Node
<1>2. cur[r] \in 0..(Slots - 1)  BY <1>1 DEF Currents
<1>3. k \in 1..Slots /\ Slots \in Nat  BY <1>1, <1>2, TurnsLinear, WheelAssumption
<1>4. w \in Nat \ {0} /\ n % w \in 0..(w - 1)
  <2>1. w \in Nat \ {0}  BY <1>1, DigitType
  <2>2. QED  BY <2>1, DivMod
<1>5. Sound(nd, n + 1)  BY <1>1 DEF Sound
<1>6. left \in Nat \ {0} /\ tm_left(nd, n + 1) = left - 1  BY <1>1 DEF tm_left
<1>7. (r = 0) => w = 1 /\ n % w = 0 /\ r \in LateRings(n)  BY WeightDef, RingZeroTurns
<1>8. Comes(nd, n, cur, {}) = w * k - (n % w)  BY DEF Comes
<1>9. w * k - (n % w) <= left /\ (r = 0 => w * k - (n % w) = left)
  BY <1>8 DEF InTime
<1>10. Comes(nd, n + 1, cur, LateRings(n)) =
         IF r \in LateRings(n) THEN w * (k - 1) ELSE w * k - ((n + 1) % w)
  BY DEF Comes
<1> HIDE DEF r, w, k, left
<1>11. w * k \in Nat /\ w * (k - 1) = w * k - w  BY <1>3, <1>4
<1>12. CASE r \in LateRings(n)
  <2>1. n % w = w - 1  BY <1>12 DEF LateRings, w
  <2>2. w * (k - 1) <= left - 1 /\ (r = 0 => w * (k - 1) = left - 1)
    BY <1>4, <1>6, <1>9, <1>11, <2>1
  <2>3. InTime(nd, n + 1, cur, LateRings(n))
    BY <1>6, <1>10, <1>12, <2>2 DEF InTime, r
  <2>4. ASSUME left - 1 = 0  PROVE nd.slot = (cur[r] + 1) % Slots
    <3>1. w * (k - 1) <= 0  BY <2>2, <2>4
    <3>2. k = 1  BY <3>1, <1>3, <1>4
    <3>3. QED  BY <3>2, <1>1, <1>2, TurnsNext DEF k
  <2>5. QED  BY <1>5, <1>6, <1>12, <2>3, <2>4 DEF r, left
<1>13. CASE r \notin LateRings(n)
  <2>1. n % w # w - 1  BY <1>1, <1>13 DEF LateRings, w
  <2>2. (n + 1) % w = (n % w) + 1  BY <1>4, <2>1, DivModNext
  <2>3. InTime(nd, n + 1, cur, LateRings(n))
    BY <1>4, <1>6, <1>7, <1>9, <1>10, <1>11, <1>13, <2>2 DEF InTime, r
  <2>4. left - 1 # 0
    <3>1. w * 1 <= w * k  BY <1>3, <1>4, Times
    <3>2. w * k - (n % w) >= 2  BY <1>3, <1>4, <1>11, <2>1, <3>1
    <3>3. QED  BY <1>4, <1>6, <1>9, <1>11, <3>2
  <2>5. QED  BY <1>5, <1>6, <2>3, <2>4 DEF left
<1>14. QED  BY <1>12, <1>13

\* Turning ring r keeps the timers in time that its new slot does not hold.
LEMMA InTimeTurn ==
    ASSUME NEW nd \in Node, NEW now \in Nat, NEW cur \in Currents, NEW late,
           NEW r \in RingId, r \in late, now % weight[r] = 0,
           InTime(nd, now, cur, late),
           ~ (nd.ring = r /\ nd.slot = (cur[r] + 1) % Slots)
    PROVE  InTime(nd, now, [cur EXCEPT ![r] = (cur[r] + 1) % Slots], late \ {r})
<1> DEFINE new == [cur EXCEPT ![r] = (cur[r] + 1) % Slots]
           w == weight[r]
           k == Turns(cur[r], nd.slot)
<1>1. nd.ring \in RingId /\ nd.slot \in 0..(Slots - 1) /\ cur[r] \in 0..(Slots - 1)
  BY DEF Node, Currents
<1>2. CASE nd.ring = r
  <2>1. new[r] = (cur[r] + 1) % Slots  BY DEF Currents
  <2>2. Turns(new[r], nd.slot) = k - 1  BY <1>1, <1>2, <2>1, TurnsNext
  <2>3. w \in Nat \ {0} /\ k \in 1..Slots /\ Slots \in Nat
    BY <1>1, DigitType, TurnsLinear, WheelAssumption
  <2>4. Comes(nd, now, cur, late) = w * (k - 1)  BY <1>2 DEF Comes
  <2>5. Comes(nd, now, new, late \ {r}) = w * (k - 1) - 0
    <3> HIDE DEF new, k
    <3>1. QED  BY <1>2, <2>2 DEF Comes
  <2> HIDE DEF w, k, new
  <2>6. w * (k - 1) - 0 = w * (k - 1)  BY <2>3
  <2>7. Comes(nd, now, new, late \ {r}) = Comes(nd, now, cur, late)
    BY <2>4, <2>5, <2>6
  <2>8. QED  BY <2>7 DEF InTime, new
<1>3. CASE nd.ring # r
  <2>1. new[nd.ring] = cur[nd.ring]  BY <1>1, <1>3 DEF Currents
  <2>2. nd.ring \in late \ {r} <=> nd.ring \in late  BY <1>3
  <2> HIDE DEF new
  <2>3. Comes(nd, now, new, late \ {r}) = Comes(nd, now, cur, late)
    BY <2>1, <2>2 DEF Comes
  <2>4. QED  BY <2>3 DEF InTime, new
<1>4. QED  BY <1>2, <1>3

-----------------------------------------------------------------------------
(***************************************************************************)
(* One tick.  tm_trigger takes the wheel through one state per ring.       *)
(***************************************************************************)

\* A wheel in the middle of a tick.
Wheel == [current : Currents, node : [Timers -> Node], fired : SUBSET Timers]

\* The wheel a tick begins with.
Start == [current |-> current, node |-> node, fired |-> {}]

\* What the callbacks of one-shot timers may ask for.
Again == [Timers -> After \cup {0}]

\* Timer t hangs in the slot ring r turns to.
Here(w, r, t) ==
    /\ w.node[t].pending
    /\ w.node[t].ring = r /\ w.node[t].slot = (w.current[r] + 1) % Slots

\* The currents once ring r has turned.
Turned(w, r) == [w.current EXCEPT ![r] = (w.current[r] + 1) % Slots]

\* Timer t after its callback.
Rerun(nd, now, cur, a) ==
    IF nd.cycle THEN tm_insert([nd EXCEPT !.create = now], now, cur)
    ELSE IF a # 0
         THEN tm_insert([nd EXCEPT !.create = now, !.expires = a], now, cur)
         ELSE [nd EXCEPT !.pending = FALSE]

\* The arguments of os_tm_insert are below the bound.
LEMMA AfterBound == \A a \in After : a \in Nat \ {0} /\ a <= MaxLife
<1>1. weight[Rings] \in Nat \ {0}  BY MaxLifeType
<1>2. weight[Rings] \div 2 \in Nat /\ weight[Rings] \div 2 <= weight[Rings]  BY <1>1
<1>3. ASSUME NEW a \in After  PROVE a \in Nat \ {0} /\ a <= MaxLife
  <2>1. a \in 1..(weight[Rings] \div 2 - 1)  BY AfterAssumption
  <2>2. QED  BY <1>1, <1>2, <2>1 DEF MaxLife
<1>4. QED  BY <1>3

\* The currents stay currents.
LEMMA TurnedType ==
    ASSUME NEW w \in Wheel, NEW r \in RingId
    PROVE  /\ Turned(w, r) \in Currents
           /\ Turned(w, r)[r] = (w.current[r] + 1) % Slots
<1>1. w.current \in Currents  BY DEF Wheel
<1>2. w.current[r] \in 0..(Slots - 1)  BY <1>1 DEF Currents
<1>3. (w.current[r] + 1) % Slots \in 0..(Slots - 1)  BY <1>2, NextSlot
<1>4. QED  BY <1>1, <1>3 DEF Turned, Currents

\* A node that has run is a node, sound, and keeps its kind.
LEMMA RerunType ==
    ASSUME NEW nd \in Node, NEW now \in Nat, NEW cur \in Currents,
           NEW a \in After \cup {0}, Sound(nd, now)
    PROVE  LET new == Rerun(nd, now, cur, a)
           IN  /\ new \in Node /\ Sound(new, now) /\ new.cycle = nd.cycle
               /\ nd.cycle => /\ new.pending /\ new.create = now
                              /\ new.expires = nd.expires
               /\ ~nd.cycle /\ a # 0 => /\ new.pending /\ new.create = now
                                        /\ new.expires = a
               /\ ~nd.cycle /\ a = 0 => ~new.pending
<1>1. a \in Nat /\ a <= MaxLife  BY AfterBound, MaxLifeType
<1>2. nd.create <= now /\ nd.expires <= MaxLife  BY DEF Sound
<1>3. CASE nd.cycle
  <2> DEFINE nd1 == [nd EXCEPT !.create = now]
  <2>1. nd1 \in Node /\ nd1.create = now /\ nd1.expires = nd.expires /\ nd1.cycle = nd.cycle
    BY DEF Node
  <2>2. Rerun(nd, now, cur, a) = tm_insert(nd1, now, cur)  BY <1>3 DEF Rerun
  <2> DEFINE new == tm_insert(nd1, now, cur)
  <2> HIDE DEF nd1
  <2>3. /\ new \in Node /\ new.pending /\ new.cycle = nd.cycle
        /\ new.create = now /\ new.expires = nd.expires
    BY <2>1, InsertKeeps
  <2>4. Sound(new, now)  BY <1>2, <2>3 DEF Sound
  <2> HIDE DEF new
  <2>5. QED  BY <1>3, <2>2, <2>3, <2>4 DEF new
<1>4. CASE ~nd.cycle /\ a # 0
  <2> DEFINE nd1 == [nd EXCEPT !.create = now, !.expires = a]
  <2>1. nd1 \in Node /\ nd1.create = now /\ nd1.expires = a /\ nd1.cycle = nd.cycle
    BY <1>1 DEF Node
  <2>2. Rerun(nd, now, cur, a) = tm_insert(nd1, now, cur)  BY <1>4 DEF Rerun
  <2> HIDE DEF nd1
  <2>3. QED  BY <1>1, <1>4, <2>1, <2>2, InsertKeeps DEF Sound
<1>5. CASE ~nd.cycle /\ a = 0
  <2>1. Rerun(nd, now, cur, a) = [nd EXCEPT !.pending = FALSE]  BY <1>5 DEF Rerun
  <2> DEFINE new == [nd EXCEPT !.pending = FALSE]
  <2>2. /\ new \in Node /\ ~new.pending /\ new.cycle = nd.cycle
        /\ new.create = nd.create /\ new.expires = nd.expires
    BY DEF Node
  <2>3. Sound(new, now)  BY <1>2, <2>2 DEF Sound
  <2> HIDE DEF new
  <2>4. QED  BY <1>5, <2>1, <2>2, <2>3 DEF new
<1>6. QED  BY <1>3, <1>4, <1>5

\* The timers that fire, and each timer's node, when ring r turns.
Out(w, r, now) == {t \in Timers : Here(w, r, t) /\ tm_left(w.node[t], now) = 0}
NewNode(w, r, now, again, t) ==
    IF t \in Out(w, r, now) THEN Rerun(w.node[t], now, Turned(w, r), again[t])
    ELSE IF Here(w, r, t) THEN tm_insert(w.node[t], now, Turned(w, r))
    ELSE w.node[t]

\* What turning ring r does to the wheel, timer by timer.
LEMMA TurnIs ==
    ASSUME NEW w \in Wheel, NEW r \in RingId, NEW now \in Nat, NEW again \in Again
    PROVE  turn(w, r, now, again) =
             [current |-> Turned(w, r),
              node |-> [t \in Timers |-> NewNode(w, r, now, again, t)],
              fired |-> w.fired \cup Out(w, r, now)]
<1> DEFINE cur == Turned(w, r)
           u == [w EXCEPT !.current[r] = (@ + 1) % Slots]
           here == {t \in Timers : Here(w, r, t)}
           out == Out(w, r, now)
           nodes == [t \in Timers |->
                       IF t \in out THEN Rerun(w.node[t], now, cur, again[t])
                       ELSE IF t \in here THEN tm_insert(w.node[t], now, cur)
                       ELSE w.node[t]]
<1>1. w = [current |-> w.current, node |-> w.node, fired |-> w.fired]
  BY DEF Wheel
<1>2. u = [current |-> cur, node |-> w.node, fired |-> w.fired]
  BY <1>1 DEF Turned, Wheel
<1>3. cur[r] = (w.current[r] + 1) % Slots  BY TurnedType
<1> HIDE DEF cur, u
<1>4. u.current = cur /\ u.node = w.node /\ u.fired = w.fired  BY <1>2
<1>5. {t \in Timers : u.node[t].pending /\ u.node[t].ring = r /\ u.node[t].slot = u.current[r]}
        = here
  BY <1>3, <1>4 DEF Here
<1>6. {t \in here : tm_left(u.node[t], now) = 0} = out  BY <1>4 DEF Out
<1>7. turn(w, r, now, again) = tm_ring_trigger(u, r, now, again)  BY DEF turn, u
<1>8. tm_ring_trigger(u, r, now, again) =
        [u EXCEPT !.fired = u.fired \cup out, !.node = nodes]
  BY <1>4, <1>5, <1>6, Zenon DEF tm_ring_trigger, Rerun
<1>9. turn(w, r, now, again) = [current |-> cur, node |-> nodes, fired |-> w.fired \cup out]
  BY <1>2, <1>4, <1>7, <1>8
<1>10. nodes = [t \in Timers |-> NewNode(w, r, now, again, t)]
  BY DEF NewNode, cur
<1>11. QED  BY <1>9, <1>10 DEF cur

\* Turning a ring of a sound wheel gives a wheel.
LEMMA TurnType ==
    ASSUME NEW w \in Wheel, NEW r \in RingId, NEW now \in Nat, NEW again \in Again
    PROVE  turn(w, r, now, again) \in Wheel
<1> DEFINE cur == Turned(w, r)
<1>1. cur \in Currents  BY TurnedType
<1>2. w.node \in [Timers -> Node] /\ w.fired \in SUBSET Timers  BY DEF Wheel
<1>3. \A t \in Timers : again[t] \in Nat  BY AfterBound DEF Again
<1>4. ASSUME NEW t \in Timers  PROVE NewNode(w, r, now, again, t) \in Node
  <2> DEFINE nd == w.node[t]
  <2>1. nd \in Node /\ again[t] \in Nat  BY <1>2, <1>3
  <2> HIDE DEF nd, cur
  <2>2. tm_insert(nd, now, cur) \in Node  BY <1>1, <2>1, InsertKeeps
  <2>3. Rerun(nd, now, cur, again[t]) \in Node
    <3>1. [nd EXCEPT !.create = now] \in Node  BY <2>1 DEF Node
    <3>2. [nd EXCEPT !.create = now, !.expires = again[t]] \in Node
      BY <2>1 DEF Node
    <3>3. [nd EXCEPT !.pending = FALSE] \in Node  BY <2>1 DEF Node
    <3>4. tm_insert([nd EXCEPT !.create = now], now, cur) \in Node
      BY <1>1, <3>1, InsertKeeps
    <3>5. tm_insert([nd EXCEPT !.create = now, !.expires = again[t]], now, cur) \in Node
      BY <1>1, <3>2, InsertKeeps
    <3>6. QED  BY <3>3, <3>4, <3>5, Zenon DEF Rerun
  <2>4. QED  BY <2>1, <2>2, <2>3 DEF NewNode, nd, cur
<1>5. Out(w, r, now) \subseteq Timers  BY DEF Out
<1>6. QED  BY <1>1, <1>2, <1>4, <1>5, TurnIs DEF Wheel

\* The wheels of one tick: w[r] is the wheel when the rings below r have had
\* their turn.
Round(w, now, again) ==
    /\ w \in [0..Rings -> Wheel]
    /\ w[0] = Start
    /\ \A r \in RingId : w[r + 1] = IF r \in carry THEN turn(w[r], r, now, again) ELSE w[r]

\* tm_trigger goes through them.
LEMMA TriggerIs ==
    ASSUME TypeOK, NEW now \in Nat, NEW again \in Again
    PROVE  \E w : Round(w, now, again) /\ tm_trigger(now, again) = w[Rings]
<1> DEFINE f == [r \in 0..(Rings - 1) |-> [x \in Wheel |->
                   IF r \in carry THEN turn(x, r, now, again) ELSE x]]
           Rec(g) == g = [r \in 0..Rings |->
                            IF r = 0 THEN Start
                            ELSE IF r - 1 \in carry THEN turn(g[r - 1], r - 1, now, again)
                            ELSE g[r - 1]]
<1>0. Rings \in Nat \ {0}  BY WheelAssumption
<1>1. Start \in Wheel  BY DEF TypeOK, Start, Wheel, Currents
<1>2. f \in Steps(Wheel, Rings)
  <2>1. ASSUME NEW r \in 0..(Rings - 1), NEW x \in Wheel
        PROVE  (IF r \in carry THEN turn(x, r, now, again) ELSE x) \in Wheel
    BY TurnType DEF RingId
  <2>2. QED  BY <2>1 DEF Steps
<1>3. PICK g : Iterate(g, Wheel, Rings, Start, f)
  <2> HIDE DEF f
  <2>1. QED  BY <1>0, <1>1, <1>2, Iterates
<1>4. g \in [0..Rings -> Wheel] /\ g[0] = Start  BY <1>3 DEF Iterate
<1>5. ASSUME NEW r \in 0..(Rings - 1)
      PROVE  g[r + 1] = IF r \in carry THEN turn(g[r], r, now, again) ELSE g[r]
  <2>1. g[r] \in Wheel  BY <1>0, <1>4
  <2>2. g[r + 1] = f[r][g[r]]  BY <1>3 DEF Iterate
  <2>3. f[r][g[r]] = IF r \in carry THEN turn(g[r], r, now, again) ELSE g[r]  BY <2>1
  <2>4. QED  BY <2>2, <2>3
<1>6. Rec(g)
  <2>1. ASSUME NEW r \in 0..Rings
        PROVE  g[r] = IF r = 0 THEN Start
                      ELSE IF r - 1 \in carry THEN turn(g[r - 1], r - 1, now, again)
                      ELSE g[r - 1]
    <3>1. CASE r = 0  BY <1>4, <3>1
    <3>2. CASE r # 0
      <4>1. r - 1 \in 0..(Rings - 1) /\ (r - 1) + 1 = r  BY <1>0, <3>2
      <4>2. QED  BY <1>5, <3>2, <4>1
    <3>3. QED  BY <3>1, <3>2
  <2>2. QED  BY <1>4, <2>1
<1> DEFINE h == CHOOSE x : Rec(x)
<1>7. Rec(h)  BY <1>6
<1>8. tm_trigger(now, again) = h[Rings]  BY DEF tm_trigger, Start
<1> HIDE DEF h
<1>9. h[0] = Start  BY <1>0, <1>7
<1>10. ASSUME NEW r \in RingId
       PROVE  h[r + 1] = IF r \in carry THEN turn(h[r], r, now, again) ELSE h[r]
  <2>1. r + 1 \in 0..Rings /\ r + 1 # 0 /\ (r + 1) - 1 = r  BY <1>0 DEF RingId
  <2>2. QED  BY <1>7, <2>1
<1>11. \A r \in 0..Rings : h[r] \in Wheel
  <2> DEFINE S == {r \in 0..Rings : h[r] \in Wheel}
  <2>1. 0 \in S  BY <1>0, <1>1, <1>9
  <2>2. ASSUME NEW r \in 0..(Rings - 1), r \in S  PROVE r + 1 \in S
    <3>1. r \in RingId /\ r + 1 \in 0..Rings  BY <1>0 DEF RingId
    <3>2. turn(h[r], r, now, again) \in Wheel  BY <2>2, <3>1, TurnType
    <3>3. h[r + 1] \in Wheel  BY <1>10, <2>2, <3>1, <3>2
    <3>4. QED  BY <3>1, <3>3
  <2>3. \A r \in 0..Rings : r \in S
    <3> HIDE DEF S
    <3>1. QED  BY <1>0, <2>1, <2>2, Induction
  <2>4. QED  BY <2>3
<1>12. h = [r \in 0..Rings |-> h[r]]  BY <1>7
<1>13. h \in [0..Rings -> Wheel]
  <2> HIDE DEF Rec
  <2>1. QED  BY <1>11, <1>12
<1> HIDE DEF Rec
<1>14. Round(h, now, again)  BY <1>9, <1>10, <1>13 DEF Round
<1>15. QED  BY <1>8, <1>14

-----------------------------------------------------------------------------
(***************************************************************************)
(* The invariant.                                                          *)
(***************************************************************************)

\* Every node is sound, and every pending timer with time left is in time.
NodesInTime(nodes, now, cur, late) ==
    \A t \in Timers :
        /\ Sound(nodes[t], now)
        /\ nodes[t].pending /\ tm_left(nodes[t], now) > 0 =>
             InTime(nodes[t], now, cur, late)

WheelInv ==
    /\ TypeOK
    /\ RingsCountTicks
    /\ NodesInTime(node, ticks, current, {})

\* The rings of this tick that still have to turn when those below r have.
Late(r) == {q \in carry : q >= r}

\* The invariant in the middle of a tick.
Mid(w, r, now) ==
    /\ w.current = [q \in RingId |-> IF q \in carry /\ q < r
                                     THEN (current[q] + 1) % Slots ELSE current[q]]
    /\ NodesInTime(w.node, now, w.current, Late(r))

\* The rings that carry are those whose weight divides the next tick.
LEMMA CarryIs ==
    ASSUME TypeOK, RingsCountTicks
    PROVE  carry = LateRings(ticks) /\ \A q \in carry : (ticks + 1) % weight[q] = 0
<1>0. ticks \in Nat /\ Rings \in Nat  BY WheelAssumption DEF TypeOK
<1>1. ASSUME NEW r \in RingId  PROVE r \in carry <=> r \in LateRings(ticks)
  <2>1. r \in 0..Rings /\ \A q \in 0..(r - 1) : q \in RingId  BY <1>0 DEF RingId
  <2>2. \A q \in 0..(r - 1) : current[q] = digit(ticks, q)  BY <2>1 DEF RingsCountTicks
  <2>3. (\A q \in 0..(r - 1) : digit(ticks, q) = Slots - 1)
          <=> ticks % weight[r] = weight[r] - 1
    BY <1>0, <2>1, CarryDigits
  <2>4. QED  BY <2>2, <2>3 DEF carry, LateRings
<1>2. carry = LateRings(ticks)  BY <1>1 DEF carry, LateRings
<1>3. ASSUME NEW q \in carry  PROVE (ticks + 1) % weight[q] = 0
  <2>1. q \in RingId /\ ticks % weight[q] = weight[q] - 1  BY <1>2 DEF LateRings
  <2>2. weight[q] \in Nat \ {0}  BY <1>0, <2>1, DigitType
  <2>3. QED  BY <1>0, <2>1, <2>2, DivModNext
<1>4. QED  BY <1>2, <1>3

\* The tick begins within the invariant.
LEMMA MidStart ==
    ASSUME WheelInv  PROVE Mid(Start, 0, ticks + 1)
<1>0. TypeOK /\ RingsCountTicks /\ ticks \in Nat /\ current \in Currents
  BY DEF WheelInv, TypeOK, Currents
<1>1. carry \subseteq RingId /\ carry = LateRings(ticks)  BY <1>0, CarryIs DEF carry
<1>2. Late(0) = carry  BY <1>1 DEF Late, RingId
<1>3. Start.current = [q \in RingId |-> IF q \in carry /\ q < 0
                                        THEN (current[q] + 1) % Slots ELSE current[q]]
  BY <1>0 DEF Start, Currents, RingId
<1>4. ASSUME NEW t \in Timers
      PROVE  /\ Sound(node[t], ticks + 1)
             /\ node[t].pending /\ tm_left(node[t], ticks + 1) > 0 =>
                  InTime(node[t], ticks + 1, current, carry)
  <2>1. node[t] \in Node /\ Sound(node[t], ticks)
    BY DEF WheelInv, TypeOK, NodesInTime
  <2>2. node[t].create \in Nat /\ node[t].expires \in Nat  BY <2>1 DEF Node
  <2>3. Sound(node[t], ticks + 1)  BY <1>0, <2>1, <2>2 DEF Sound
  <2>4. ASSUME node[t].pending, tm_left(node[t], ticks + 1) > 0
        PROVE  InTime(node[t], ticks + 1, current, carry)
    <3>1. tm_left(node[t], ticks) > 0  BY <1>0, <2>2, <2>4 DEF tm_left
    <3>2. InTime(node[t], ticks, current, {})
      BY <2>4, <3>1 DEF WheelInv, NodesInTime
    <3>3. QED  BY <1>0, <1>1, <2>1, <3>1, <3>2, InTimeTick
  <2>5. QED  BY <2>3, <2>4
<1>5. NodesInTime(Start.node, ticks + 1, Start.current, Late(0))
  BY <1>2, <1>4 DEF NodesInTime, Start
<1>6. QED  BY <1>3, <1>5 DEF Mid

\* A ring that does not turn changes nothing.
LEMMA MidSkip ==
    ASSUME NEW w \in Wheel, NEW r \in RingId, r \notin carry, NEW now, Mid(w, r, now)
    PROVE  Mid(w, r + 1, now)
<1>0. carry \subseteq Nat /\ r \in Nat  BY DEF carry, RingId
<1>1. Late(r + 1) = Late(r)
  <2>1. \A q \in carry : q >= r + 1 <=> q >= r  BY <1>0
  <2>2. QED  BY <2>1 DEF Late
<1>2. \A q \in RingId : q \in carry /\ q < r + 1 <=> q \in carry /\ q < r
  BY <1>0
<1>3. QED  BY <1>1, <1>2 DEF Mid

\* A ring that turns takes the wheel on.
LEMMA MidTurn ==
    ASSUME WheelInv, NEW w \in Wheel, NEW r \in carry, NEW again \in Again,
           Mid(w, r, ticks + 1)
    PROVE  Mid(turn(w, r, ticks + 1, again), r + 1, ticks + 1)
<1> DEFINE now == ticks + 1
           cur == Turned(w, r)
           v == turn(w, r, now, again)
<1>0. TypeOK /\ RingsCountTicks /\ now \in Nat /\ r \in RingId /\ r \in Nat
  BY DEF WheelInv, TypeOK, carry, RingId
<1>1. carry \subseteq RingId /\ carry \subseteq Nat /\ \A q \in carry : now % weight[q] = 0
  BY <1>0, CarryIs DEF carry, RingId
<1>2. v.current = cur /\ v.node = [t \in Timers |-> NewNode(w, r, now, again, t)]
  <2> HIDE DEF now
  <2>1. QED  BY <1>0, TurnIs
<1>3. cur \in Currents /\ w.current \in Currents /\ w.node \in [Timers -> Node]
  BY <1>0, TurnedType DEF Wheel
<1>4. Late(r + 1) = Late(r) \ {r} /\ r \in Late(r) /\ 0 \notin Late(r + 1)
  <2>1. \A q \in carry : q >= r + 1 <=> q >= r /\ q # r  BY <1>0, <1>1
  <2>2. r \in carry /\ r >= r /\ ~(0 >= r + 1)  BY <1>0
  <2>3. QED  BY <2>1, <2>2 DEF Late
<1>5. \A q \in Late(r + 1) : now % weight[q] = 0  BY <1>1 DEF Late
<1>6. cur = [q \in RingId |-> IF q \in carry /\ q < r + 1
                              THEN (current[q] + 1) % Slots ELSE current[q]]
  <2>1. w.current = [q \in RingId |-> IF q \in carry /\ q < r
                                      THEN (current[q] + 1) % Slots ELSE current[q]]
    BY DEF Mid
  <2>2. w.current[r] = current[r]  BY <1>0, <2>1
  <2>3. ASSUME NEW q \in RingId
        PROVE  cur[q] = IF q \in carry /\ q < r + 1
                        THEN (current[q] + 1) % Slots ELSE current[q]
    <3>0. q \in Nat  BY DEF RingId
    <3>1. CASE q = r
      <4>1. cur[q] = (current[q] + 1) % Slots
        BY <1>0, <1>3, <2>2, <3>1 DEF Turned, Currents
      <4>2. QED  BY <1>0, <3>1, <4>1
    <3>2. CASE q # r
      <4>1. cur[q] = w.current[q]  BY <1>0, <1>3, <3>2 DEF Turned, Currents
      <4>2. q < r + 1 <=> q < r  BY <1>0, <3>0, <3>2
      <4>3. QED  BY <2>1, <4>1, <4>2
    <3>3. QED  BY <3>1, <3>2
  <2> HIDE DEF cur
  <2>4. QED  BY <1>3, <2>3 DEF Currents
<1> HIDE DEF now, cur, v
<1>7. ASSUME NEW t \in Timers
      PROVE  LET nd == NewNode(w, r, now, again, t)
             IN  /\ Sound(nd, now)
                 /\ nd.pending /\ tm_left(nd, now) > 0 =>
                      InTime(nd, now, cur, Late(r + 1))
  <2> DEFINE nd == w.node[t]
             new == NewNode(w, r, now, again, t)
  <2>1. nd \in Node  BY <1>3
  <2>2. Sound(nd, now) /\ (nd.pending /\ tm_left(nd, now) > 0 =>
                             InTime(nd, now, w.current, Late(r)))
    BY DEF Mid, NodesInTime, now
  <2>3. again[t] \in After \cup {0}  BY DEF Again
  <2> HIDE DEF nd
  <2>4. CASE t \in Out(w, r, now)
    <3>1. new = Rerun(nd, now, cur, again[t])  BY <2>4 DEF NewNode, nd, cur
    <3>2. Sound(new, now)  BY <1>0, <1>3, <2>1, <2>2, <2>3, <3>1, RerunType
    <3>3. ASSUME new.pending, tm_left(new, now) > 0
          PROVE  InTime(new, now, cur, Late(r + 1))
      <4>1. PICK nd1 \in Node : /\ new = tm_insert(nd1, now, cur)
                                /\ nd1.create = now /\ nd1.expires <= MaxLife
        <5>0. again[t] \in Nat /\ again[t] <= MaxLife  BY <2>3, AfterBound, MaxLifeType
        <5>1. CASE nd.cycle
          <6> DEFINE nd1 == [nd EXCEPT !.create = now]
          <6>1. nd1 \in Node /\ nd1.create = now /\ nd1.expires = nd.expires
            BY <1>0, <2>1 DEF Node
          <6>2. new = tm_insert(nd1, now, cur)  BY <3>1, <5>1 DEF Rerun
          <6> HIDE DEF nd1, new
          <6>3. QED  BY <2>2, <6>1, <6>2 DEF Sound
        <5>2. CASE ~nd.cycle /\ again[t] # 0
          <6> DEFINE nd1 == [nd EXCEPT !.create = now, !.expires = again[t]]
          <6>1. nd1 \in Node /\ nd1.create = now /\ nd1.expires = again[t]
            BY <1>0, <2>1, <5>0 DEF Node
          <6>2. new = tm_insert(nd1, now, cur)  BY <3>1, <5>2 DEF Rerun
          <6> HIDE DEF nd1, new
          <6>3. QED  BY <5>0, <6>1, <6>2
        <5>3. CASE ~nd.cycle /\ again[t] = 0
          BY <1>0, <1>3, <2>1, <2>2, <2>3, <3>1, <3>3, <5>3, RerunType
        <5>4. QED  BY <5>1, <5>2, <5>3
      <4>2. Sound(nd1, now)  BY <1>0, <4>1 DEF Sound
      <4>3. tm_left(nd1, now) > 0  BY <1>0, <1>3, <3>3, <4>1, InsertKeeps
      <4>4. QED  BY <1>0, <1>3, <1>4, <1>5, <4>1, <4>2, <4>3, InTimeHang
    <3>4. QED  BY <3>2, <3>3
  <2>5. CASE t \notin Out(w, r, now) /\ Here(w, r, t)
    <3>1. new = tm_insert(nd, now, cur)  BY <2>5 DEF NewNode, nd, cur
    <3>2. tm_left(nd, now) \in Nat  BY <1>0, <2>1, LeftType
    <3>3. tm_left(nd, now) > 0  BY <2>5, <3>2 DEF Out, nd
    <3>4. new.create = nd.create /\ new.expires = nd.expires
      <4> HIDE DEF new
      <4>1. QED  BY <1>0, <1>3, <2>1, <3>1, InsertKeeps
    <3>5. InTime(new, now, cur, Late(r + 1))
      BY <1>0, <1>3, <1>4, <1>5, <2>1, <2>2, <3>1, <3>3, InTimeHang
    <3>6. QED  BY <2>2, <3>4, <3>5 DEF Sound
  <2>6. CASE t \notin Out(w, r, now) /\ ~Here(w, r, t)
    <3>1. new = nd  BY <2>6 DEF NewNode, nd
    <3>2. ASSUME nd.pending, tm_left(nd, now) > 0
          PROVE  InTime(nd, now, cur, Late(r + 1))
      <4>1. ~ (nd.ring = r /\ nd.slot = (w.current[r] + 1) % Slots)
        BY <2>6, <3>2 DEF Here, nd
      <4>2. InTime(nd, now, w.current, Late(r))  BY <2>2, <3>2
      <4>3. InTime(nd, now, cur, Late(r) \ {r})
        BY <1>0, <1>1, <1>3, <1>4, <2>1, <4>1, <4>2, InTimeTurn DEF cur, Turned
      <4>4. QED  BY <1>4, <4>3
    <3>3. QED  BY <2>2, <3>1, <3>2
  <2>7. QED  BY <2>4, <2>5, <2>6
<1>8. NodesInTime(v.node, now, v.current, Late(r + 1))
  <2>1. \A t \in Timers : v.node[t] = NewNode(w, r, now, again, t)  BY <1>2
  <2>2. QED  BY <1>2, <1>7, <2>1 DEF NodesInTime
<1>9. QED  BY <1>2, <1>6, <1>8 DEF Mid, v, now

\* The tick ends within it.
LEMMA MidEnd ==
    ASSUME WheelInv, NEW again \in Again, NEW w, Round(w, ticks + 1, again)
    PROVE  \A r \in 0..Rings : Mid(w[r], r, ticks + 1)
<1> DEFINE S == {r \in 0..Rings : Mid(w[r], r, ticks + 1)}
<1>0. Rings \in Nat /\ w \in [0..Rings -> Wheel]  BY WheelAssumption DEF Round
<1>1. 0 \in S
  <2>1. w[0] = Start  BY DEF Round
  <2>2. QED  BY <1>0, <2>1, MidStart
<1>2. ASSUME NEW r \in 0..(Rings - 1), r \in S  PROVE r + 1 \in S
  <2>1. r \in RingId /\ r + 1 \in 0..Rings /\ w[r] \in Wheel  BY <1>0 DEF RingId
  <2>2. w[r + 1] = IF r \in carry THEN turn(w[r], r, ticks + 1, again) ELSE w[r]
    BY <2>1 DEF Round
  <2>3. Mid(w[r], r, ticks + 1)  BY <1>2
  <2>4. CASE r \in carry
    BY <2>1, <2>2, <2>3, <2>4, MidTurn
  <2>5. CASE r \notin carry
    BY <2>1, <2>2, <2>3, <2>5, MidSkip
  <2>6. QED  BY <2>4, <2>5
<1>3. \A r \in 0..Rings : r \in S
  <2> HIDE DEF S
  <2>1. QED  BY <1>0, <1>1, <1>2, Induction
<1>4. QED  BY <1>3

-----------------------------------------------------------------------------
(***************************************************************************)
(* The steps of the library.                                               *)
(***************************************************************************)

\* A step that gives timer t a sound node, in time if it has time left.
LEMMA OneNode ==
    ASSUME WheelInv, NEW t \in Timers, NEW nd \in Node, Sound(nd, ticks),
           nd.pending /\ tm_left(nd, ticks) > 0 => InTime(nd, ticks, current, {}),
           node' = [node EXCEPT ![t] = nd], fired' = {}, UNCHANGED <<ticks, current>>
    PROVE  WheelInv'
<1>1. TypeOK'  BY DEF WheelInv, TypeOK
<1>2. RingsCountTicks'  BY DEF WheelInv, RingsCountTicks
<1>3. ASSUME NEW s \in Timers
      PROVE  /\ Sound(node'[s], ticks)
             /\ node'[s].pending /\ tm_left(node'[s], ticks) > 0 =>
                  InTime(node'[s], ticks, current, {})
  <2>1. node'[s] = IF s = t THEN nd ELSE node[s]  BY DEF WheelInv, TypeOK
  <2>2. QED  BY <2>1 DEF WheelInv, NodesInTime
<1>4. NodesInTime(node', ticks, current, {})  BY <1>3 DEF NodesInTime
<1>5. NodesInTime(node, ticks, current, {})'  BY <1>4 DEF NodesInTime
<1>6. QED  BY <1>1, <1>2, <1>5 DEF WheelInv

\* A step that hangs timer t.
LEMMA OneInsert ==
    ASSUME WheelInv, NEW t \in Timers, NEW nd \in Node, Sound(nd, ticks),
           node' = [node EXCEPT ![t] = tm_insert(nd, ticks, current)],
           fired' = {}, UNCHANGED <<ticks, current>>
    PROVE  WheelInv'
<1> DEFINE new == tm_insert(nd, ticks, current)
<1>1. ticks \in Nat /\ current \in Currents  BY DEF WheelInv, TypeOK, Currents
<1>2. /\ new \in Node /\ new.create = nd.create /\ new.expires = nd.expires
      /\ tm_left(new, ticks) = tm_left(nd, ticks)
  BY <1>1, InsertKeeps
<1>3. Sound(new, ticks)  BY <1>2 DEF Sound
<1>4. ASSUME tm_left(new, ticks) > 0  PROVE InTime(new, ticks, current, {})
  BY <1>1, <1>2, <1>4, InTimeHang
<1> HIDE DEF new
<1>5. QED  BY <1>2, <1>3, <1>4, OneNode DEF new

\* What os_tm_change makes of expires: the age and the new time.
LEMMA ChangeIs ==
    ASSUME NEW nd \in Node, NEW now \in Nat, Sound(nd, now), NEW a \in Nat,
           now - nd.create + a <= MaxLife
    PROVE  LET new == Uint32(nd.expires + a - tm_left(nd, now))
           IN  /\ new \in Nat /\ new <= MaxLife
               /\ nd.create + nd.expires >= now => new = now - nd.create + a
<1> DEFINE left == tm_left(nd, now)
           x == nd.expires + a - left
<1>1. nd.create \in Nat /\ nd.expires \in Nat /\ nd.create <= now  BY DEF Node, Sound
<1>2. left \in Nat /\ left <= nd.expires /\ x \in Nat  BY <1>1 DEF tm_left
<1>3. nd.create + nd.expires >= now => x = now - nd.create + a  BY <1>1 DEF tm_left
<1>4. weight[Rings] \in Nat \ {0}  BY MaxLifeType
<1> HIDE DEF x
<1>5. Uint32(x) \in 0..(weight[Rings] - 1)  BY <1>2, <1>4, DivMod DEF Uint32
<1>6. Uint32(x) \in Nat /\ Uint32(x) <= MaxLife  BY <1>4, <1>5 DEF MaxLife
<1>7. ASSUME nd.create + nd.expires >= now  PROVE Uint32(x) = now - nd.create + a
  <2>1. x \in 0..(weight[Rings] - 1)  BY <1>1, <1>2, <1>3, <1>4, <1>7 DEF MaxLife
  <2>2. QED  BY <1>3, <1>4, <1>7, <2>1, ModSmall DEF Uint32
<1>8. QED  BY <1>6, <1>7 DEF x

\* The node os_tm_change hangs again.
Changed(nd, a, now) ==
    [nd EXCEPT !.expires = Uint32(nd.expires + a - tm_left(nd, now))]

\* It is a sound node.
LEMMA ChangedIs ==
    ASSUME NEW nd \in Node, NEW now \in Nat, Sound(nd, now), NEW a \in Nat,
           now - nd.create + a <= MaxLife
    PROVE  LET new == Changed(nd, a, now)
           IN  /\ new \in Node /\ Sound(new, now)
               /\ new.cycle = nd.cycle /\ new.create = nd.create
               /\ nd.create + nd.expires >= now => new.expires = now - nd.create + a
<1> DEFINE e == Uint32(nd.expires + a - tm_left(nd, now))
           new == [nd EXCEPT !.expires = e]
<1>1. /\ e \in Nat /\ e <= MaxLife
      /\ nd.create + nd.expires >= now => e = now - nd.create + a
  BY ChangeIs
<1>2. Changed(nd, a, now) = new  BY DEF Changed
<1> HIDE DEF e
<1>3. new \in Node /\ new.cycle = nd.cycle /\ new.create = nd.create /\ new.expires = e
  BY <1>1 DEF Node
<1> HIDE DEF new
<1>4. Sound(new, now)  BY <1>1, <1>3 DEF Sound
<1>5. QED  BY <1>1, <1>2, <1>3, <1>4

\* What one tick does, in terms of the wheels it goes through.
LEMMA TickIs ==
    ASSUME TypeOK, os_tm_trigger
    PROVE  \E again \in Again, w \in [0..Rings -> Wheel] :
             /\ Round(w, ticks + 1, again)
             /\ ticks' = ticks + 1
             /\ current' = w[Rings].current /\ node' = w[Rings].node
             /\ fired' = w[Rings].fired
             /\ \A t \in Timers : again[t] # 0 => t \in fired' /\ ~node[t].cycle
<1> DEFINE W(again) == tm_trigger(ticks + 1, again)
<1>1. ticks' = ticks + 1 /\ ticks + 1 \in Nat  BY DEF os_tm_trigger, TypeOK
<1>2. PICK again \in Again :
        /\ \A t \in Timers : again[t] # 0 => t \in W(again).fired /\ ~node[t].cycle
        /\ current' = W(again).current /\ node' = W(again).node
        /\ fired' = W(again).fired
  BY <1>1 DEF os_tm_trigger, Again
<1>3. PICK w : Round(w, ticks + 1, again) /\ tm_trigger(ticks + 1, again) = w[Rings]
  BY <1>1, TriggerIs
<1>4. w \in [0..Rings -> Wheel]  BY <1>3 DEF Round
<1>5. QED  BY <1>1, <1>2, <1>3, <1>4

\* A tick keeps the invariant.
LEMMA TickKeeps ==
    ASSUME WheelInv, os_tm_trigger
    PROVE  WheelInv'
<1>0. TypeOK /\ RingsCountTicks /\ Rings \in Nat /\ Rings \in 0..Rings /\ ticks \in Nat
  BY WheelAssumption DEF WheelInv, TypeOK
<1>1. PICK again \in Again, w \in [0..Rings -> Wheel] :
        /\ Round(w, ticks + 1, again)
        /\ ticks' = ticks + 1
        /\ current' = w[Rings].current /\ node' = w[Rings].node
        /\ fired' = w[Rings].fired
  BY <1>0, TickIs
<1>2. Mid(w[Rings], Rings, ticks + 1)  BY <1>0, <1>1, MidEnd
<1>3. w[Rings] \in Wheel  BY <1>0
<1>4. TypeOK'  BY <1>0, <1>1, <1>3 DEF TypeOK, Wheel, Currents
<1>5. carry \subseteq RingId /\ carry = LateRings(ticks)  BY <1>0, CarryIs DEF carry
<1>6. Late(Rings) = {}  BY <1>0, <1>5 DEF Late, RingId
<1>7. NodesInTime(node, ticks, current, {})'
  <2>1. NodesInTime(w[Rings].node, ticks + 1, w[Rings].current, {})  BY <1>2, <1>6 DEF Mid
  <2>2. QED  BY <1>1, <2>1 DEF NodesInTime
<1>8. RingsCountTicks'
  <2>1. ASSUME NEW r \in RingId  PROVE current'[r] = digit(ticks + 1, r)
    <3>1. r < Rings  BY <1>0 DEF RingId
    <3>2. current'[r] = IF r \in carry THEN (current[r] + 1) % Slots ELSE current[r]
      BY <1>1, <1>2, <3>1 DEF Mid
    <3>3. current[r] = digit(ticks, r)  BY <1>0 DEF RingsCountTicks
    <3>4. r \in carry <=> ticks % weight[r] = weight[r] - 1  BY <1>5 DEF LateRings
    <3>5. QED  BY <1>0, <3>2, <3>3, <3>4, DigitNext
  <2>2. QED  BY <1>1, <2>1 DEF RingsCountTicks
<1>9. QED  BY <1>4, <1>7, <1>8 DEF WheelInv

\* The empty wheel satisfies the invariant.
LEMMA InitInv == Init => WheelInv
<1> SUFFICES ASSUME Init  PROVE WheelInv
  OBVIOUS
<1>0. Slots \in Nat \ {0, 1} /\ Rings \in Nat \ {0}  BY WheelAssumption
<1>1. ZeroNode \in Node
  <2>1. 0 \in RingId /\ 0 \in 0..(Slots - 1)  BY <1>0 DEF RingId
  <2>2. QED  BY <2>1 DEF ZeroNode, Node
<1>2. TypeOK
  <2>1. 0 \in 0..(Slots - 1)  BY <1>0
  <2>2. QED  BY <1>1, <2>1 DEF Init, TypeOK
<1>3. ASSUME NEW r \in RingId  PROVE current[r] = digit(ticks, r)
  <2>1. weight[r] \in Nat \ {0}  BY DigitType
  <2>2. 0 \div weight[r] = 0 /\ 0 % Slots = 0
    <3>1. 0 = weight[r] * 0 + 0 /\ 0 \in 0..(weight[r] - 1) /\ 0 \in Int  BY <2>1
    <3>2. 0 \div weight[r] = 0  BY <2>1, <3>1, DivModUnique
    <3>3. 0 \in 0..(Slots - 1)  BY <1>0
    <3>4. QED  BY <1>0, <3>2, <3>3, ModSmall
  <2>3. QED  BY <2>2 DEF Init, digit
<1>4. Sound(ZeroNode, 0) /\ ~ZeroNode.pending  BY MaxLifeType DEF Sound, ZeroNode
<1>5. NodesInTime(node, ticks, current, {})  BY <1>4 DEF Init, NodesInTime
<1>6. QED  BY <1>2, <1>3, <1>5 DEF WheelInv, RingsCountTicks

\* Every step keeps the invariant.
LEMMA NextInv == WheelInv /\ [Next]_wheelVars => WheelInv'
<1> SUFFICES ASSUME WheelInv, [Next]_wheelVars  PROVE WheelInv'
  OBVIOUS
<1>0. /\ TypeOK /\ ticks \in Nat /\ current \in Currents
      /\ \A t \in Timers : node[t] \in Node /\ Sound(node[t], ticks)
  BY DEF WheelInv, TypeOK, Currents, NodesInTime
<1>1. ASSUME NEW t \in Timers, NEW a \in After, NEW c \in BOOLEAN, os_tm_insert(t, a, c)
      PROVE  WheelInv'
  <2> DEFINE nd == [node[t] EXCEPT !.create = ticks, !.expires = a, !.cycle = c]
  <2>1. a \in Nat /\ a <= MaxLife  BY AfterBound
  <2>2. nd \in Node /\ nd.create = ticks /\ nd.expires = a  BY <1>0, <2>1 DEF Node
  <2>3. /\ node' = [node EXCEPT ![t] = tm_insert(nd, ticks, current)]
        /\ fired' = {} /\ UNCHANGED <<ticks, current>>
    BY <1>1 DEF os_tm_insert
  <2> HIDE DEF nd
  <2>4. Sound(nd, ticks)  BY <1>0, <2>1, <2>2 DEF Sound
  <2>5. QED  BY <2>2, <2>3, <2>4, OneInsert
<1>2. ASSUME NEW t \in Timers, os_tm_remove(t)  PROVE WheelInv'
  <2>1. ZeroNode \in Node /\ ZeroNode.create = 0 /\ ZeroNode.expires = 0 /\ ~ZeroNode.pending
    <3>1. 0 \in RingId /\ 0 \in 0..(Slots - 1)  BY WheelAssumption DEF RingId
    <3>2. QED  BY <3>1 DEF ZeroNode, Node
  <2>2. Sound(ZeroNode, ticks)  BY <1>0, <2>1, MaxLifeType DEF Sound
  <2>3. QED  BY <1>2, <2>1, <2>2, OneNode DEF os_tm_remove
<1>3. ASSUME NEW t \in Timers, NEW a \in Change, os_tm_change(t, a)  PROVE WheelInv'
  <2>1. a \in Nat  BY ChangeAssumption, MaxLifeType
  <2>2. ticks - node[t].create + a <= MaxLife  BY <1>3 DEF os_tm_change
  <2>3. Changed(node[t], a, ticks) \in Node /\ Sound(Changed(node[t], a, ticks), ticks)
    BY <1>0, <2>1, <2>2, ChangedIs
  <2>4. /\ node' = [node EXCEPT ![t] = tm_insert(Changed(node[t], a, ticks), ticks, current)]
        /\ fired' = {} /\ UNCHANGED <<ticks, current>>
    BY <1>3 DEF os_tm_change, Changed
  <2>5. QED  BY <2>3, <2>4, OneInsert
<1>4. CASE os_tm_trigger
  BY <1>4, TickKeeps
<1>5. CASE UNCHANGED wheelVars
  BY <1>5 DEF wheelVars, WheelInv, TypeOK, RingsCountTicks, NodesInTime
<1>6. QED  BY <1>1, <1>2, <1>3, <1>4, <1>5 DEF Next

\* WheelInv is an invariant of the wheel: the types, the tick count in the
\* rings and the slots of all timers.
THEOREM WheelInvariant == Spec => []WheelInv
<1>1. QED  BY InitInv, NextInv, PTL DEF Spec

\* The invariant states what SlotInTime states.
LEMMA InvSlotInTime == WheelInv => SlotInTime
<1> SUFFICES ASSUME WheelInv, NEW t \in Timers,
                    node[t].pending, tm_left(node[t], ticks) > 0
             PROVE  LET r == node[t].ring
                        turns == IF node[t].slot = current[r] THEN Slots
                                 ELSE (node[t].slot - current[r]) % Slots
                        comes == turns * weight[r] - (ticks % weight[r])
                    IN  /\ comes <= tm_left(node[t], ticks)
                        /\ r = 0 => comes = tm_left(node[t], ticks)
  BY DEF SlotInTime
<1> DEFINE r == node[t].ring
           k == Turns(current[r], node[t].slot)
<1>1. InTime(node[t], ticks, current, {})  BY DEF WheelInv, NodesInTime
<1>2. r \in RingId /\ node[t].slot \in 0..(Slots - 1) /\ current \in Currents /\ ticks \in Nat
  BY DEF WheelInv, TypeOK, Node, Currents
<1>3. current[r] \in 0..(Slots - 1)  BY <1>2 DEF Currents
<1>4. k \in 1..Slots /\ Slots \in Nat /\ weight[r] \in Nat
  <2> HIDE DEF r
  <2>1. QED  BY <1>2, <1>3, TurnsLinear, DigitType, WheelAssumption
<1>5. weight[r] * k = k * weight[r]
  <2> HIDE DEF k, r
  <2>1. QED  BY <1>4
<1>6. Comes(node[t], ticks, current, {}) = k * weight[r] - (ticks % weight[r])
  BY <1>5 DEF Comes
<1>7. QED  BY <1>1, <1>6 DEF InTime, Turns

\* The types of the wheel.
THEOREM TypeCorrect == Spec => []TypeOK
<1>1. WheelInv => TypeOK  BY DEF WheelInv
<1>2. QED  BY <1>1, WheelInvariant, PTL

\* The rings always read as the tick count.
THEOREM RingsCorrect == Spec => []RingsCountTicks
<1>1. WheelInv => RingsCountTicks  BY DEF WheelInv
<1>2. QED  BY <1>1, WheelInvariant, PTL

\* Every pending timer's slot comes up in time.
THEOREM SlotsCorrect == Spec => []SlotInTime
<1>1. QED  BY InvSlotInTime, WheelInvariant, PTL

-----------------------------------------------------------------------------
(***************************************************************************)
(* The wheel implements the alarms, as long as no timer is changed to zero *)
(* ticks: such a timer waits in a slot that has just been served.          *)
(***************************************************************************)

\* No pending timer is overdue.
ExactInv ==
    /\ WheelInv
    /\ \A t \in Timers : node[t].pending => tm_left(node[t], ticks) > 0

\* Timer t, with node nd when the tick began and v by now, has fired.
HasFired(nd, v, now, a) ==
    /\ nd.pending /\ nd.create + nd.expires = now
    /\ v.cycle = nd.cycle
    /\ nd.cycle => v.pending /\ v.create = now /\ v.expires = nd.expires
    /\ ~nd.cycle /\ a # 0 => v.pending /\ v.create = now /\ v.expires = a
    /\ ~nd.cycle /\ a = 0 => ~v.pending

\* It has not, and if it has to, its ring is still to turn to its slot.
HasNot(nd, v, now, r) ==
    /\ v.pending = nd.pending /\ v.cycle = nd.cycle
    /\ v.create = nd.create /\ v.expires = nd.expires
    /\ v.pending /\ tm_left(v, now) = 0 =>
         v.ring \in Late(r) /\ v.slot = (current[v.ring] + 1) % Slots

\* Each timer has fired on this tick, or has not.
Exact(w, r, now, again) ==
    \A t \in Timers : IF t \in w.fired THEN HasFired(node[t], w.node[t], now, again[t])
                      ELSE HasNot(node[t], w.node[t], now, r)

\* A pending timer was set for more than no ticks.
LEMMA ExpiresPositive ==
    ASSUME ExactInv, NEW t \in Timers, node[t].pending
    PROVE  node[t].expires > 0
<1>1. node[t].create \in Nat /\ node[t].expires \in Nat /\ ticks \in Nat
  BY DEF ExactInv, WheelInv, TypeOK, Node
<1>2. node[t].create <= ticks /\ tm_left(node[t], ticks) > 0
  BY DEF ExactInv, WheelInv, NodesInTime, Sound
<1>3. QED  BY <1>1, <1>2 DEF tm_left

\* A timer that has fired has time left again, if it is pending.
LEMMA FiredHasTime ==
    ASSUME ExactInv, NEW t \in Timers, NEW v \in Node, NEW now \in Nat,
           NEW a \in After \cup {0}, HasFired(node[t], v, now, a), v.pending
    PROVE  tm_left(v, now) > 0
<1>1. node[t].expires > 0  BY ExpiresPositive DEF HasFired
<1>2. a \in Nat  BY AfterBound
<1>3. v.create = now /\ v.expires \in Nat \ {0}
  <2>1. v.expires \in Nat  BY DEF Node
  <2>2. CASE node[t].cycle  BY <1>1, <2>1, <2>2 DEF HasFired
  <2>3. CASE ~node[t].cycle /\ a # 0  BY <1>2, <2>3 DEF HasFired
  <2>4. CASE ~node[t].cycle /\ a = 0  BY <2>4 DEF HasFired
  <2>5. QED  BY <2>2, <2>3, <2>4
<1>4. QED  BY <1>3 DEF tm_left

\* When the tick begins, nothing has fired.
LEMMA ExactStart ==
    ASSUME ExactInv, NEW again \in Again
    PROVE  Exact(Start, 0, ticks + 1, again)
<1> SUFFICES ASSUME NEW t \in Timers  PROVE HasNot(node[t], node[t], ticks + 1, 0)
  BY DEF Exact, Start
<1>0. /\ node[t] \in Node /\ ticks \in Nat /\ current \in Currents
      /\ TypeOK /\ RingsCountTicks /\ Sound(node[t], ticks)
  BY DEF ExactInv, WheelInv, TypeOK, Currents, NodesInTime
<1>1. carry = LateRings(ticks) /\ carry \subseteq Nat  BY <1>0, CarryIs DEF carry, RingId
<1>2. Late(0) = carry  BY <1>1 DEF Late
<1>3. ASSUME node[t].pending, tm_left(node[t], ticks + 1) = 0
      PROVE  /\ node[t].ring \in Late(0)
             /\ node[t].slot = (current[node[t].ring] + 1) % Slots
  <2>1. tm_left(node[t], ticks) > 0  BY <1>3 DEF ExactInv
  <2>2. InTime(node[t], ticks, current, {})
    BY <1>3, <2>1 DEF ExactInv, WheelInv, NodesInTime
  <2>3. QED  BY <1>0, <1>1, <1>2, <1>3, <2>1, <2>2, InTimeTick
<1>4. QED  BY <1>3 DEF HasNot

\* A ring that does not turn fires nothing.
LEMMA ExactSkip ==
    ASSUME NEW w, NEW r \in RingId, r \notin carry, NEW now, NEW again,
           Exact(w, r, now, again)
    PROVE  Exact(w, r + 1, now, again)
<1>0. carry \subseteq Nat /\ r \in Nat  BY DEF carry, RingId
<1>1. Late(r + 1) = Late(r)
  <2>1. \A q \in carry : q >= r + 1 <=> q >= r  BY <1>0
  <2>2. QED  BY <2>1 DEF Late
<1>2. QED  BY <1>1 DEF Exact, HasNot

\* A ring that turns fires the timers of its slot that are due.
LEMMA ExactTurn ==
    ASSUME ExactInv, NEW w \in Wheel, NEW r \in carry, NEW again \in Again,
           Mid(w, r, ticks + 1), Exact(w, r, ticks + 1, again)
    PROVE  Exact(turn(w, r, ticks + 1, again), r + 1, ticks + 1, again)
<1> DEFINE now == ticks + 1
           cur == Turned(w, r)
           v == turn(w, r, now, again)
<1>0. TypeOK /\ now \in Nat /\ r \in RingId /\ r \in Nat /\ carry \subseteq Nat
  BY DEF ExactInv, WheelInv, TypeOK, carry, RingId
<1>1. /\ v.fired = w.fired \cup Out(w, r, now)
      /\ v.node = [t \in Timers |-> NewNode(w, r, now, again, t)]
  <2> HIDE DEF now
  <2>1. QED  BY <1>0, TurnIs
<1>2. cur \in Currents /\ w.node \in [Timers -> Node]
  BY <1>0, TurnedType DEF Wheel
<1>3. \A q \in Late(r) : q # r => q \in Late(r + 1)
  <2>1. \A q \in carry : q >= r /\ q # r => q >= r + 1  BY <1>0
  <2>2. QED  BY <2>1 DEF Late
<1>4. w.current[r] = current[r]  BY <1>0 DEF Mid
<1> SUFFICES ASSUME NEW t \in Timers
             PROVE  IF t \in v.fired THEN HasFired(node[t], v.node[t], now, again[t])
                    ELSE HasNot(node[t], v.node[t], now, r + 1)
  BY DEF Exact
<1> DEFINE nd == node[t]
           x == w.node[t]
           new == v.node[t]
<1>5. /\ x \in Node /\ nd \in Node /\ again[t] \in After \cup {0}
      /\ Sound(x, now) /\ new = NewNode(w, r, now, again, t)
  BY <1>1, <1>2 DEF ExactInv, WheelInv, TypeOK, Again, Mid, NodesInTime
<1>6. IF t \in w.fired THEN HasFired(nd, x, now, again[t]) ELSE HasNot(nd, x, now, r)
  BY DEF Exact
<1>7. t \in w.fired /\ x.pending => tm_left(x, now) > 0
  BY <1>0, <1>5, <1>6, FiredHasTime
<1>8. tm_left(x, now) \in Nat  BY <1>0, <1>5, LeftType
<1> HIDE DEF now, cur, v
<1>9. CASE t \in Out(w, r, now)
  <2>1. x.pending /\ tm_left(x, now) = 0  BY <1>9 DEF Out, Here
  <2>2. t \notin w.fired /\ t \in v.fired  BY <1>1, <1>7, <1>9, <2>1
  <2>3. /\ nd.pending = x.pending /\ x.cycle = nd.cycle
        /\ x.create = nd.create /\ x.expires = nd.expires
    BY <1>6, <2>2 DEF HasNot
  <2>4. nd.create + nd.expires = now
    <3>1. nd.create \in Nat /\ nd.expires \in Nat /\ ticks \in Nat
      BY <1>0, <1>5 DEF Node, TypeOK
    <3>2. tm_left(nd, ticks) > 0  BY <2>1, <2>3 DEF ExactInv
    <3>3. tm_left(nd, now) = 0  BY <2>1, <2>3 DEF tm_left
    <3>4. QED  BY <3>1, <3>2, <3>3 DEF tm_left, now
  <2>5. new = Rerun(x, now, cur, again[t])  BY <1>5, <1>9 DEF NewNode, cur
  <2> HIDE DEF nd, x, new
  <2>6. HasFired(nd, new, now, again[t])
    <3>1. /\ new.cycle = x.cycle
          /\ x.cycle => new.pending /\ new.create = now /\ new.expires = x.expires
          /\ ~x.cycle /\ again[t] # 0 =>
               new.pending /\ new.create = now /\ new.expires = again[t]
          /\ ~x.cycle /\ again[t] = 0 => ~new.pending
      BY <1>0, <1>2, <1>5, <2>5, RerunType
    <3>2. QED  BY <2>1, <2>3, <2>4, <3>1 DEF HasFired
  <2>7. QED  BY <2>2, <2>6 DEF nd, new
<1>10. CASE t \notin Out(w, r, now) /\ Here(w, r, t)
  <2>1. x.pending /\ tm_left(x, now) # 0  BY <1>10 DEF Out, Here
  <2>2. t \in v.fired <=> t \in w.fired  BY <1>1, <1>10
  <2>3. new = tm_insert(x, now, cur)  BY <1>5, <1>10 DEF NewNode, cur
  <2> HIDE DEF nd, x, new
  <2>4. /\ new.pending /\ new.cycle = x.cycle /\ new.create = x.create
        /\ new.expires = x.expires /\ tm_left(new, now) = tm_left(x, now)
    BY <1>0, <1>2, <1>5, <2>3, InsertKeeps
  <2>5. CASE t \in w.fired
    <3>1. HasFired(nd, new, now, again[t])  BY <1>6, <2>1, <2>4, <2>5 DEF HasFired
    <3>2. QED  BY <2>2, <2>5, <3>1 DEF nd, new
  <2>6. CASE t \notin w.fired
    <3>1. nd.pending  BY <1>6, <2>1, <2>6 DEF HasNot
    <3>2. new.pending = nd.pending
      <4>1. new.pending \in BOOLEAN /\ nd.pending \in BOOLEAN
        <5>1. new \in Node  BY <1>0, <1>2, <1>5, <2>3, InsertKeeps
        <5>2. QED  BY <1>5, <5>1 DEF Node
      <4>2. QED  BY <2>4, <3>1, <4>1
    <3>3. HasNot(nd, new, now, r + 1)  BY <1>6, <2>1, <2>4, <2>6, <3>2 DEF HasNot
    <3>4. QED  BY <2>2, <2>6, <3>3 DEF nd, new
  <2>7. QED  BY <2>5, <2>6
<1>11. CASE t \notin Out(w, r, now) /\ ~Here(w, r, t)
  <2>1. new = x  BY <1>5, <1>11 DEF NewNode
  <2>2. t \in v.fired <=> t \in w.fired  BY <1>1, <1>11
  <2>3. CASE t \in w.fired  BY <1>6, <2>1, <2>2, <2>3
  <2>4. CASE t \notin w.fired
    <3>1. ASSUME x.pending, tm_left(x, now) = 0
          PROVE  x.ring \in Late(r + 1) /\ x.slot = (current[x.ring] + 1) % Slots
      <4>1. x.ring \in Late(r) /\ x.slot = (current[x.ring] + 1) % Slots
        BY <1>6, <2>4, <3>1 DEF HasNot
      <4>2. x.ring # r  BY <1>4, <1>11, <3>1, <4>1 DEF Here
      <4>3. QED  BY <1>3, <4>1, <4>2
    <3> HIDE DEF nd, x, new
    <3>2. HasNot(nd, x, now, r + 1)  BY <1>6, <2>4, <3>1 DEF HasNot
    <3>3. QED  BY <2>1, <2>2, <2>4, <3>2 DEF nd, new
  <2>5. QED  BY <2>3, <2>4
<1>12. QED  BY <1>9, <1>10, <1>11

\* After the last ring every timer that is due has fired, and no other.
LEMMA ExactEnd ==
    ASSUME ExactInv, NEW again \in Again, NEW w, Round(w, ticks + 1, again)
    PROVE  Exact(w[Rings], Rings, ticks + 1, again)
<1> DEFINE S == {r \in 0..Rings : Exact(w[r], r, ticks + 1, again)}
<1>0. Rings \in Nat /\ Rings \in 0..Rings /\ w \in [0..Rings -> Wheel] /\ WheelInv
  BY WheelAssumption DEF Round, ExactInv
<1>1. 0 \in S
  <2>1. w[0] = Start  BY DEF Round
  <2>2. QED  BY <1>0, <2>1, ExactStart
<1>2. ASSUME NEW r \in 0..(Rings - 1), r \in S  PROVE r + 1 \in S
  <2>1. r \in RingId /\ r + 1 \in 0..Rings /\ r \in 0..Rings /\ w[r] \in Wheel
    BY <1>0 DEF RingId
  <2>2. w[r + 1] = IF r \in carry THEN turn(w[r], r, ticks + 1, again) ELSE w[r]
    BY <2>1 DEF Round
  <2>3. Mid(w[r], r, ticks + 1) /\ Exact(w[r], r, ticks + 1, again)
    BY <1>0, <1>2, <2>1, MidEnd
  <2>4. CASE r \in carry
    BY <2>1, <2>2, <2>3, <2>4, ExactTurn
  <2>5. CASE r \notin carry
    BY <2>1, <2>2, <2>3, <2>5, ExactSkip
  <2>6. QED  BY <2>4, <2>5
<1>3. \A r \in 0..Rings : r \in S
  <2> HIDE DEF S
  <2>1. QED  BY <1>0, <1>1, <1>2, Induction
<1>4. QED  BY <1>0, <1>3

\* The due tick and the period of a node, as the alarms see them.
Due(nd) == IF nd.pending THEN nd.create + nd.expires ELSE 0
Period(nd) == IF nd.pending /\ nd.cycle THEN nd.expires ELSE 0

\* Functions that differ at one argument.
LEMMA OneArgument ==
    ASSUME NEW S, NEW t \in S, NEW f, NEW g,
           f = [s \in S |-> f[s]], g = [s \in S |-> g[s]],
           \A s \in S : s # t => g[s] = f[s]
    PROVE  g = [f EXCEPT ![t] = g[t]]
OBVIOUS

\* A step that gives timer t the node nd leaves the alarms of the others.
LEMMA OthersKept ==
    ASSUME TypeOK, NEW t \in Timers, NEW nd \in Node, node' = [node EXCEPT ![t] = nd],
           fired' = {}, ticks' = ticks
    PROVE  alarms!Others(t) /\ node'[t] = nd
<1>1. \A s \in Timers : node'[s] = IF s = t THEN nd ELSE node[s]  BY DEF TypeOK
<1>2. [s \in Timers |-> Due(node'[s])] =
        [[s \in Timers |-> Due(node[s])] EXCEPT ![t] = Due(node'[t])]
  <2> DEFINE f == [s \in Timers |-> Due(node[s])]
             g == [s \in Timers |-> Due(node'[s])]
  <2>1. \A s \in Timers : s # t => g[s] = f[s]  BY <1>1
  <2>2. g[t] = Due(node'[t])  OBVIOUS
  <2>3. f = [s \in Timers |-> f[s]] /\ g = [s \in Timers |-> g[s]]  OBVIOUS
  <2> HIDE DEF f, g
  <2>4. g = [f EXCEPT ![t] = g[t]]  BY <2>1, <2>3, OneArgument
  <2>5. QED  BY <2>2, <2>4 DEF f, g
<1>3. [s \in Timers |-> Period(node'[s])] =
        [[s \in Timers |-> Period(node[s])] EXCEPT ![t] = Period(node'[t])]
  <2> DEFINE f == [s \in Timers |-> Period(node[s])]
             g == [s \in Timers |-> Period(node'[s])]
  <2>1. \A s \in Timers : s # t => g[s] = f[s]  BY <1>1
  <2>2. g[t] = Period(node'[t])  OBVIOUS
  <2>3. f = [s \in Timers |-> f[s]] /\ g = [s \in Timers |-> g[s]]  OBVIOUS
  <2> HIDE DEF f, g
  <2>4. g = [f EXCEPT ![t] = g[t]]  BY <2>1, <2>3, OneArgument
  <2>5. QED  BY <2>2, <2>4 DEF f, g
<1>4. QED  BY <1>1, <1>2, <1>3, Zenon DEF alarms!Others, Due, Period

\* A tick of the wheel is a tick of the alarms.
LEMMA TriggerIsTick ==
    ASSUME ExactInv, os_tm_trigger
    PROVE  alarms!Tick /\ ExactInv'
<1>0. /\ TypeOK /\ WheelInv /\ RingsCountTicks /\ Rings \in Nat /\ Rings \in 0..Rings
      /\ ticks \in Nat
  BY WheelAssumption DEF ExactInv, WheelInv, TypeOK
<1>1. PICK again \in Again, w \in [0..Rings -> Wheel] :
        /\ Round(w, ticks + 1, again)
        /\ ticks' = ticks + 1
        /\ current' = w[Rings].current /\ node' = w[Rings].node
        /\ fired' = w[Rings].fired
        /\ \A t \in Timers : again[t] # 0 => t \in fired' /\ ~node[t].cycle
  BY <1>0, TickIs
<1>2. Exact(w[Rings], Rings, ticks + 1, again)  BY <1>1, ExactEnd
<1>3. WheelInv' /\ TypeOK'  BY <1>0, TickKeeps DEF WheelInv
<1>4. Late(Rings) = {}
  <2>1. \A q \in carry : ~(q >= Rings)  BY <1>0 DEF carry, RingId
  <2>2. QED  BY <2>1 DEF Late
<1>5. ASSUME NEW t \in Timers
      PROVE  /\ t \in fired' => HasFired(node[t], node'[t], ticks', again[t])
             /\ t \notin fired' =>
                  /\ node'[t].pending = node[t].pending /\ node'[t].cycle = node[t].cycle
                  /\ node'[t].create = node[t].create /\ node'[t].expires = node[t].expires
                  /\ node'[t].pending => tm_left(node'[t], ticks') # 0
  BY <1>1, <1>2, <1>4 DEF Exact, HasNot
<1>6. ASSUME NEW t \in Timers
      PROVE  /\ node[t] \in Node /\ node'[t] \in Node /\ again[t] \in After \cup {0}
             /\ ticks' \in Nat \ {0}
  BY <1>0, <1>1, <1>3 DEF TypeOK, Again
<1>7. ASSUME NEW t \in Timers, node'[t].pending  PROVE tm_left(node'[t], ticks') > 0
  <2>1. CASE t \in fired'  BY <1>5, <1>6, <1>7, <2>1, FiredHasTime
  <2>2. CASE t \notin fired'
    <3>1. tm_left(node'[t], ticks') \in Nat  BY <1>6, LeftType
    <3>2. QED  BY <1>5, <1>7, <2>2, <3>1
  <2>3. QED  BY <2>1, <2>2
<1>8. ExactInv'  BY <1>3, <1>7 DEF ExactInv
<1>9. ASSUME NEW t \in Timers
      PROVE  /\ t \in fired' <=> Due(node[t]) = ticks'
             /\ t \notin fired' => Due(node'[t]) = Due(node[t])
             /\ t \in fired' => IF Period(node[t]) = 0
                                THEN Due(node'[t]) = 0 \/ Due(node'[t]) > ticks'
                                ELSE Due(node'[t]) = ticks' + Period(node[t])
             /\ Period(node'[t]) = Period(node[t])
  <2>0. /\ node[t].create \in Nat /\ node[t].expires \in Nat /\ ticks' \in Nat \ {0}
        /\ node'[t].create \in Nat /\ node'[t].expires \in Nat
    BY <1>6 DEF Node
  <2>1. CASE t \in fired'
    <3>1. HasFired(node[t], node'[t], ticks', again[t])  BY <1>5, <2>1
    <3>2. node[t].pending /\ Due(node[t]) = ticks'  BY <3>1 DEF HasFired, Due
    <3>3. node[t].expires > 0  BY <3>2, ExpiresPositive
    <3>4. CASE node[t].cycle
      <4>1. Period(node[t]) = node[t].expires /\ Due(node'[t]) = ticks' + node[t].expires
        BY <3>1, <3>2, <3>4 DEF HasFired, Due, Period
      <4>2. Period(node'[t]) = node[t].expires  BY <3>1, <3>4 DEF HasFired, Period
      <4>3. QED  BY <2>0, <2>1, <3>2, <3>3, <4>1, <4>2
    <3>5. CASE ~node[t].cycle
      <4>1. Period(node[t]) = 0 /\ Period(node'[t]) = 0
        BY <3>1, <3>5 DEF HasFired, Period
      <4>2. CASE again[t] = 0
        <5>1. Due(node'[t]) = 0  BY <3>1, <3>5, <4>2 DEF HasFired, Due
        <5>2. QED  BY <2>1, <3>2, <4>1, <5>1
      <4>3. CASE again[t] # 0
        <5>1. again[t] \in Nat \ {0}  BY <1>6, <4>3, AfterBound
        <5>2. Due(node'[t]) = ticks' + again[t]  BY <3>1, <3>5, <4>3 DEF HasFired, Due
        <5>3. Due(node'[t]) > ticks'  BY <2>0, <5>1, <5>2
        <5>4. QED  BY <2>1, <3>2, <4>1, <5>3
      <4>4. QED  BY <4>2, <4>3
    <3>6. QED  BY <3>4, <3>5
  <2>2. CASE t \notin fired'
    <3>1. Due(node'[t]) = Due(node[t]) /\ Period(node'[t]) = Period(node[t])
      BY <1>5, <2>2 DEF Due, Period
    <3>2. ASSUME Due(node[t]) = ticks'  PROVE FALSE
      <4>1. node[t].pending /\ node[t].create + node[t].expires = ticks'
        BY <2>0, <3>2 DEF Due
      <4>2. node'[t].pending /\ node'[t].create + node'[t].expires = ticks'
        BY <1>5, <2>2, <4>1
      <4>3. tm_left(node'[t], ticks') = 0  BY <2>0, <4>2 DEF tm_left
      <4>4. QED  BY <1>5, <2>2, <4>2, <4>3
    <3>3. QED  BY <2>2, <3>1, <3>2
  <2>3. QED  BY <2>1, <2>2
<1>10. fired' \in SUBSET Timers  BY <1>3 DEF TypeOK
<1>11. fired' = {t \in Timers : Due(node[t]) = ticks'}  BY <1>9, <1>10
<1>12. [t \in Timers |-> Due(node'[t])] =
         [t \in Timers |-> IF t \in fired' THEN Due(node'[t]) ELSE Due(node[t])]
  BY <1>9
<1>13. [t \in Timers |-> Period(node'[t])] = [t \in Timers |-> Period(node[t])]
  BY <1>9
<1>14. \A t \in fired' : /\ t \in Timers
                         /\ IF Period(node[t]) = 0
                            THEN Due(node'[t]) = 0 \/ Due(node'[t]) > ticks'
                            ELSE Due(node'[t]) = ticks' + Period(node[t])
  BY <1>9, <1>10
<1>15. alarms!Tick
  BY <1>1, <1>11, <1>12, <1>13, <1>14 DEF alarms!Tick, Due, Period
<1>16. QED  BY <1>8, <1>15

\* The calls that touch one timer keep the others' time.
LEMMA OneExact ==
    ASSUME ExactInv, WheelInv', NEW t \in Timers, NEW nd \in Node,
           node' = [node EXCEPT ![t] = nd], ticks' = ticks,
           nd.pending => tm_left(nd, ticks) > 0
    PROVE  ExactInv'
<1>1. \A s \in Timers : node'[s] = IF s = t THEN nd ELSE node[s]
  BY DEF ExactInv, WheelInv, TypeOK
<1>2. \A s \in Timers : node'[s].pending => tm_left(node'[s], ticks) > 0
  BY <1>1 DEF ExactInv
<1>3. QED  BY <1>2 DEF ExactInv

\* Inserting a timer sets its alarm.
LEMMA InsertIsSet ==
    ASSUME ExactInv, WheelInv', NEW t \in Timers, NEW a \in After, NEW c \in BOOLEAN,
           os_tm_insert(t, a, c)
    PROVE  alarms!Set(t) /\ ExactInv'
<1> DEFINE nd == [node[t] EXCEPT !.create = ticks, !.expires = a, !.cycle = c]
           new == tm_insert(nd, ticks, current)
<1>0. TypeOK /\ ticks \in Nat /\ current \in Currents /\ node[t] \in Node /\ a \in Nat \ {0}
  BY AfterBound DEF ExactInv, WheelInv, TypeOK, Currents
<1>1. nd \in Node /\ nd.create = ticks /\ nd.expires = a  BY <1>0 DEF Node
<1>2. /\ node' = [node EXCEPT ![t] = new] /\ ~node[t].pending
      /\ fired' = {} /\ ticks' = ticks
  BY DEF os_tm_insert
<1> HIDE DEF nd
<1>3. /\ new \in Node /\ new.pending /\ new.create = ticks /\ new.expires = a
      /\ tm_left(new, ticks) = tm_left(nd, ticks)
  BY <1>0, <1>1, InsertKeeps
<1>4. tm_left(nd, ticks) > 0  BY <1>0, <1>1 DEF tm_left
<1> HIDE DEF new
<1>5. ExactInv'  BY <1>2, <1>3, <1>4, OneExact
<1>6. alarms!Others(t) /\ node'[t] = new  BY <1>0, <1>2, <1>3, OthersKept
<1>7. Due(node[t]) = 0  BY <1>2 DEF Due
<1>8. Due(node'[t]) = ticks + a  BY <1>3, <1>6 DEF Due
<1>9. Period(node'[t]) \in {0, a}  BY <1>3, <1>6 DEF Period
<1>10. Due(node'[t]) > ticks /\ Due(node'[t]) - ticks = a  BY <1>0, <1>8
<1>11. alarms!Set(t)  BY <1>6, <1>7, <1>9, <1>10 DEF alarms!Set, Due, Period
<1>12. QED  BY <1>5, <1>11

\* A pending timer has a due tick that is not 0.
LEMMA PendingIsDue ==
    ASSUME ExactInv, NEW t \in Timers, node[t].pending
    PROVE  Due(node[t]) # 0 /\ node[t].create + node[t].expires > ticks
<1>1. node[t].create \in Nat /\ node[t].expires \in Nat /\ ticks \in Nat
  BY DEF ExactInv, WheelInv, TypeOK, Node
<1>2. tm_left(node[t], ticks) > 0  BY DEF ExactInv
<1>3. QED  BY <1>1, <1>2 DEF tm_left, Due

\* Removing a timer cancels its alarm.
LEMMA RemoveIsCancel ==
    ASSUME ExactInv, WheelInv', NEW t \in Timers, os_tm_remove(t)
    PROVE  alarms!Cancel(t) /\ ExactInv'
<1>1. ZeroNode \in Node /\ ~ZeroNode.pending
  <2>1. 0 \in RingId /\ 0 \in 0..(Slots - 1)  BY WheelAssumption DEF RingId
  <2>2. QED  BY <2>1 DEF ZeroNode, Node
<1>2. /\ node' = [node EXCEPT ![t] = ZeroNode] /\ node[t].pending
      /\ fired' = {} /\ ticks' = ticks /\ TypeOK
  BY DEF os_tm_remove, ExactInv, WheelInv
<1>3. ExactInv'  BY <1>1, <1>2, OneExact
<1>4. alarms!Others(t) /\ node'[t] = ZeroNode  BY <1>1, <1>2, OthersKept
<1>5. Due(node[t]) # 0  BY <1>2, PendingIsDue
<1>6. Due(node'[t]) = 0 /\ Period(node'[t]) = 0  BY <1>1, <1>4 DEF Due, Period
<1>7. alarms!Cancel(t)  BY <1>4, <1>5, <1>6 DEF alarms!Cancel, Due, Period
<1>8. QED  BY <1>3, <1>7

\* Changing a timer to at least one tick postpones its alarm.
LEMMA ChangeIsPostpone ==
    ASSUME ExactInv, WheelInv', NEW t \in Timers, NEW a \in Change, a # 0,
           os_tm_change(t, a)
    PROVE  alarms!Postpone(t) /\ ExactInv'
<1> DEFINE nd == Changed(node[t], a, ticks)
           new == tm_insert(nd, ticks, current)
<1>0. /\ TypeOK /\ ticks \in Nat /\ current \in Currents /\ node[t] \in Node
      /\ Sound(node[t], ticks) /\ a \in Nat \ {0}
  BY ChangeAssumption, MaxLifeType DEF ExactInv, WheelInv, TypeOK, Currents, NodesInTime
<1>1. /\ node' = [node EXCEPT ![t] = new] /\ node[t].pending
      /\ fired' = {} /\ ticks' = ticks
      /\ ticks - node[t].create + a <= MaxLife
  BY DEF os_tm_change, Changed
<1>2. Due(node[t]) # 0 /\ node[t].create + node[t].expires > ticks  BY <1>1, PendingIsDue
<1>3. node[t].create \in Nat /\ node[t].expires \in Nat /\ node[t].create <= ticks
  BY <1>0 DEF Node, Sound
<1>4. /\ nd \in Node /\ nd.cycle = node[t].cycle /\ nd.create = node[t].create
      /\ nd.expires = ticks - node[t].create + a
  <2>1. node[t].create + node[t].expires >= ticks  BY <1>0, <1>2, <1>3
  <2>2. QED  BY <1>0, <1>1, <2>1, ChangedIs
<1> HIDE DEF nd
<1>5. /\ new \in Node /\ new.pending /\ new.cycle = node[t].cycle
      /\ new.create = node[t].create /\ new.expires = ticks - node[t].create + a
      /\ tm_left(new, ticks) = tm_left(nd, ticks)
  BY <1>0, <1>4, InsertKeeps
<1>6. tm_left(nd, ticks) > 0  BY <1>0, <1>3, <1>4 DEF tm_left
<1> HIDE DEF new
<1>7. ExactInv'  BY <1>1, <1>5, <1>6, OneExact
<1>8. alarms!Others(t) /\ node'[t] = new  BY <1>0, <1>1, <1>5, OthersKept
<1>9. Due(node'[t]) > ticks
  <2>1. Due(node'[t]) = node[t].create + (ticks - node[t].create + a)
    BY <1>5, <1>8 DEF Due
  <2>2. QED  BY <1>0, <1>3, <2>1
<1>10. Period(node'[t]) = 0 <=> Period(node[t]) = 0
  <2>1. ticks - node[t].create + a # 0  BY <1>0, <1>3
  <2>2. node[t].expires # 0  BY <1>1, ExpiresPositive, <1>3
  <2>3. QED  BY <1>1, <1>5, <1>8, <2>1, <2>2 DEF Period
<1>11. alarms!Postpone(t)
  BY <1>2, <1>8, <1>9, <1>10 DEF alarms!Postpone, Due, Period
<1>12. QED  BY <1>7, <1>11

\* Every step of the wheel is a step of the alarms.
LEMMA StepIsAlarm ==
    ASSUME 0 \notin Change, ExactInv, [Next]_wheelVars
    PROVE  [alarms!AlarmsNext]_(alarms!alarmVars) /\ ExactInv'
<1>0. WheelInv'  BY NextInv DEF ExactInv
<1>1. ASSUME NEW t \in Timers, NEW a \in After, NEW c \in BOOLEAN, os_tm_insert(t, a, c)
      PROVE  alarms!AlarmsNext /\ ExactInv'
  BY <1>0, <1>1, InsertIsSet DEF alarms!AlarmsNext
<1>2. ASSUME NEW t \in Timers, os_tm_remove(t)
      PROVE  alarms!AlarmsNext /\ ExactInv'
  BY <1>0, <1>2, RemoveIsCancel DEF alarms!AlarmsNext
<1>3. ASSUME NEW t \in Timers, NEW a \in Change, os_tm_change(t, a)
      PROVE  alarms!AlarmsNext /\ ExactInv'
  BY <1>0, <1>3, ChangeIsPostpone DEF alarms!AlarmsNext
<1>4. CASE os_tm_trigger
  BY <1>4, TriggerIsTick DEF alarms!AlarmsNext
<1>5. CASE UNCHANGED wheelVars
  <2>1. ExactInv'  BY <1>0, <1>5 DEF wheelVars, ExactInv
  <2>2. UNCHANGED alarms!alarmVars  BY <1>5 DEF wheelVars, alarms!alarmVars
  <2>3. QED  BY <2>1, <2>2
<1>6. QED  BY <1>1, <1>2, <1>3, <1>4, <1>5 DEF Next

\* Whatever the number and size of the rings, the wheel implements the
\* alarms: every timer fires on the tick it was set for, on no other, and
\* once.  os_tm_change must not be asked for zero ticks.
THEOREM FiresOnTime ==
    ASSUME 0 \notin Change
    PROVE  Spec => FiresExactly
<1>1. Init => ExactInv /\ alarms!AlarmsInit
  <2> SUFFICES ASSUME Init  PROVE ExactInv /\ alarms!AlarmsInit
    OBVIOUS
  <2>1. ~ZeroNode.pending  BY DEF ZeroNode
  <2>2. \A t \in Timers : node[t] = ZeroNode  BY DEF Init
  <2>3. ExactInv  BY <2>1, <2>2, InitInv DEF ExactInv
  <2>4. alarms!AlarmsInit  BY <2>1, <2>2 DEF Init, alarms!AlarmsInit, alarms!Unset
  <2>5. QED  BY <2>3, <2>4
<1>2. ExactInv /\ [Next]_wheelVars => ExactInv' /\ [alarms!AlarmsNext]_(alarms!alarmVars)
  BY StepIsAlarm
<1>3. QED  BY <1>1, <1>2, PTL DEF Spec, FiresExactly, alarms!AlarmsSpec
=============================================================================
