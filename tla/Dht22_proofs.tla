----------------------------- MODULE Dht22_proofs -----------------------------
(***************************************************************************)
(* Proofs about Dht22: for bytes of any width, any time-out and any amount *)
(* of preemption, no reading is returned whose bits were shifted by a      *)
(* level that was missed, or one of whose bits is wrong, and one that was  *)
(* not disturbed is exact.                                                 *)
(***************************************************************************)
EXTENDS Dht22, FiniteSetTheorems, WellFoundedInduction, TLAPS

-----------------------------------------------------------------------------
(* Induction over the bits of a byte.  The prover cannot instantiate an    *)
(* induction rule for predicates, but it can speak of the set of those n   *)
(* that have a property, and a set of numbers has a least one.             *)

Below == {ss \in Nat \X Nat : ss[1] < ss[2]}

LEMMA BelowWellFounded == IsWellFoundedOn(Below, Nat)
BY NatLessThanWellFounded, Zenon DEF OpToRel, Below

\* A set that has 0 and, with any number, the next one up to n, has all of them.
LEMMA Climb ==
  ASSUME NEW n \in Nat, NEW T, 0 \in T, \A j \in 1 .. n : j - 1 \in T => j \in T
  PROVE  0 .. n \subseteq T
<1> DEFINE U == (0 .. n) \ T
<1>1. SUFFICES ASSUME U # {} PROVE FALSE
  OBVIOUS
<1>2. U \subseteq Nat
  OBVIOUS
<1>3. PICK x \in U : \A y \in U : <<y, x>> \notin Below
  <2> HIDE DEF U
  <2> QED BY <1>1, <1>2, WFMin, BelowWellFounded
<1>4. x - 1 \in U /\ x \in Nat
  BY <1>3
<1>5. <<x - 1, x>> \in Below
  <2> HIDE DEF U
  <2> QED BY <1>2, <1>4 DEF Below
<1> QED BY <1>3, <1>4, <1>5

-----------------------------------------------------------------------------
(* Division.                                                               *)

\* What defines quotient and remainder ...
LEMMA DivMod ==
  ASSUME NEW p \in Nat \ {0}, NEW v \in Int
  PROVE  v = (v \div p) * p + (v % p) /\ v % p \in 0 .. p - 1 /\ v \div p \in Int
OBVIOUS

\* Products, for a prover that only knows linear arithmetic.
LEMMA MulStep ==
  ASSUME NEW p \in Nat \ {0}, NEW q \in Int, q >= 1
  PROVE  q * p >= p
OBVIOUS

LEMMA Distr ==
  ASSUME NEW p \in Int, NEW q \in Int, NEW s \in Int
  PROVE  (q - s) * p = q * p - s * p
OBVIOUS

\* No other quotient and remainder do.
LEMMA DivUnique ==
  ASSUME NEW p \in Nat \ {0}, NEW q \in Int, NEW r \in 0 .. p - 1
  PROVE  (q * p + r) \div p = q /\ (q * p + r) % p = r
<1> DEFINE v == q * p + r
           a == v \div p
<1>1. v \in Int /\ q * p \in Int
  OBVIOUS
<1>2. v = a * p + (v % p) /\ v % p \in 0 .. p - 1 /\ a \in Int
  <2> HIDE DEF v
  <2> QED BY <1>1, DivMod
<1>3. (q - a) * p = q * p - a * p /\ (a - q) * p = a * p - q * p
  <2> HIDE DEF a
  <2> QED BY <1>2, Distr
<1>4. ~(q - a >= 1)
  <2> SUFFICES ASSUME q - a >= 1 PROVE FALSE
    OBVIOUS
  <2>1. (q - a) * p >= p
    <3> HIDE DEF a
    <3> QED BY <1>2, MulStep
  <2> QED BY <1>1, <1>2, <1>3, <2>1
<1>5. ~(a - q >= 1)
  <2> SUFFICES ASSUME a - q >= 1 PROVE FALSE
    OBVIOUS
  <2>1. (a - q) * p >= p
    <3> HIDE DEF a
    <3> QED BY <1>2, MulStep
  <2> QED BY <1>1, <1>2, <1>3, <2>1
<1>6. a = q
    <3> HIDE DEF a
    <3> QED BY <1>2, <1>4, <1>5
<1> QED BY <1>1, <1>2, <1>6

\* Without its last bit.
LEMMA Halves ==
  ASSUME NEW p \in Nat \ {0}, NEW v \in Int
  PROVE  v \div p = 2 * (v \div (2 * p)) + ((v \div p) % 2)
<1> DEFINE a == v \div p
           r == v % p
           c == a \div 2
           d == a % 2
<1>1. v = a * p + r /\ r \in 0 .. p - 1 /\ a \in Int
  BY DivMod
<1>2. a = 2 * c + d /\ d \in {0, 1} /\ c \in Int
  <2> HIDE DEF a
  <2> QED BY <1>1
<1>3. d * p + r \in 0 .. 2 * p - 1
  <2> HIDE DEF d, r
  <2> QED BY <1>1, <1>2
<1>4. v = c * (2 * p) + (d * p + r)
  <2> HIDE DEF c, d, r, a
  <2>1. d * p \in Int /\ c * p \in Int
    BY <1>2
  <2>2. (2 * c + d) * p = 2 * (c * p) + d * p /\ c * (2 * p) = 2 * (c * p)
    BY <1>2
  <2> QED BY <1>1, <1>2, <2>1, <2>2
<1>5. v \div (2 * p) = c
  <2> DEFINE s == d * p + r
  <2>1. s \in 0 .. 2 * p - 1 /\ v = c * (2 * p) + s
    BY <1>3, <1>4
  <2> HIDE DEF s, c
  <2>2. 2 * p \in Nat \ {0}
    OBVIOUS
  <2> QED BY <1>2, <2>1, <2>2, DivUnique
<1> QED BY <1>2, <1>5

\* Numbers that differ by less than the modulus are told apart by it.
LEMMA ModDiff ==
  ASSUME NEW p \in Nat \ {0}, NEW a \in Int, NEW d \in 1 .. p - 1, (a + d) % p = a % p
  PROVE  FALSE
<1> DEFINE q == a \div p
           s == (a + d) \div p
           r == a % p
<1>1. a = q * p + r /\ q \in Int /\ r \in Int
  BY DivMod
<1>2. a + d = s * p + r /\ s \in Int
  <2>1. a + d \in Int /\ (a + d) % p = r
    OBVIOUS
  <2>2. \A v \in Int : v = (v \div p) * p + (v % p) /\ v \div p \in Int
    BY DivMod
  <2> QED BY <2>1, <2>2
<1> HIDE DEF q, s, r
<1>3. (s - q) * p = s * p - q * p /\ (q - s) * p = q * p - s * p /\ s * p \in Int /\ q * p \in Int
  BY <1>1, <1>2, Distr
<1>4. (s - q) * p = d
  BY <1>1, <1>2, <1>3
<1>5. CASE s - q >= 1
  <2>1. (s - q) * p >= p
    BY <1>1, <1>2, <1>5, MulStep
  <2> QED BY <1>4, <2>1
<1>6. CASE s - q <= 0
  <2>1. q - s >= 1 \/ s = q
    BY <1>1, <1>2, <1>6
  <2>2. q - s >= 1 => (q - s) * p >= p
    BY <1>1, <1>2, MulStep
  <2> QED BY <1>1, <1>2, <1>3, <2>1, <2>2
<1> QED BY <1>1, <1>2, <1>5, <1>6

\* A number of one digit.
LEMMA Small ==
  ASSUME NEW p \in Nat \ {0}, NEW v \in 0 .. p - 1
  PROVE  v \div p = 0 /\ v % p = v
<1>1. (0 * p + v) \div p = 0 /\ (0 * p + v) % p = v
  BY DivUnique
<1> QED BY <1>1

\* The upper digit of a number below q * p.
LEMMA TwoDigits ==
  ASSUME NEW p \in Nat \ {0}, NEW q \in Nat, NEW v \in 0 .. q * p - 1
  PROVE  v \div p \in 0 .. q - 1
<1> DEFINE a == v \div p
<1>1. v = a * p + (v % p) /\ v % p \in 0 .. p - 1 /\ a \in Int
  BY DivMod
<1> HIDE DEF a
<1>2. a * p \in Int /\ (a - q) * p = a * p - q * p /\ (0 - a) * p = 0 * p - a * p
  BY <1>1, Distr
<1>3. ~(a >= q)
  <2> SUFFICES ASSUME a >= q PROVE FALSE
    OBVIOUS
  <2>1. a = q \/ a - q >= 1
    BY <1>1
  <2>2. a - q >= 1 => (a - q) * p >= p
    BY <1>1, MulStep
  <2>3. q * p \in Int
    OBVIOUS
  <2> QED BY <1>1, <1>2, <2>1, <2>2, <2>3
<1>4. ~(a < 0)
  <2> SUFFICES ASSUME 0 - a >= 1 PROVE FALSE
    BY <1>1
  <2>1. (0 - a) * p >= p
    BY <1>1, MulStep
  <2> QED BY <1>1, <1>2, <2>1
<1> QED BY <1>1, <1>3, <1>4 DEF a

-----------------------------------------------------------------------------
(* Bits and bytes.                                                         *)

\* A recursion that doubles and adds defines a function.
LEMMA Doubling ==
  ASSUME NEW n \in Nat, NEW c \in Int, NEW g \in [1 .. n -> Int]
  PROVE  \E v \in [0 .. n -> Int] : v[0] = c /\ \A j \in 1 .. n : v[j] = 2 * v[j - 1] + g[j]
<1> DEFINE UpTo(m) == {v \in [0 .. m -> Int] :
                         v[0] = c /\ \A j \in 1 .. m : v[j] = 2 * v[j - 1] + g[j]}
           T == {m \in 0 .. n : UpTo(m) # {}}
<1>1. 0 \in T
  <2>1. [j \in 0 .. 0 |-> c] \in UpTo(0)
    OBVIOUS
  <2> QED BY <2>1
<1>2. ASSUME NEW m \in 1 .. n, m - 1 \in T
      PROVE  m \in T
  <2>1. PICK v \in UpTo(m - 1) : TRUE
    BY <1>2
  <2>2. v \in [0 .. m - 1 -> Int] /\ v[0] = c /\ \A j \in 1 .. m - 1 : v[j] = 2 * v[j - 1] + g[j]
    BY <2>1
  <2> DEFINE w == [j \in 0 .. m |-> IF j = m THEN 2 * v[m - 1] + g[m] ELSE v[j]]
  <2>3. w \in [0 .. m -> Int]
    <3>1. 2 * v[m - 1] + g[m] \in Int
      BY <2>2
    <3> QED BY <2>2, <3>1
  <2>4. w[0] = c /\ \A j \in 1 .. m : w[j] = 2 * w[j - 1] + g[j]
    BY <2>2
  <2>5. w \in UpTo(m)
    <3> HIDE DEF w
    <3> QED BY <2>3, <2>4
  <2> HIDE DEF UpTo
  <2> QED BY <2>5
<1>3. n \in T
  <2> HIDE DEF T
  <2>1. 0 .. n \subseteq T
    BY <1>1, <1>2, Climb
  <2> QED BY <2>1
<1> QED BY <1>3

\* Powers of two.
LEMMA ShiftedValue ==
  /\ Shifted \in [0 .. Width -> Nat \ {0}] /\ Shifted[0] = 1
  /\ \A n \in 1 .. Width : Shifted[n] = 2 * Shifted[n - 1]
<1> DEFINE none == [j \in 1 .. Width |-> 0]
<1>0. none \in [1 .. Width -> Int] /\ \A n \in 1 .. Width : none[n] = 0
  OBVIOUS
<1>1. PICK v \in [0 .. Width -> Int] : v[0] = 1 /\ \A n \in 1 .. Width : v[n] = 2 * v[n - 1]
  <2> HIDE DEF none
  <2>1. PICK v \in [0 .. Width -> Int] : v[0] = 1 /\ \A n \in 1 .. Width : v[n] = 2 * v[n - 1] + none[n]
    <3>1. Width \in Nat /\ 1 \in Int
      BY WidthAssumption
    <3> QED BY <1>0, <3>1, Doubling, Zenon
  <2>2. ASSUME NEW n \in 1 .. Width PROVE v[n] = 2 * v[n - 1]
    <3>1. v[n] = 2 * v[n - 1] + 0 /\ v[n - 1] \in Int
      BY <1>0, <2>1, WidthAssumption
    <3> QED BY <3>1
  <2> QED BY <2>1, <2>2
<1>2. v = [n \in 0 .. Width |-> IF n = 0 THEN 1 ELSE 2 * v[n - 1]]
  BY <1>1, WidthAssumption
<1>3. Shifted = [n \in 0 .. Width |-> IF n = 0 THEN 1 ELSE 2 * Shifted[n - 1]]
  BY <1>2, Zenon DEF Shifted
<1>4. Shifted[0] = 1 /\ \A n \in 1 .. Width : Shifted[n] = 2 * Shifted[n - 1]
  BY <1>3, WidthAssumption
<1>5. Shifted \in [0 .. Width -> Nat \ {0}]
  <2> DEFINE T == {n \in 0 .. Width : Shifted[n] \in Nat \ {0}}
  <2>1. 0 .. Width \subseteq T
    <3>1. 0 \in T /\ \A j \in 1 .. Width : j - 1 \in T => j \in T
      BY <1>4, WidthAssumption
    <3> HIDE DEF T
    <3> QED BY <3>1, Climb, WidthAssumption
  <2> QED BY <1>3, <2>1
<1> QED BY <1>4, <1>5

\* No byte has a place for a carry.
LEMMA ShiftedGrows == \A n \in 0 .. Width - 1 : Shifted[n] < Byte
<1> DEFINE T == {j \in 0 .. Width : \A n \in 0 .. j - 1 : Shifted[n] < Shifted[j]}
<1>1. 0 \in T
  BY WidthAssumption
<1>2. ASSUME NEW j \in 1 .. Width, j - 1 \in T
      PROVE  j \in T
  <2>1. Shifted[j] = 2 * Shifted[j - 1] /\ Shifted[j - 1] \in Nat \ {0}
    BY ShiftedValue, WidthAssumption
  <2>2. ASSUME NEW n \in 0 .. j - 1 PROVE Shifted[n] < Shifted[j]
    <3>1. Shifted[n] \in Nat
      BY ShiftedValue, WidthAssumption
    <3>2. n = j - 1 \/ n \in 0 .. (j - 1) - 1
      OBVIOUS
    <3>3. n = j - 1 \/ Shifted[n] < Shifted[j - 1]
      BY <1>2, <3>2
    <3> QED BY <2>1, <3>1, <3>3
  <2> QED BY <2>2
<1>3. 0 .. Width \subseteq T
  <2> HIDE DEF T
  <2> QED BY <1>1, <1>2, Climb, WidthAssumption
<1> QED BY <1>3, WidthAssumption DEF Byte

\* What ByteAt computes.
LEMMA ByteAtValue ==
  ASSUME NEW f \in [Bits -> {0, 1}], NEW k \in 0 .. 4
  PROVE  \E v \in [0 .. Width -> Int] :
           /\ v[0] = 0
           /\ \A j \in 1 .. Width : v[j] = 2 * v[j - 1] + f[k * Width + j - 1]
           /\ ByteAt(f, k) = v[Width]
<1> DEFINE g == [j \in 1 .. Width |-> f[k * Width + j - 1]]
           value[j \in 0 .. Width] == IF j = 0 THEN 0 ELSE 2 * value[j - 1] + f[k * Width + j - 1]
<1>1. g \in [1 .. Width -> Int]
  <2>1. \A j \in 1 .. Width : k * Width + j - 1 \in Bits
    BY WidthAssumption DEF Bits, NBits
  <2> QED BY <2>1
<1>2. \A j \in 1 .. Width : g[j] = f[k * Width + j - 1]
  OBVIOUS
<1>3. PICK v \in [0 .. Width -> Int] : v[0] = 0 /\ \A j \in 1 .. Width : v[j] = 2 * v[j - 1] + g[j]
  <2> HIDE DEF g
  <2>1. Width \in Nat /\ 0 \in Int
    BY WidthAssumption
  <2> QED BY <1>1, <2>1, Doubling, Zenon
<1>4. v = [j \in 0 .. Width |-> IF j = 0 THEN 0 ELSE 2 * v[j - 1] + f[k * Width + j - 1]]
  <2> HIDE DEF g
  <2> QED BY <1>2, <1>3, WidthAssumption
<1>5. value = [j \in 0 .. Width |-> IF j = 0 THEN 0 ELSE 2 * value[j - 1] + f[k * Width + j - 1]]
  BY <1>4, Zenon
<1>6. ByteAt(f, k) = value[Width]
  BY Zenon DEF ByteAt
<1> HIDE DEF value
<1>7. value[0] = 0 /\ \A j \in 1 .. Width : value[j] = 2 * value[j - 1] + f[k * Width + j - 1]
  BY <1>5, WidthAssumption
<1>8. value \in [0 .. Width -> Int]
  <2> DEFINE T == {n \in 0 .. Width : value[n] \in Int}
  <2>1. 0 \in T /\ \A j \in 1 .. Width : j - 1 \in T => j \in T
    <3>1. \A j \in 1 .. Width : f[k * Width + j - 1] \in Int
      BY <1>1, <1>2
    <3>2. ASSUME NEW j \in 1 .. Width, value[j - 1] \in Int PROVE value[j] \in Int
      <4>1. f[k * Width + j - 1] \in Int
        BY <3>1
      <4> QED BY <1>7, <3>2, <4>1
    <3> QED BY <1>7, <3>2, WidthAssumption
  <2>2. 0 .. Width \subseteq T
    <3> HIDE DEF T
    <3> QED BY <2>1, Climb, WidthAssumption
  <2> QED BY <1>5, <2>2
<1> QED BY <1>6, <1>7, <1>8

\* Two frames with the same bits in byte k.
LEMMA SameByte ==
  ASSUME NEW f \in [Bits -> {0, 1}], NEW h \in [Bits -> {0, 1}], NEW k \in 0 .. 4,
         \A j \in 1 .. Width : f[k * Width + j - 1] = h[k * Width + j - 1]
  PROVE  ByteAt(f, k) = ByteAt(h, k)
<1>1. PICK v \in [0 .. Width -> Int] :
        /\ v[0] = 0 /\ \A j \in 1 .. Width : v[j] = 2 * v[j - 1] + f[k * Width + j - 1]
        /\ ByteAt(f, k) = v[Width]
  BY ByteAtValue
<1>2. PICK w \in [0 .. Width -> Int] :
        /\ w[0] = 0 /\ \A j \in 1 .. Width : w[j] = 2 * w[j - 1] + h[k * Width + j - 1]
        /\ ByteAt(h, k) = w[Width]
  BY ByteAtValue
<1> DEFINE T == {j \in 0 .. Width : v[j] = w[j]}
<1>3. 0 \in T
  BY <1>1, <1>2, WidthAssumption
<1>4. ASSUME NEW j \in 1 .. Width, v[j - 1] = w[j - 1]
      PROVE  v[j] = w[j]
  BY <1>1, <1>2, <1>4
<1>5. 0 .. Width \subseteq T
  <2>1. \A j \in 1 .. Width : j - 1 \in T => j \in T
    BY <1>4
  <2> HIDE DEF T
  <2> QED BY <1>3, <2>1, Climb, WidthAssumption
<1> QED BY <1>1, <1>2, <1>5, WidthAssumption

\* ... and two that differ in one of them.
LEMMA OtherByte ==
  ASSUME NEW f \in [Bits -> {0, 1}], NEW h \in [Bits -> {0, 1}], NEW k \in 0 .. 4,
         NEW n \in 1 .. Width,
         f[k * Width + n - 1] = 1, h[k * Width + n - 1] = 0,
         \A j \in (1 .. Width) \ {n} : f[k * Width + j - 1] = h[k * Width + j - 1]
  PROVE  /\ ByteAt(f, k) \in Int /\ ByteAt(h, k) \in Int
         /\ ByteAt(f, k) - ByteAt(h, k) \in 1 .. Byte - 1
<1>1. PICK v \in [0 .. Width -> Int] :
        /\ v[0] = 0 /\ \A j \in 1 .. Width : v[j] = 2 * v[j - 1] + f[k * Width + j - 1]
        /\ ByteAt(f, k) = v[Width]
  BY ByteAtValue
<1>2. PICK w \in [0 .. Width -> Int] :
        /\ w[0] = 0 /\ \A j \in 1 .. Width : w[j] = 2 * w[j - 1] + h[k * Width + j - 1]
        /\ ByteAt(h, k) = w[Width]
  BY ByteAtValue
<1>3. \A j \in 1 .. Width : f[k * Width + j - 1] \in {0, 1} /\ h[k * Width + j - 1] \in {0, 1}
  <2>1. \A j \in 1 .. Width : k * Width + j - 1 \in Bits
    BY WidthAssumption DEF Bits, NBits
  <2> QED BY <2>1
<1> DEFINE T == {j \in 0 .. Width : v[j] - w[j] = IF j < n THEN 0 ELSE Shifted[j - n]}
<1>4. 0 \in T
  BY <1>1, <1>2, WidthAssumption
<1>5. ASSUME NEW j \in 1 .. Width, j - 1 \in T
      PROVE  j \in T
  <2>1. /\ v[j - 1] \in Int /\ w[j - 1] \in Int /\ v[j] \in Int /\ w[j] \in Int
        /\ v[j] = 2 * v[j - 1] + f[k * Width + j - 1]
        /\ w[j] = 2 * w[j - 1] + h[k * Width + j - 1]
    BY <1>1, <1>2, WidthAssumption
  <2>2. v[j - 1] - w[j - 1] = IF j - 1 < n THEN 0 ELSE Shifted[(j - 1) - n]
    BY <1>5
  <2>3. CASE j < n
    BY <1>3, <2>1, <2>2, <2>3
  <2>4. CASE j = n
    <3>1. f[k * Width + j - 1] = 1 /\ h[k * Width + j - 1] = 0
      BY <2>4
    <3>2. j - n = 0 /\ Shifted[j - n] = 1 /\ j - 1 < n
      BY <2>4, ShiftedValue
    <3>3. v[j] - w[j] = 1
      <4>1. v[j - 1] - w[j - 1] = 0
        BY <2>2, <3>2
      <4>2. v[j] = 2 * v[j - 1] + 1 /\ w[j] = 2 * w[j - 1] + 0
        BY <2>1, <3>1
      <4>3. v[j - 1] \in Int /\ w[j - 1] \in Int
        BY <2>1
      <4>4. v[j - 1] = w[j - 1]
        BY <4>1, <4>3
      <4>5. v[j] - w[j] = (2 * w[j - 1] + 1) - (2 * w[j - 1] + 0)
        BY <4>2, <4>4
      <4> QED BY <4>3, <4>5
    <3> QED BY <2>4, <3>2, <3>3
  <2>5. CASE j > n
    <3>1. Shifted[j - n] = 2 * Shifted[(j - n) - 1] /\ Shifted[(j - n) - 1] \in Nat
      <4>1. j - n \in 1 .. Width /\ (j - n) - 1 \in 0 .. Width
        BY <2>5, WidthAssumption
      <4> QED BY <4>1, ShiftedValue
    <3>2. f[k * Width + j - 1] = h[k * Width + j - 1]
      BY <2>5
    <3>3. (j - n) - 1 = (j - 1) - n
      OBVIOUS
    <3>4. v[j - 1] - w[j - 1] = Shifted[(j - n) - 1]
      BY <2>2, <2>5, <3>3
    <3>5. v[j] - w[j] = 2 * v[j - 1] - 2 * w[j - 1]
      <4>1. h[k * Width + j - 1] \in Int
        BY <1>3
      <4> QED BY <2>1, <3>2, <4>1
    <3>6. v[j] - w[j] = Shifted[j - n]
      BY <2>1, <3>1, <3>4, <3>5
    <3> QED BY <2>5, <3>6
  <2> QED BY <2>3, <2>4, <2>5
<1>6. Width \in T
  <2>1. 0 .. Width \subseteq T
    <3> HIDE DEF T
    <3> QED BY <1>4, <1>5, Climb, WidthAssumption
  <2> QED BY <2>1, WidthAssumption
<1>7. v[Width] - w[Width] = Shifted[Width - n] /\ v[Width] \in Int /\ w[Width] \in Int
  BY <1>1, <1>2, <1>6, WidthAssumption
<1>8. Shifted[Width - n] \in Nat \ {0} /\ Shifted[Width - n] < Byte /\ Byte \in Nat
  <2>1. Width - n \in 0 .. Width - 1 /\ Width - n \in 0 .. Width /\ Width \in 0 .. Width
    BY WidthAssumption
  <2> QED BY <2>1, ShiftedValue, ShiftedGrows DEF Byte
<1> QED BY <1>1, <1>2, <1>7, <1>8

\* The number that the bits of byte k were taken from.
LEMMA ByteBack ==
  ASSUME NEW f \in [Bits -> {0, 1}], NEW k \in 0 .. 4, NEW x \in 0 .. Byte - 1,
         \A j \in 1 .. Width : f[k * Width + j - 1] = (x \div Shifted[Width - j]) % 2
  PROVE  ByteAt(f, k) = x
<1>1. PICK v \in [0 .. Width -> Int] :
        /\ v[0] = 0 /\ \A j \in 1 .. Width : v[j] = 2 * v[j - 1] + f[k * Width + j - 1]
        /\ ByteAt(f, k) = v[Width]
  BY ByteAtValue
<1> DEFINE T == {j \in 0 .. Width : v[j] = x \div Shifted[Width - j]}
<1>2. 0 \in T
  <2>1. Byte \in Nat \ {0} /\ Shifted[Width - 0] = Byte
    BY ShiftedValue, WidthAssumption DEF Byte
  <2> QED BY <1>1, <2>1, Small, WidthAssumption
<1>3. ASSUME NEW j \in 1 .. Width, j - 1 \in T
      PROVE  j \in T
  <2> DEFINE p == Shifted[Width - j]
  <2>1. p \in Nat \ {0} /\ Shifted[Width - (j - 1)] = 2 * p
    <3>1. Width - j \in 0 .. Width /\ Width - (j - 1) \in 1 .. Width /\ (Width - (j - 1)) - 1 = Width - j
      BY WidthAssumption
    <3> QED BY <3>1, ShiftedValue
  <2>2. v[j] = 2 * v[j - 1] + f[k * Width + j - 1] /\ v[j - 1] = x \div (2 * p)
    BY <1>1, <1>3, <2>1
  <2>3. f[k * Width + j - 1] = (x \div p) % 2
    OBVIOUS
  <2>4. x \div p = 2 * (x \div (2 * p)) + ((x \div p) % 2)
    <3> HIDE DEF p
    <3>1. x \in Int
      BY ShiftedValue, WidthAssumption DEF Byte
    <3> QED BY <2>1, <3>1, Halves
  <2>5. v[j] = x \div p
    BY <2>2, <2>3, <2>4
  <2> QED BY <2>5
<1>4. Width \in T
  <2>1. 0 .. Width \subseteq T
    <3> HIDE DEF T
    <3> QED BY <1>2, <1>3, Climb, WidthAssumption
  <2> QED BY <2>1, WidthAssumption
<1>5. Width - Width = 0 /\ Shifted[0] = 1 /\ x \div 1 = x
  <2>1. x \in Int
    BY ShiftedValue, WidthAssumption DEF Byte
  <2> QED BY <2>1, ShiftedValue, WidthAssumption
<1> QED BY <1>1, <1>4, <1>5

\* Where bit b of a frame is.
LEMMA Place ==
  ASSUME NEW b \in Bits
  PROVE  /\ b \div Width \in 0 .. 4 /\ b % Width \in 0 .. Width - 1
         /\ b = (b \div Width) * Width + (b % Width)
         /\ \A k \in 0 .. 4, j \in 1 .. Width :
              /\ k * Width + j - 1 \in Bits
              /\ k * Width + j - 1 = b <=> k = b \div Width /\ j = (b % Width) + 1
<1>1. b \div Width \in 0 .. 4 /\ b % Width \in 0 .. Width - 1
  BY WidthAssumption DEF Bits, NBits
<1>2. b = (b \div Width) * Width + (b % Width)
  BY DivMod, WidthAssumption DEF Bits
<1>3. ASSUME NEW k \in 0 .. 4, NEW j \in 1 .. Width
      PROVE  /\ k * Width + j - 1 \in Bits
             /\ k * Width + j - 1 = b <=> k = b \div Width /\ j = (b % Width) + 1
  <2>1. k * Width + j - 1 \in Bits
    BY WidthAssumption DEF Bits, NBits
  <2>2. k * Width + j - 1 = k * Width + (j - 1) /\ j - 1 \in 0 .. Width - 1
    BY WidthAssumption
  <2>3. (k * Width + (j - 1)) \div Width = k /\ (k * Width + (j - 1)) % Width = j - 1
    BY <2>2, DivUnique, WidthAssumption
  <2>4. k * Width + j - 1 = b => k = b \div Width /\ j = (b % Width) + 1
    BY <2>2, <2>3
  <2>5. k = b \div Width /\ j = (b % Width) + 1 => k * Width + j - 1 = b
    <3>1. k * Width \in Int
      BY WidthAssumption
    <3> QED BY <1>1, <1>2, <2>2, <3>1
  <2> QED BY <2>1, <2>4, <2>5
<1> QED BY <1>1, <1>2, <1>3

\* The sum of the checksum notices a bit that is set in one frame only.
LEMMA FlipCaught ==
  ASSUME NEW f \in [Bits -> {0, 1}], NEW h \in [Bits -> {0, 1}], NEW b \in Bits,
         f[b] = 1, h[b] = 0, \A c \in Bits \ {b} : f[c] = h[c],
         ChecksumOk(f), ChecksumOk(h)
  PROVE  FALSE
<1> DEFINE K == b \div Width
           F == ByteAt(f, 0) + ByteAt(f, 1) + ByteAt(f, 2) + ByteAt(f, 3)
           H == ByteAt(h, 0) + ByteAt(h, 1) + ByteAt(h, 2) + ByteAt(h, 3)
<1>1. K \in 0 .. 4 /\ (b % Width) + 1 \in 1 .. Width /\ K * Width + ((b % Width) + 1) - 1 = b
  <2>1. K \in 0 .. 4 /\ (b % Width) + 1 \in 1 .. Width
    <3> DEFINE r == b % Width
    <3>1. K \in 0 .. 4 /\ r \in 0 .. Width - 1
      BY Place
    <3> HIDE DEF r, K
    <3> QED BY <3>1, WidthAssumption DEF r
  <2> QED BY <2>1, Place
<1>2. ByteAt(f, K) - ByteAt(h, K) \in 1 .. Byte - 1
  <2>1. \A j \in (1 .. Width) \ {(b % Width) + 1} : f[K * Width + j - 1] = h[K * Width + j - 1]
    BY <1>1, Place
  <2> QED BY <1>1, <2>1, OtherByte
<1>3. ASSUME NEW k \in (0 .. 4) \ {K}
      PROVE  ByteAt(f, k) = ByteAt(h, k)
  <2>1. \A j \in 1 .. Width : f[k * Width + j - 1] = h[k * Width + j - 1]
    BY Place
  <2> QED BY <2>1, SameByte
<1>4. ASSUME NEW k \in 0 .. 4
      PROVE  ByteAt(f, k) \in Int /\ ByteAt(h, k) \in Int
  <2>1. \A v \in [0 .. Width -> Int] : v[Width] \in Int
    BY WidthAssumption
  <2> QED BY <2>1, ByteAtValue
<1> DEFINE d == ByteAt(f, K) - ByteAt(h, K)
<1>5. d \in 1 .. Byte - 1 /\ Byte \in Nat \ {0}
  BY <1>2, ShiftedValue, WidthAssumption DEF Byte
<1>6. CASE K = 4
  BY <1>2, <1>3, <1>4, <1>6 DEF ChecksumOk
<1>7. CASE K \in 0 .. 3
  <2>1. F = H + d /\ H \in Int
    <3>1. K = 0 \/ K = 1 \/ K = 2 \/ K = 3
      BY <1>7
    <3> HIDE DEF K
    <3> QED BY <1>3, <1>4, <3>1
  <2>2. F % Byte = H % Byte
    BY <1>3, <1>7 DEF ChecksumOk
  <2> HIDE DEF d, F, H
  <2>3. (H + d) % Byte = H % Byte
    BY <2>1, <2>2
  <2> QED BY <1>5, <2>1, <2>3, ModDiff
<1> QED BY <1>1, <1>6, <1>7

-----------------------------------------------------------------------------
(* The frame of a measurement.                                             *)

\* What the sensor is asked to send.
Measurable == [humidity : 0 .. Byte * Byte - 1, temperature : 1 - Sign * Byte .. Sign * Byte - 1]

Magnitude(m) == IF m.temperature < 0 THEN -m.temperature ELSE m.temperature

\* 256, 128, or what they are for bytes of another width.
LEMMA ByteType ==
  Byte \in Nat \ {0} /\ Sign \in Nat \ {0} /\ Byte = 2 * Sign
BY ShiftedValue, WidthAssumption DEF Byte, Sign

\* The elements of a sequence that was appended to.
LEMMA FiveBytes ==
  ASSUME NEW a \in Int, NEW b \in Int, NEW c \in Int, NEW d \in Int, NEW e \in Int
  PROVE  LET s == Append(<<a, b, c, d>>, e)
         IN  s[1] = a /\ s[2] = b /\ s[3] = c /\ s[4] = d /\ s[5] = e
<1> DEFINE four == <<a, b, c, d>>
<1>1. four \in Seq(Int) /\ Len(four) = 4 /\ four[1] = a /\ four[2] = b /\ four[3] = c /\ four[4] = d
  OBVIOUS
<1> HIDE DEF four
<1> QED BY <1>1

\* Sign and magnitude, humidity, and the sum: each fits into its byte.
LEMMA BytesFit ==
  ASSUME NEW m \in Measurable
  PROVE  LET size == Magnitude(m)
             sign == IF m.temperature < 0 THEN Sign ELSE 0
             h    == m.humidity \div Byte
             l    == m.humidity % Byte
             th   == sign + (size \div Byte)
             tl   == size % Byte
             s    == BytesOf(m)
         IN  /\ s[1] = h /\ s[2] = l /\ s[3] = th /\ s[4] = tl /\ s[5] = (h + l + th + tl) % Byte
             /\ m.humidity = h * Byte + l
             /\ size \div Byte \in 0 .. Sign - 1 /\ size = (size \div Byte) * Byte + tl
             /\ \A k \in 0 .. 4 : s[k + 1] \in 0 .. Byte - 1
<1> DEFINE size == Magnitude(m)
           sign == IF m.temperature < 0 THEN Sign ELSE 0
           h    == m.humidity \div Byte
           l    == m.humidity % Byte
           q    == size \div Byte
           th   == sign + q
           tl   == size % Byte
           four == <<h, l, th, tl>>
           sum  == (four[1] + four[2] + four[3] + four[4]) % Byte
           s    == BytesOf(m)
<1>1. m.humidity \in 0 .. Byte * Byte - 1 /\ m.temperature \in 1 - Sign * Byte .. Sign * Byte - 1
  BY DEF Measurable
<1>2. m.humidity \in Int /\ h \in 0 .. Byte - 1 /\ l \in 0 .. Byte - 1 /\ m.humidity = h * Byte + l
  <2>1. m.humidity \in Int
    BY <1>1, ByteType
  <2> QED BY <1>1, <2>1, ByteType, TwoDigits, DivMod
<1>3. size \in 0 .. Sign * Byte - 1
  <2>1. Sign * Byte \in Int
    BY ByteType
  <2> QED BY <1>1, <2>1 DEF Magnitude
<1>4. q \in 0 .. Sign - 1 /\ tl \in 0 .. Byte - 1 /\ size = q * Byte + tl
  <2>1. size \in Int
    BY <1>3, ByteType
  <2> HIDE DEF size
  <2> QED BY <1>3, <2>1, ByteType, TwoDigits, DivMod
<1>5. th \in 0 .. Byte - 1
  <2> HIDE DEF q
  <2> QED BY <1>4, ByteType
<1>6. sum = (h + l + th + tl) % Byte
  OBVIOUS
<1> HIDE DEF h, l, th, tl
<1>7. (h + l + th + tl) % Byte \in 0 .. Byte - 1
  <2> DEFINE t == h + l + th + tl
  <2>1. t \in Int
    BY <1>2, <1>4, <1>5, ByteType
  <2> HIDE DEF t
  <2>2. t % Byte \in 0 .. Byte - 1
    BY <2>1, ByteType, DivMod
  <2> QED BY <2>2 DEF t
<1>8. s = Append(four, sum)
  BY Zenon DEF BytesOf, Magnitude, h, l, th, tl
<1>9. h \in Int /\ l \in Int /\ th \in Int /\ tl \in Int /\ sum \in Int
  BY <1>2, <1>4, <1>5, <1>6, <1>7, ByteType
<1> HIDE DEF sum
<1>10. s[1] = h /\ s[2] = l /\ s[3] = th /\ s[4] = tl /\ s[5] = sum
  BY <1>8, <1>9, FiveBytes
<1>11. ASSUME NEW k \in 0 .. 4 PROVE s[k + 1] \in 0 .. Byte - 1
  <2>1. k + 1 = 1 \/ k + 1 = 2 \/ k + 1 = 3 \/ k + 1 = 4 \/ k + 1 = 5
    OBVIOUS
  <2> QED BY <1>2, <1>4, <1>5, <1>6, <1>7, <1>10, <2>1
<1> HIDE DEF s, size
<1>12. /\ s[1] = h /\ s[2] = l /\ s[3] = th /\ s[4] = tl /\ s[5] = (h + l + th + tl) % Byte
       /\ m.humidity = h * Byte + l
       /\ q \in 0 .. Sign - 1 /\ size = q * Byte + tl
       /\ \A k \in 0 .. 4 : s[k + 1] \in 0 .. Byte - 1
  BY <1>2, <1>4, <1>6, <1>10, <1>11
<1> QED BY <1>12, Zenon DEF h, l, th, tl, s, size

\* A frame consists of bits.
LEMMA FrameOfBits ==
  ASSUME NEW m \in Measurable
  PROVE  Encode(m) \in [Bits -> {0, 1}]
<1> DEFINE bit(b) == (BytesOf(m)[(b \div Width) + 1] \div Shifted[Width - 1 - (b % Width)]) % 2
<1>1. ASSUME NEW b \in Bits
      PROVE  bit(b) \in {0, 1}
  <2> DEFINE k == b \div Width
             r == b % Width
             y == BytesOf(m)[k + 1]
             p == Shifted[Width - 1 - r]
  <2>1. k \in 0 .. 4 /\ r \in 0 .. Width - 1
    BY Place
  <2>2. p \in Nat \ {0}
    <3> HIDE DEF r
    <3> QED BY <2>1, ShiftedValue, WidthAssumption
  <2>3. y \in Int
    <3> HIDE DEF k
    <3> QED BY <2>1, BytesFit, ByteType
  <2> HIDE DEF y, p
  <2>4. (y \div p) % 2 \in {0, 1}
    BY <2>2, <2>3
  <2> QED BY <2>4 DEF y, p
<1> HIDE DEF bit
<1>2. Encode(m) = [b \in Bits |-> bit(b)]
  BY DEF Encode, bit
<1> QED BY <1>1, <1>2

\* ByteAt gives back what Encode was given.
LEMMA BytesBack ==
  ASSUME NEW m \in Measurable, NEW k \in 0 .. 4
  PROVE  ByteAt(Encode(m), k) = BytesOf(m)[k + 1]
<1> DEFINE y == BytesOf(m)[k + 1]
<1>1. y \in 0 .. Byte - 1 /\ Encode(m) \in [Bits -> {0, 1}]
  BY BytesFit, FrameOfBits
<1>2. ASSUME NEW j \in 1 .. Width
      PROVE  Encode(m)[k * Width + j - 1] = (y \div Shifted[Width - j]) % 2
  <2> DEFINE b == k * Width + j - 1
  <2>1. b \in Bits
    BY Place, WidthAssumption DEF Bits, NBits
  <2> HIDE DEF b
  <2>2. b \div Width = k /\ (b % Width) + 1 = j
    BY <2>1, Place DEF b
  <2>3. b % Width \in 0 .. Width - 1
    BY <2>1, Place
  <2>4. Width - 1 - (b % Width) = Width - j
    <3> DEFINE r == b % Width
    <3> HIDE DEF r
    <3> QED BY <2>2, <2>3, WidthAssumption DEF r
  <2>5. Encode(m)[b] = (BytesOf(m)[(b \div Width) + 1] \div Shifted[Width - 1 - (b % Width)]) % 2
    BY <2>1 DEF Encode
  <2> QED BY <2>2, <2>4, <2>5 DEF b
<1> HIDE DEF y
<1> QED BY <1>1, <1>2, ByteBack DEF y

\* The frame of m passes the check and says m.
Carries(m) == ChecksumOk(Encode(m)) /\ Decode(Encode(m)) = m

LEMMA FramesCarry == \A m \in Measurable : Carries(m)
<1> SUFFICES ASSUME NEW m \in Measurable PROVE Carries(m)
  OBVIOUS
<1> DEFINE size == Magnitude(m)
           sign == IF m.temperature < 0 THEN Sign ELSE 0
           q    == size \div Byte
           f    == Encode(m)
           raw  == (ByteAt(f, 2) % Sign) * Byte + ByteAt(f, 3)
<1>1. /\ ByteAt(f, 0) = BytesOf(m)[1] /\ ByteAt(f, 1) = BytesOf(m)[2] /\ ByteAt(f, 2) = BytesOf(m)[3]
      /\ ByteAt(f, 3) = BytesOf(m)[4] /\ ByteAt(f, 4) = BytesOf(m)[5]
  <2> HIDE DEF f
  <2>1. \A k \in 0 .. 4 : ByteAt(f, k) = BytesOf(m)[k + 1]
    BY BytesBack DEF f
  <2> QED BY <2>1
<1>2. /\ BytesOf(m)[1] = m.humidity \div Byte /\ BytesOf(m)[2] = m.humidity % Byte
      /\ BytesOf(m)[3] = sign + q /\ BytesOf(m)[4] = size % Byte
      /\ BytesOf(m)[5] = (BytesOf(m)[1] + BytesOf(m)[2] + BytesOf(m)[3] + BytesOf(m)[4]) % Byte
      /\ m.humidity = (m.humidity \div Byte) * Byte + (m.humidity % Byte)
      /\ q \in 0 .. Sign - 1 /\ size = q * Byte + (size % Byte)
  BY BytesFit
<1>3. ChecksumOk(f)
  <2> HIDE DEF f
  <2> QED BY <1>1, <1>2 DEF ChecksumOk
<1> HIDE DEF q, f, sign, size
<1>4. ByteAt(f, 2) % Sign = q /\ (ByteAt(f, 2) >= Sign <=> m.temperature < 0)
  <2>1. (0 * Sign + q) % Sign = q /\ (1 * Sign + q) % Sign = q
    <3>1. Sign \in Nat \ {0} /\ q \in 0 .. Sign - 1 /\ 0 \in Int /\ 1 \in Int
      BY <1>2, ByteType
    <3> QED BY <3>1, DivUnique, Zenon
  <2>2. ByteAt(f, 2) = sign + q
    BY <1>1, <1>2
  <2>3. sign = IF m.temperature < 0 THEN Sign ELSE 0
    BY DEF sign
  <2> QED BY <1>2, <2>1, <2>2, <2>3, ByteType
<1>5. raw = size
  BY <1>1, <1>2, <1>4
<1>6. m.temperature = IF ByteAt(f, 2) >= Sign THEN -raw ELSE raw
  <2>1. m.temperature \in Int
    BY ByteType DEF Measurable
  <2> QED BY <1>4, <1>5, <2>1 DEF size, Magnitude
<1>7. m.humidity = ByteAt(f, 0) * Byte + ByteAt(f, 1)
  BY <1>1, <1>2
<1>8. m = [humidity |-> m.humidity, temperature |-> m.temperature]
  BY DEF Measurable
<1>9. Decode(f) = [humidity    |-> ByteAt(f, 0) * Byte + ByteAt(f, 1),
                   temperature |-> IF ByteAt(f, 2) >= Sign THEN -raw ELSE raw]
  BY DEF Decode
<1> HIDE DEF raw
<1>10. Decode(f) = m
  BY <1>6, <1>7, <1>8, <1>9
<1> QED BY <1>3, <1>10 DEF Carries, f

-----------------------------------------------------------------------------
(* Types.                                                                  *)

LEMMA NBitsType == NBits \in Nat /\ NBits >= 5 /\ 0 \in Bits /\ Bits \subseteq Nat
BY WidthAssumption DEF NBits, Bits

\* What wait_for waits for, call by call.
LEMMA Waits ==
  /\ Waiting <=> pc \in {"resp1", "resp2", "resp3", "up", "down"}
  /\ pc \in {"resp1", "resp3", "down"} => Wanted[pc] = "low"
  /\ pc \in {"resp2", "up"} => Wanted[pc] = "high"
BY DEF Waiting, Wanted

\* A level lasts for one to three ticks.
LEMMA LastsType == \A s \in 0 .. Released : Lasts(s) \in 1 .. 3
BY DEF Lasts

\* The measurements are among those.
LEMMA Measured == Measurements \subseteq Measurable
BY DhtAssumption DEF Measurable

\* A bit that is being read is one of the frame.
Reading ==
  /\ pc \in {"resp1", "resp2", "resp3"} => i = 0
  /\ pc \in {"up", "stamp", "down", "judge"} => i \in Bits

DInv == TypeOK /\ Reading

LEMMA BeginDInv ==
  ASSUME NEW n \in {1, 2}, Begin(n)
  PROVE  DInv'
<1>1. measured' \in Measurements /\ frame' \in [Bits -> {0, 1}]
  BY FrameOfBits, Measured DEF Begin
<1>2. 0 \in 0 .. Released /\ 0 \in 0 .. NBits /\ 0 \in 0 .. Timeout + 1 /\ 0 \in 0 .. MaxLate
  BY NBitsType, DhtAssumption DEF Released
<1>3. data' \in [Bits -> {0, 1}]
  BY DEF Begin
<1>4. /\ pc' = "resp1" /\ i' = 0 /\ waited' = 0 /\ high' = 0 /\ attempt' = n
      /\ result' = "none" /\ late' = 0 /\ seg' = 0 /\ left' = 3
  BY DEF Begin
<1>5. slipped' \in BOOLEAN /\ line' \in {"driven", "low", "high"}
  BY DEF Begin
<1>6. Reading'
  BY <1>4 DEF Reading
<1>7. TypeOK'
  BY <1>1, <1>2, <1>3, <1>4, <1>5 DEF TypeOK
<1> QED BY <1>6, <1>7 DEF DInv

LEMMA InitDInv == Init => DInv
<1> SUFFICES ASSUME Init PROVE DInv
  OBVIOUS
<1>1. measured \in Measurements /\ frame \in [Bits -> {0, 1}]
  BY FrameOfBits, Measured DEF Init
<1>2. 0 \in 0 .. Released /\ 0 \in 0 .. NBits /\ 0 \in 0 .. Timeout + 1 /\ 0 \in 0 .. MaxLate
  BY NBitsType, DhtAssumption DEF Released
<1>3. data \in [Bits -> {0, 1}]
  BY DEF Init
<1>4. /\ pc = "resp1" /\ i = 0 /\ waited = 0 /\ high = 0 /\ attempt = 1
      /\ result = "none" /\ late = 0 /\ seg = 0 /\ left = 3
  BY DEF Init
<1>5. slipped \in BOOLEAN /\ line \in {"driven", "low", "high"}
  BY DEF Init
<1>6. Reading
  BY <1>4 DEF Reading
<1>7. TypeOK
  BY <1>1, <1>2, <1>3, <1>4, <1>5 DEF TypeOK
<1> QED BY <1>6, <1>7 DEF DInv

\* The sensor and the clock go on together, by one level at most.
LEMMA TickMoves ==
  ASSUME TypeOK, Tick
  PROVE  /\ seg' \in 0 .. Released /\ left' \in 0 .. 3
         /\ \/ seg' = seg /\ (left' = left \/ left' = left - 1)
            \/ seg' = seg + 1
         /\ waited' \in 0 .. Timeout + 1 /\ high' \in 0 .. 2 /\ late' \in 0 .. MaxLate
<1>1. Released \in Nat
  BY NBitsType DEF Released
<1>2. CASE seg = Released
  BY <1>1, <1>2, DhtAssumption DEF TypeOK, Tick
<1>3. CASE seg # Released
  <2>1. CASE left > 1
    BY <1>1, <1>3, <2>1, DhtAssumption DEF TypeOK, Tick
  <2>2. CASE ~(left > 1)
    <3>1. seg' = seg + 1 /\ seg' \in 0 .. Released
      BY <1>1, <1>3, <2>2 DEF TypeOK, Tick
    <3>2. left' = IF seg' = Released THEN 0 ELSE Lasts(seg')
      BY <1>3, <2>2 DEF Tick
    <3>3. Lasts(seg') \in 1 .. 3
      BY <3>1, LastsType DEF Lasts
    <3> QED BY <3>1, <3>2, <3>3, DhtAssumption DEF TypeOK, Tick
  <2> QED BY <2>1, <2>2
<1> QED BY <1>2, <1>3

LEMMA StepDInv ==
  ASSUME DInv, Next
  PROVE  DInv'
<1> USE DEF DInv
<1>1. CASE Tick
  BY <1>1, TickMoves DEF Tick, TypeOK, Reading
<1>2. CASE Breaks
  BY <1>2 DEF Breaks, threadVars, TypeOK, Reading
<1>3. CASE SawLevel
  <2>1. waited' \in 0 .. Timeout + 1
    BY <1>3, DhtAssumption DEF SawLevel
  <2>2. /\ pc \in {"resp1", "resp2", "resp3"} => pc' \in {"resp2", "resp3", "up"}
        /\ pc \in {"up", "down"} => pc' \in {"stamp", "judge"}
        /\ pc \in {"resp1", "resp2", "resp3", "up", "down"}
    BY <1>3, Waits DEF SawLevel
  <2> QED BY <1>3, <2>1, <2>2, NBitsType DEF SawLevel, sensorVars, TypeOK, Reading
<1>4. CASE TimedOut \/ (pc = "check" /\ Fail)
  BY <1>4 DEF TimedOut, Fail, sensorVars, TypeOK, Reading
<1>5. CASE Stamp
  BY <1>5, DhtAssumption DEF Stamp, sensorVars, TypeOK, Reading
<1>6. CASE Judge
  <2>1. i \in Bits /\ i + 1 \in 0 .. NBits /\ waited' \in 0 .. Timeout + 1
    BY <1>6, NBitsType, DhtAssumption DEF Judge, Reading, Bits
  <2>2. data' \in [Bits -> {0, 1}]
    BY <1>6, <2>1 DEF Judge, TypeOK
  <2> QED BY <1>6, <2>1, <2>2 DEF Judge, sensorVars, TypeOK, Reading
<1>7. CASE pc = "check" /\ Check /\ ~Fail
  BY <1>7 DEF Check, sensorVars, TypeOK, Reading
<1>8. CASE Retry \/ Again
  BY <1>8, BeginDInv DEF Retry, Again
<1> QED BY <1>1, <1>2, <1>3, <1>4, <1>5, <1>6, <1>7, <1>8 DEF Next, Thread, Check

LEMMA NextDInv == DInv /\ [Next]_vars => DInv'
<1>1. DInv /\ UNCHANGED vars => DInv'
  BY DEF vars, sensorVars, threadVars, DInv, TypeOK, Reading
<1> QED BY <1>1, StepDInv

LEMMA DInvAlways == Spec => []DInv
BY InitDInv, NextDInv, PTL DEF Spec

\* The variables of the driver keep their types, for bytes of any width, any
\* time-out and any number of ticks that the thread is preempted for: no bit is
\* read outside of a frame.
THEOREM DhtTypeOK == Spec => []TypeOK
<1>1. DInv => TypeOK
  BY DEF DInv
<1> QED BY <1>1, DInvAlways, PTL

-----------------------------------------------------------------------------
(* A missed level.                                                         *)

\* How many levels the thread is behind the sensor for good.
Missed == IF slipped THEN 2 ELSE 0

\* The sensor is never behind the thread, and once a level was missed it is
\* ahead by two; after the last bit the line is released and stays high, so the
\* thread waits in vain for the end of a bit too many.
InStep ==
  line # "low" =>
    /\ pc \in {"resp1", "resp2", "resp3", "check"} => ~slipped
    /\ pc = "resp3" /\ line = "driven" => seg >= 1
    /\ pc = "up" => seg >= 2 * i + 2 + Missed
    /\ pc \in {"stamp", "down"} /\ line = "driven" => seg >= UpOf(i) + Missed
    /\ pc = "judge" => seg >= 2 * i + 4 + Missed
    /\ result = "ok" => ~slipped /\ pc = "done"

\* What a level says of the sensor.
LEMMA Levels ==
  ASSUME TypeOK
  PROVE  /\ line = "driven" => Level = IF seg % 2 = 0 THEN "low" ELSE "high"
         /\ line # "driven" => Level = line
BY DEF TypeOK, Level

LEMMA TickInStep ==
  ASSUME DInv, InStep, Tick
  PROVE  InStep'
<1>1. seg \in Int /\ i \in Int /\ seg' \in Int /\ seg' >= seg
  BY TickMoves, NBitsType DEF DInv, TypeOK, Released
<1>2. UNCHANGED <<line, pc, i, slipped, result>>
  BY DEF Tick
<1>3. UNCHANGED Missed /\ Missed \in Int /\ UNCHANGED UpOf(i) /\ UpOf(i) \in Int
  BY <1>1, <1>2 DEF Missed, UpOf
<1> QED BY <1>1, <1>2, <1>3 DEF InStep

\* The step that may miss a level, and the one that waits for what it missed.
LEMMA SawInStep ==
  ASSUME DInv, InStep, SawLevel, line # "low"
  PROVE  InStep'
<1> USE DEF DInv
<1>1. seg \in Int /\ i \in Int /\ UNCHANGED <<line, seg, i, result>>
  BY NBitsType DEF SawLevel, sensorVars, TypeOK, Released
<1>2. result' # "ok"
  BY <1>1, Waits DEF InStep, SawLevel
<1>3. line # "driven" => line = "high" /\ pc \in {"resp2", "up"}
  BY Waits, Levels DEF SawLevel, TypeOK
<1>4. CASE pc = "resp1"
  BY <1>1, <1>2, <1>4 DEF InStep, SawLevel
<1>5. CASE pc = "resp2"
  <2>1. line = "driven" => seg >= 1
    BY <1>1, <1>5, Waits, Levels DEF SawLevel, TypeOK
  <2> QED BY <1>1, <1>2, <1>5, <2>1 DEF InStep, SawLevel
<1>6. CASE pc = "resp3"
  <2>1. line = "driven" /\ seg >= 2 /\ i = 0
    BY <1>1, <1>3, <1>6, Waits, Levels DEF SawLevel, InStep, Reading
  <2>2. ~slipped'
    BY <1>6 DEF SawLevel, InStep
  <2> QED BY <1>1, <1>2, <1>6, <2>1, <2>2 DEF InStep, SawLevel, Missed
<1>7. CASE pc = "up"
  <2>1. pc' = "stamp" /\ slipped' = (slipped \/ seg # UpOf(i))
    BY <1>7 DEF SawLevel
  <2>2. line = "driven" => seg >= UpOf(i) + Missed /\ seg % 2 = 1
    BY <1>1, <1>7, Waits, Levels DEF SawLevel, InStep, Missed, UpOf
  <2>3. line = "driven" => seg >= UpOf(i) + Missed'
    <3>1. CASE slipped \/ seg = UpOf(i)
      BY <2>1, <2>2, <3>1 DEF Missed, TypeOK
    <3>2. CASE ~slipped /\ seg # UpOf(i)
      BY <1>1, <2>1, <2>2, <3>2 DEF Missed, UpOf
    <3> QED BY <3>1, <3>2
  <2> QED BY <1>1, <1>2, <2>1, <2>3 DEF InStep, UpOf
<1>8. CASE pc = "down"
  <2>1. pc' = "judge" /\ slipped' = slipped
    BY <1>8 DEF SawLevel, TypeOK
  <2>2. line = "driven" /\ seg % 2 = 0 /\ seg >= UpOf(i) + Missed
    BY <1>1, <1>3, <1>8, Waits, Levels DEF SawLevel, InStep
  <2>3. seg >= 2 * i + 4 + Missed
    BY <1>1, <2>2 DEF Missed, UpOf
  <2> QED BY <1>1, <1>2, <2>1, <2>3 DEF InStep, Missed
<1> QED BY <1>4, <1>5, <1>6, <1>7, <1>8, Waits DEF SawLevel

LEMMA JudgeInStep ==
  ASSUME DInv, InStep, Judge, line # "low"
  PROVE  InStep'
<1> USE DEF DInv
<1>1. seg \in 0 .. Released /\ i \in Bits /\ UNCHANGED <<line, seg, slipped, result>>
  BY DEF Judge, sensorVars, TypeOK, Reading
<1>2. seg >= 2 * i + 4 + Missed /\ result' # "ok" /\ i' = i + 1
  BY <1>1 DEF Judge, InStep
<1>3. CASE i + 1 \in Bits
  <2>1. pc' = "up"
    BY <1>3 DEF Judge
  <2> QED BY <1>1, <1>2, <2>1 DEF InStep, Missed, Bits
<1>4. CASE i + 1 \notin Bits
  <2>1. pc' = "check"
    BY <1>4 DEF Judge
  <2>2. i = NBits - 1
    BY <1>1, <1>4, NBitsType DEF Bits
  <2>3. ~slipped
    BY <1>1, <1>2, <2>2, NBitsType DEF Missed, Released
  <2> QED BY <1>1, <1>2, <2>1, <2>3 DEF InStep
<1> QED BY <1>3, <1>4

LEMMA StepInStep ==
  ASSUME DInv, InStep, Next
  PROVE  InStep'
<1> SUFFICES ASSUME line' # "low" PROVE InStep'
  BY DEF InStep
<1>1. CASE Tick
  BY <1>1, TickInStep
<1>2. CASE Breaks
  <2>1. UNCHANGED <<pc, i, seg, slipped, result>> /\ line # "low" /\ line' # "driven"
    BY <1>2 DEF Breaks, threadVars
  <2> QED BY <2>1 DEF InStep, Missed
<1>3. CASE SawLevel
  BY <1>3, SawInStep DEF SawLevel, sensorVars
<1>4. CASE TimedOut \/ (pc = "check" /\ Fail)
  <2>1. UNCHANGED <<line, slipped>> /\ result # "ok"
    BY <1>4, Waits DEF TimedOut, Fail, sensorVars, InStep
  <2>2. pc' \in {"settle", "done"} /\ result' # "ok"
    BY <1>4, <2>1 DEF TimedOut, Fail
  <2> QED BY <2>1, <2>2 DEF InStep
<1>5. CASE Stamp
  <2>1. UNCHANGED <<line, i, seg, slipped, result>> /\ pc = "stamp" /\ pc' = "down"
    BY <1>5 DEF Stamp, sensorVars
  <2> QED BY <2>1 DEF InStep, Missed, UpOf
<1>6. CASE Judge
  BY <1>6, JudgeInStep DEF Judge, sensorVars
<1>7. CASE pc = "check" /\ Check /\ ~Fail
  <2>1. UNCHANGED <<line, slipped>> /\ pc' = "done" /\ result' = "ok"
    BY <1>7 DEF Check, sensorVars
  <2> QED BY <1>7, <2>1 DEF InStep
<1>8. CASE Retry \/ Again
  BY <1>8 DEF Retry, Again, Begin, InStep
<1> QED BY <1>1, <1>2, <1>3, <1>4, <1>5, <1>6, <1>7, <1>8 DEF Next, Thread, Check

LEMMA InStepAlways == Spec => []InStep
<1>1. Init => InStep
  BY DEF Init, InStep
<1>2. DInv /\ InStep /\ UNCHANGED vars => InStep'
  BY DEF vars, sensorVars, threadVars, InStep, Missed, UpOf
<1>3. DInv /\ InStep /\ [Next]_vars => InStep'
  BY <1>2, StepInStep
<1> QED BY <1>1, <1>3, DInvAlways, PTL DEF Spec

\* However long the thread was preempted and whatever the line did short of a
\* short circuit, no reading is returned after a level was missed: a frame has
\* no level too many, so the last wait times out.
THEOREM NoSlip == Spec => []NoSlippedReading
<1>1. InStep => NoSlippedReading
  BY DEF InStep, NoSlippedReading
<1> QED BY <1>1, InStepAlways, PTL

-----------------------------------------------------------------------------
(* A read that nothing disturbs.                                           *)

\* The thread began to wait when level s of n ticks began.
Within(s, n) == seg = s /\ left >= 1 /\ waited + left = n

\* Level s of n ticks has just begun.
Begins(s, n) == seg = s /\ left = n

\* What the high of bit b measures as: 25 us, or 50 us and more.
HighOf(b) == IF frame[b] = 0 THEN 1 ELSE 2

\* Not preempted, the thread follows the sensor level by level.
Follows ==
  line = "driven" /\ late = 0 =>
    /\ pc = "resp1" => Begins(0, 3)
    /\ pc = "resp2" => Within(0, 3) \/ Begins(1, 3)
    /\ pc = "resp3" => Within(1, 3) \/ Begins(2, 2)
    /\ pc = "up"    => Within(2 * i + 2, 2) \/ Begins(UpOf(i), Lasts(UpOf(i)))
    /\ pc = "stamp" => Begins(UpOf(i), Lasts(UpOf(i)))
    /\ pc = "down"  => \/ /\ Within(UpOf(i), Lasts(UpOf(i)))
                          /\ high = waited
                       \/ Begins(2 * i + 4, 2) /\ high = HighOf(i)
    /\ pc = "judge" => Begins(2 * i + 4, 2) /\ high = HighOf(i)
    /\ pc \in {"up", "stamp", "down", "judge"} => \A b \in Bits : b < i => data[b] = frame[b]
    /\ pc \in {"check", "done"} => data = frame
    /\ pc # "settle"
    /\ pc = "done" => result = "ok"

\* The bits are those of what was measured.
FrameSent == frame = Encode(measured)

LEMMA FrameSentAlways == Spec => []FrameSent
<1>1. Init => FrameSent
  BY DEF Init, FrameSent
<1>2. FrameSent /\ [Next]_vars => FrameSent'
  <2> SUFFICES ASSUME FrameSent, [Next]_vars PROVE FrameSent'
    OBVIOUS
  <2>1. CASE Retry \/ Again
    BY <2>1 DEF Retry, Again, Begin, FrameSent
  <2>2. CASE ~(Retry \/ Again)
    <3>1. UNCHANGED <<measured, frame>>
      BY <2>2 DEF Next, Thread, Tick, Breaks, SawLevel, TimedOut, Fail, Stamp, Judge, Check,
                  vars, sensorVars
    <3> QED BY <3>1 DEF FrameSent
  <2> QED BY <2>1, <2>2
<1> QED BY <1>1, <1>2, PTL DEF Spec

\* ... and each level of a frame so long.
LEMMA LastsOf ==
  /\ Lasts(0) = 3 /\ Lasts(1) = 3
  /\ \A b \in Nat : Lasts(2 * b + 2) = 2
  /\ \A b \in Nat : Lasts(2 * b + 4) = 2
  /\ \A b \in Nat : Lasts(UpOf(b)) = IF frame[b] = 0 THEN 1 ELSE 3
<1>1. Lasts(0) = 3 /\ Lasts(1) = 3
  BY DEF Lasts
<1>2. ASSUME NEW b \in Nat
      PROVE  Lasts(2 * b + 2) = 2 /\ Lasts(2 * b + 4) = 2
  BY DEF Lasts
<1>3. ASSUME NEW b \in Nat
      PROVE  Lasts(UpOf(b)) = IF frame[b] = 0 THEN 1 ELSE 3
  <2>1. ~(UpOf(b) < 2) /\ UpOf(b) % 2 # 0 /\ (UpOf(b) - 3) \div 2 = b
    BY DEF UpOf
  <2>2. Lasts(UpOf(b)) = IF frame[(UpOf(b) - 3) \div 2] = 0 THEN 1 ELSE 3
    BY <2>1, Zenon DEF Lasts
  <2> QED BY <2>1, <2>2, Zenon
<1> QED BY <1>1, <1>2, <1>3

\* A tick while the thread waits, told without the primed operators.
LEMMA TickOfWait ==
  ASSUME DInv, Follows, Tick, line = "driven", late' = 0
  PROVE  /\ late = 0 /\ Blocked
         /\ waited \in Nat /\ high \in Nat
         /\ waited < 3 => waited' = waited + 1
         /\ high' = IF high > 1 THEN high ELSE high + 1
         /\ seg # Released /\ left > 1 => left' = left - 1 /\ seg' = seg
         /\ seg # Released /\ ~(left > 1) =>
              seg' = seg + 1 /\ (seg + 1 # Released => left' = Lasts(seg + 1))
<1>1. late = 0 /\ Blocked
  BY DEF Tick, DInv, TypeOK
<1>2. waited \in Nat /\ high \in Nat
  BY DhtAssumption DEF DInv, TypeOK
<1>3. waited < 3 => waited' = waited + 1
  BY <1>2, DhtAssumption DEF Tick
<1>4. seg # Released /\ ~(left > 1) =>
        seg' = seg + 1 /\ (seg + 1 # Released => left' = Lasts(seg + 1))
  BY DEF Tick
<1> QED BY <1>1, <1>2, <1>3, <1>4 DEF Tick

\* Undisturbed, time passes only while the sensor is at a level that the thread
\* waits out; then it brings the next one.
LEMMA TickFollows ==
  ASSUME DInv, Follows, Tick, line = "driven", late' = 0
  PROVE  Follows'
<1> USE DEF DInv
<1>1. UNCHANGED <<line, frame, pc, i, data, result>>
  BY DEF Tick
<1>2. late = 0 /\ pc \in {"resp1", "resp2", "resp3", "up", "down"} /\ Level # Wanted[pc]
  BY TickOfWait, Waits DEF Blocked
<1>3. seg \in Int /\ left \in Int /\ waited \in Nat /\ high \in Nat /\ NBits \in Nat
      /\ Released = 2 * NBits + 3 /\ NBits >= 5
  BY TickOfWait, NBitsType DEF TypeOK, Released
<1>4. CASE pc = "resp1"
  BY <1>2, <1>4, Waits, Levels DEF Follows, Begins
<1>5. CASE pc = "resp2"
  <2>1. Within(0, 3)
    BY <1>2, <1>5, Waits, Levels DEF Follows, Begins
  <2>2. Within(0, 3)' \/ Begins(1, 3)'
    BY <1>3, <2>1, TickOfWait, LastsOf DEF Within, Begins
  <2> QED BY <1>1, <1>5, <2>2 DEF Follows
<1>6. CASE pc = "resp3"
  <2>1. Within(1, 3)
    BY <1>2, <1>6, Waits, Levels DEF Follows, Begins
  <2>2. Lasts(2) = 2
    BY DEF Lasts
  <2>3. Within(1, 3)' \/ Begins(2, 2)'
    BY <1>3, <2>1, <2>2, TickOfWait DEF Within, Begins
  <2> QED BY <1>1, <1>6, <2>3 DEF Follows
<1>7. CASE pc = "up"
  <2>1. i \in Bits /\ i \in Nat /\ i < NBits
    BY <1>7, NBitsType DEF Reading, Bits
  <2>2. Within(2 * i + 2, 2)
    <3>1. UpOf(i) % 2 = 1
      BY <2>1 DEF UpOf
    <3> QED BY <1>2, <1>7, <3>1, Waits, Levels DEF Follows, Begins
  <2>3. Within(2 * i + 2, 2)' \/ (seg' = UpOf(i) /\ left' = Lasts(UpOf(i)))
    BY <1>1, <1>3, <2>1, <2>2, TickOfWait DEF Within, UpOf
  <2>4. Begins(UpOf(i), Lasts(UpOf(i)))' <=> seg' = UpOf(i) /\ left' = Lasts(UpOf(i))
    BY <1>1 DEF Begins, UpOf, Lasts
  <2> QED BY <1>1, <1>2, <1>7, <2>3, <2>4 DEF Follows
<1>8. CASE pc = "down"
  <2>1. i \in Bits /\ i \in Nat /\ i < NBits
    BY <1>8, NBitsType DEF Reading, Bits
  <2>2. Within(UpOf(i), Lasts(UpOf(i))) /\ high = waited
    <3>1. (2 * i + 4) % 2 = 0
      BY <2>1
    <3> QED BY <1>2, <1>8, <3>1, Waits, Levels DEF Follows, Begins
  <2>3. Lasts(UpOf(i)) = IF frame[i] = 0 THEN 1 ELSE 3
    BY <2>1, LastsOf
  <2>4. \/ seg' = UpOf(i) /\ left' >= 1 /\ waited' + left' = Lasts(UpOf(i)) /\ high' = waited'
        \/ seg' = 2 * i + 4 /\ left' = 2 /\ high' = HighOf(i)
    BY <1>3, <2>1, <2>2, <2>3, TickOfWait, LastsOf DEF Within, UpOf, HighOf
  <2>5. UNCHANGED <<UpOf(i), Lasts(UpOf(i)), HighOf(i)>>
    BY <1>1 DEF UpOf, Lasts, HighOf
  <2>6. \/ (Within(UpOf(i), Lasts(UpOf(i))) /\ high = waited)'
        \/ (Begins(2 * i + 4, 2) /\ high = HighOf(i))'
    BY <1>1, <2>4, <2>5 DEF Within, Begins
  <2> QED BY <1>1, <1>2, <1>8, <2>6 DEF Follows
<1> QED BY <1>2, <1>4, <1>5, <1>6, <1>7, <1>8
\* Undisturbed, the thread sees each level before the sensor has left it.
LEMMA SawFollows ==
  ASSUME DInv, Follows, SawLevel, line = "driven", late = 0
  PROVE  Follows'
<1> USE DEF DInv
<1>1. UNCHANGED <<line, frame, seg, left, i, high, data, result, late>> /\ waited' = 0
  BY DEF SawLevel, sensorVars
<1>2. Level = Wanted[pc] /\ seg \in Int /\ i \in Nat /\ left \in Int
  BY NBitsType DEF SawLevel, TypeOK, Released
<1>3. UpOf(i) % 2 = 1 /\ (2 * i + 2) % 2 = 0 /\ (2 * i + 4) % 2 = 0
  BY <1>2 DEF UpOf
<1>4. UNCHANGED <<UpOf(i), Lasts(UpOf(i)), HighOf(i)>>
  BY <1>1 DEF UpOf, Lasts, HighOf
<1>5. CASE pc = "resp1"
  <2>1. Begins(0, 3) /\ pc' = "resp2"
    BY <1>5 DEF Follows, SawLevel
  <2> QED BY <1>1, <2>1 DEF Follows, Begins, Within
<1>6. CASE pc = "resp2"
  <2>1. Begins(1, 3) /\ pc' = "resp3"
    BY <1>2, <1>6, Waits, Levels DEF Follows, SawLevel, Within
  <2> QED BY <1>1, <2>1 DEF Follows, Begins, Within
<1>7. CASE pc = "resp3"
  <2>1. Begins(2, 2) /\ pc' = "up" /\ i = 0
    BY <1>2, <1>7, Waits, Levels DEF Follows, SawLevel, Within, Reading
  <2>2. Within(2 * i + 2, 2)'
    BY <1>1, <2>1 DEF Begins, Within
  <2>3. \A b \in Bits : ~(b < 0)
    BY NBitsType DEF Bits
  <2> QED BY <1>1, <2>1, <2>2, <2>3 DEF Follows
<1>8. CASE pc = "up"
  <2>1. Begins(UpOf(i), Lasts(UpOf(i))) /\ pc' = "stamp"
    BY <1>2, <1>3, <1>8, Waits, Levels DEF Follows, SawLevel, Within
  <2>2. Begins(UpOf(i), Lasts(UpOf(i)))'
    BY <1>1, <1>4, <2>1 DEF Begins
  <2> QED BY <1>1, <1>8, <2>1, <2>2 DEF Follows
<1>9. CASE pc = "down"
  <2>1. Begins(2 * i + 4, 2) /\ high = HighOf(i) /\ pc' = "judge"
    BY <1>2, <1>3, <1>9, Waits, Levels DEF Follows, SawLevel, Within
  <2>2. (Begins(2 * i + 4, 2) /\ high = HighOf(i))'
    BY <1>1, <1>4, <2>1 DEF Begins
  <2> QED BY <1>1, <1>9, <2>1, <2>2 DEF Follows
<1> QED BY <1>5, <1>6, <1>7, <1>8, <1>9, Waits DEF SawLevel

\* ... so that it never gives up.
LEMMA NeverTimedOut ==
  ASSUME DInv, Follows, line = "driven", late = 0
  PROVE  ~TimedOut
<1> SUFFICES ASSUME TimedOut PROVE FALSE
  OBVIOUS
<1> USE DEF DInv
<1>1. pc \in {"resp1", "resp2", "resp3", "up", "down"}
  BY Waits DEF TimedOut
<1>2. Level # Wanted[pc] /\ waited > Timeout /\ waited \in Nat /\ Timeout \in Nat /\ Timeout >= 3
  BY DhtAssumption DEF TimedOut, TypeOK
<1>3. seg \in Int /\ i \in Nat /\ left \in Int
  BY NBitsType DEF TypeOK, Released
<1>4. UpOf(i) % 2 = 1 /\ (2 * i + 2) % 2 = 0 /\ (2 * i + 4) % 2 = 0
  BY <1>3 DEF UpOf
<1>5. Lasts(UpOf(i)) \in {1, 3}
  BY <1>3, LastsOf
<1>6. \E s \in Int, n \in {1, 2, 3} : Within(s, n)
  BY <1>1, <1>2, <1>3, <1>4, <1>5, Waits, Levels DEF Follows, Begins, UpOf
<1> QED BY <1>2, <1>3, <1>6 DEF Within
LEMMA StampFollows ==
  ASSUME DInv, Follows, Stamp, line = "driven", late = 0
  PROVE  Follows'
<1>1. /\ UNCHANGED <<line, frame, seg, left, i, data, result, late>>
      /\ waited' = 0 /\ high' = 0 /\ pc = "stamp" /\ pc' = "down"
  BY DEF Stamp, sensorVars
<1>2. i \in Nat
  BY <1>1, NBitsType DEF DInv, Reading
<1>3. Lasts(UpOf(i)) \in {1, 3} /\ UNCHANGED <<UpOf(i), Lasts(UpOf(i))>>
  BY <1>1, <1>2, LastsOf DEF UpOf, Lasts
<1>4. Begins(UpOf(i), Lasts(UpOf(i))) /\ \A b \in Bits : b < i => data[b] = frame[b]
  BY <1>1 DEF Follows
<1>5. (Within(UpOf(i), Lasts(UpOf(i))) /\ high = waited)'
  BY <1>1, <1>3, <1>4 DEF Within, Begins
<1> QED BY <1>1, <1>4, <1>5 DEF Follows

\* 25 us are a zero and 50 us a one.
LEMMA JudgeFollows ==
  ASSUME DInv, Follows, Judge, line = "driven", late = 0
  PROVE  Follows'
<1> USE DEF DInv
<1>1. /\ UNCHANGED <<line, frame, seg, left, high, result, late>>
      /\ waited' = 0 /\ i' = i + 1 /\ pc = "judge"
      /\ data' = [data EXCEPT ![i] = IF 25 * high > 40 THEN 1 ELSE 0]
  BY DEF Judge, sensorVars
<1>2. i \in Bits /\ i \in Nat /\ Bits \subseteq Nat
  BY <1>1, NBitsType DEF Reading
<1>3. Begins(2 * i + 4, 2) /\ high = HighOf(i) /\ \A b \in Bits : b < i => data[b] = frame[b]
  BY <1>1 DEF Follows
<1>4. frame[i] \in {0, 1} /\ data \in [Bits -> {0, 1}]
  BY <1>2 DEF TypeOK
<1>5. data'[i] = frame[i]
  BY <1>1, <1>2, <1>3, <1>4 DEF HighOf
<1>6. \A b \in Bits : b < i' => data'[b] = frame'[b]
  <2> SUFFICES ASSUME NEW b \in Bits, b < i + 1 PROVE data'[b] = frame[b]
    BY <1>1
  <2>1. b = i \/ (b < i /\ b # i)
    BY <1>2
  <2>2. b # i => data'[b] = data[b]
    BY <1>1, <1>4
  <2> QED BY <1>3, <1>5, <2>1, <2>2
<1>7. CASE i + 1 \in Bits
  <2>1. pc' = "up"
    BY <1>1, <1>7 DEF Judge
  <2>2. Within(2 * i + 2, 2)'
    BY <1>1, <1>2, <1>3 DEF Within, Begins
  <2> QED BY <1>6, <2>1, <2>2 DEF Follows
<1>8. CASE i + 1 \notin Bits
  <2>1. pc' = "check"
    BY <1>1, <1>8 DEF Judge
  <2>2. i + 1 = NBits /\ \A b \in Bits : b < NBits
    BY <1>2, <1>8, NBitsType DEF Bits
  <2>3. \A b \in Bits : data'[b] = frame'[b]
    BY <1>1, <1>6, <2>2
  <2>4. data' \in [Bits -> {0, 1}] /\ frame' \in [Bits -> {0, 1}]
    BY StepDInv DEF Next, Thread, TypeOK
  <2>5. data' = frame'
    BY <2>3, <2>4
  <2> QED BY <2>1, <2>5 DEF Follows
<1> QED BY <1>7, <1>8

\* The frame that was read passes the check.
LEMMA CheckFollows ==
  ASSUME Carries(measured), DInv, Follows, FrameSent, Check, line = "driven", late = 0
  PROVE  Follows'
<1>1. data = frame /\ pc = "check"
  BY DEF Check, Follows
<1>2. ChecksumOk(data)
  BY <1>1 DEF FrameSent, Carries
<1>3. pc' = "done" /\ result' = "ok" /\ UNCHANGED <<frame, data>>
  BY <1>2 DEF Check, sensorVars
<1> QED BY <1>1, <1>3 DEF Follows

LEMMA StepFollows ==
  ASSUME DInv, Follows, FrameSent, Next
  PROVE  Follows'
<1>1. CASE Retry \/ Again
  <2>1. Begins(0, 3)' /\ pc' = "resp1"
    BY <1>1 DEF Retry, Again, Begin, Begins
  <2> QED BY <2>1 DEF Follows
<1>2. CASE ~(Retry \/ Again) /\ line' = "driven" /\ late' = 0
  <2>1. line = "driven" /\ late = 0
    BY <1>2 DEF Next, Thread, Tick, Breaks, SawLevel, TimedOut, Fail, Stamp, Judge, Check,
                sensorVars, DInv, TypeOK
  <2>2. CASE Tick
    BY <1>2, <2>1, <2>2, TickFollows
  <2>3. CASE Breaks
    BY <1>2, <2>3 DEF Breaks
  <2>4. Carries(measured)
    BY FramesCarry, Measured DEF DInv, TypeOK
  <2> QED BY <1>2, <2>1, <2>2, <2>3, <2>4, SawFollows, NeverTimedOut, StampFollows, JudgeFollows,
             CheckFollows DEF Next, Thread
<1> QED BY <1>1, <1>2 DEF Follows

LEMMA UnchangedFollows ==
  ASSUME Follows, UNCHANGED vars
  PROVE  Follows'
<1>1. UNCHANGED <<frame, line, seg, left, pc, i, waited, high, data, result, late>>
  BY DEF vars, sensorVars, threadVars
<1> QED BY <1>1 DEF Follows, Begins, Within, UpOf, Lasts, HighOf

\* A read that is not preempted of a sensor that is there succeeds at once and
\* returns what was measured: every edge is seen
\* before the next one, every high is on its side of 40 us, no wait comes near
\* its end, and Decode undoes what the sensor did, for bytes of any width.
THEOREM UndisturbedExact == Spec => []UndisturbedReadExact
<1>1. Init => Follows
  BY DEF Init, Follows, Begins
<1>2. DInv /\ Follows /\ FrameSent /\ [Next]_vars => Follows'
  BY StepFollows, UnchangedFollows
<1>3. DInv /\ Follows /\ FrameSent => UndisturbedReadExact
  <2> SUFFICES ASSUME DInv, Follows, FrameSent, pc \in {"settle", "done"}, line = "driven", late = 0
               PROVE  result = "ok" /\ Decode(data) = measured
    BY DEF UndisturbedReadExact
  <2>1. result = "ok" /\ data = Encode(measured) /\ measured \in Measurements
    BY DEF Follows, FrameSent, DInv, TypeOK
  <2> QED BY <2>1, FramesCarry, Measured DEF Carries
<1> QED BY <1>1, <1>2, <1>3, DInvAlways, FrameSentAlways, PTL DEF Spec

-----------------------------------------------------------------------------
(* A single wrong bit.                                                     *)

\* What is returned has passed the check.
Passed == result = "ok" => pc = "done" /\ ChecksumOk(data)

LEMMA StepPassed ==
  ASSUME Passed, [Next]_vars
  PROVE  Passed'
<1>1. CASE Tick \/ Breaks \/ SawLevel \/ Stamp \/ Judge \/ UNCHANGED vars
  <2>1. UNCHANGED result /\ (pc = "done" => UNCHANGED <<pc, data>>)
    BY <1>1, Waits DEF Tick, Breaks, SawLevel, Stamp, Judge, vars, sensorVars, threadVars
  <2> QED BY <2>1 DEF Passed
<1>2. CASE TimedOut \/ (pc = "check" /\ Fail)
  <2>1. result # "ok"
    BY <1>2, Waits DEF TimedOut, Passed
  <2> QED BY <1>2, <2>1 DEF TimedOut, Fail, Passed
<1>3. CASE pc = "check" /\ Check /\ ~Fail
  BY <1>3 DEF Check, Passed
<1>4. CASE Retry \/ Again
  BY <1>4 DEF Retry, Again, Begin, Passed
<1> QED BY <1>1, <1>2, <1>3, <1>4 DEF Next, Thread, Check

\* However long the thread is preempted and wherever, no reading is returned that
\* has one wrong bit, for bytes of any width: it would be off by a power of two
\* less than 256, and the sum would tell.
THEOREM SingleErrorsCaught == Spec => []OneWrongBitCaught
<1>1. Init => Passed
  BY DEF Init, Passed
<1>2. Passed /\ [Next]_vars => Passed'
  BY StepPassed
<1>3. DInv /\ FrameSent /\ Passed => OneWrongBitCaught
  <2> DEFINE wrong == {b \in Bits : data[b] # frame[b]}
  <2> SUFFICES ASSUME DInv, FrameSent, Passed, result = "ok", Cardinality(wrong) = 1
               PROVE  FALSE
    BY DEF OneWrongBitCaught
  <2>1. data \in [Bits -> {0, 1}] /\ frame \in [Bits -> {0, 1}]
    BY DEF DInv, TypeOK
  <2>2. ChecksumOk(data) /\ ChecksumOk(frame)
    BY FramesCarry, Measured DEF DInv, TypeOK, FrameSent, Passed, Carries
  <2>3. IsFiniteSet(wrong)
    <3>1. IsFiniteSet(Bits)
      BY FS_Interval, NBitsType DEF Bits
    <3> QED BY <3>1, FS_Subset
  <2>4. PICK b : wrong = {b}
    BY <2>3, FS_Singleton
  <2>5. b \in Bits /\ data[b] # frame[b] /\ \A c \in Bits \ {b} : data[c] = frame[c]
    BY <2>4
  <2>6. data[b] \in {0, 1} /\ frame[b] \in {0, 1}
    BY <2>1, <2>5
  <2>7. CASE data[b] = 1 /\ frame[b] = 0
    BY <2>1, <2>2, <2>5, <2>7, FlipCaught
  <2>8. CASE data[b] = 0 /\ frame[b] = 1
    BY <2>1, <2>2, <2>5, <2>8, FlipCaught
  <2> QED BY <2>5, <2>6, <2>7, <2>8
<1> QED BY <1>1, <1>2, <1>3, DInvAlways, FrameSentAlways, PTL DEF Spec

=============================================================================
