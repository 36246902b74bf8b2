----------------------------- MODULE AluProofs -----------------------------
(***************************************************************************)
(* Theorems about Alu, for words and fields of every width.                *)
(***************************************************************************)
EXTENDS Alu, WellFoundedInduction, TLAPS

(***************************************************************************)
(* Induction on numbers, as a fact about sets.                             *)
(***************************************************************************)
LEMMA Induction ==
  ASSUME NEW T, T \subseteq Nat, 0 \in T, \A n \in T : n + 1 \in T
  PROVE  T = Nat
<1>. DEFINE U == Nat \ T
<1>. SUFFICES ASSUME U # {}
              PROVE  FALSE
  OBVIOUS
<1>. HIDE DEF U
<1>1. U \subseteq Nat
  BY DEF U
<1>2. PICK m \in U : \A y \in U : ~(<<y, m>> \in OpToRel(<, Nat))
  BY <1>1, NatLessThanWellFounded, WFMin
<1>3. m \in Nat /\ m # 0 /\ m \notin T
  BY <1>1, <1>2 DEF U
<1>4. m - 1 \in Nat /\ m - 1 < m /\ (m - 1) + 1 = m
  BY <1>3
<1>5. m - 1 \notin T
  BY <1>3, <1>4
<1>6. <<m - 1, m>> \in OpToRel(<, Nat)
  BY <1>3, <1>4 DEF OpToRel
<1>. QED  BY <1>2, <1>4, <1>5, <1>6 DEF U

(* The functions that double up to n.                                      *)
Doubles(f, n) == f \in [Nat -> Nat] /\ f[0] = 1 /\ \A k \in 0 .. (n - 1) : f[k + 1] = 2 * f[k]

LEMMA DoublesExist == \A n \in Nat : \E f : Doubles(f, n)
<1>. DEFINE T == {n \in Nat : \E f : Doubles(f, n)}
<1>1. 0 \in T
  <2>1. Doubles([k \in Nat |-> 1], 0)
    BY DEF Doubles
  <2>. QED  BY <2>1
<1>2. ASSUME NEW n \in T
      PROVE  n + 1 \in T
  <2>1. PICK f : Doubles(f, n)
    OBVIOUS
  <2>2. Doubles([f EXCEPT ![n + 1] = 2 * f[n]], n + 1)
    BY <2>1 DEF Doubles
  <2>. QED  BY <2>2
<1>3. T \subseteq Nat
  OBVIOUS
<1>. HIDE DEF T
<1>4. T = Nat
  BY <1>1, <1>2, <1>3, Induction
<1>. QED  BY <1>4 DEF T

LEMMA DoublesAgree ==
  \A n \in Nat : \A f, g : Doubles(f, n) /\ Doubles(g, n) => f[n] = g[n]
<1>. DEFINE T == {n \in Nat : \A f, g : Doubles(f, n) /\ Doubles(g, n) => f[n] = g[n]}
<1>1. 0 \in T
  BY DEF Doubles
<1>2. ASSUME NEW n \in T
      PROVE  n + 1 \in T
  <2>1. ASSUME NEW f, Doubles(f, n + 1)
        PROVE  Doubles(f, n) /\ f[n + 1] = 2 * f[n]
    BY <2>1 DEF Doubles
  <2>. QED  BY <2>1
<1>3. T \subseteq Nat
  OBVIOUS
<1>. HIDE DEF T
<1>4. T = Nat
  BY <1>1, <1>2, <1>3, Induction
<1>. QED  BY <1>4 DEF T

(* The powers of two are what their recursive definition says.             *)
LEMMA PowerDef == Power = [n \in Nat |-> IF n = 0 THEN 1 ELSE 2 * Power[n - 1]]
<1>. DEFINE Value(n) == CHOOSE v : \E f : Doubles(f, n) /\ v = f[n]
            G == [n \in Nat |-> Value(n)]
<1>1. ASSUME NEW n \in Nat, NEW f, Doubles(f, n)
      PROVE  Value(n) = f[n]
  BY <1>1, DoublesAgree
<1>. HIDE DEF Value
<1>2. ASSUME NEW n \in Nat
      PROVE  Value(n) = IF n = 0 THEN 1 ELSE 2 * Value(n - 1)
  <2>1. PICK f : Doubles(f, n)
    BY DoublesExist
  <2>2. CASE n = 0
    BY <1>1, <2>1, <2>2 DEF Doubles
  <2>3. CASE n # 0
    <3>1. n - 1 \in Nat /\ Doubles(f, n - 1) /\ f[n] = 2 * f[n - 1]
      BY <2>1, <2>3 DEF Doubles
    <3>. QED  BY <1>1, <2>1, <2>3, <3>1
  <2>. QED  BY <2>2, <2>3
<1>3. G = [n \in Nat |-> IF n = 0 THEN 1 ELSE 2 * G[n - 1]]
  BY <1>2
<1>. HIDE DEF G
<1>4. \E h : h = [n \in Nat |-> IF n = 0 THEN 1 ELSE 2 * h[n - 1]]
  BY <1>3
<1>. QED  BY <1>4 DEF Power

LEMMA PowerSteps ==
  /\ Power[0] = 1
  /\ \A n \in Nat : Power[n] \in Nat \ {0} /\ Power[n + 1] = 2 * Power[n]
<1>1. \A n \in Nat : Power[n] = IF n = 0 THEN 1 ELSE 2 * Power[n - 1]
  BY PowerDef
<1>2. Power[0] = 1
  BY <1>1
<1>3. ASSUME NEW n \in Nat
      PROVE  Power[n + 1] = 2 * Power[n]
  <2>1. n + 1 \in Nat /\ n + 1 # 0 /\ (n + 1) - 1 = n
    OBVIOUS
  <2>2. Power[n + 1] = 2 * Power[(n + 1) - 1]
    BY <1>1, <2>1
  <2>. QED  BY <2>1, <2>2
<1>. DEFINE T == {n \in Nat : Power[n] \in Nat \ {0}}
<1>4. 0 \in T
  BY <1>2
<1>5. ASSUME NEW n \in T
      PROVE  n + 1 \in T
  BY <1>3
<1>6. T \subseteq Nat
  OBVIOUS
<1>. HIDE DEF T
<1>7. T = Nat
  BY <1>4, <1>5, <1>6, Induction
<1>8. \A n \in Nat : Power[n] \in Nat \ {0}
  BY <1>7 DEF T
<1>. QED  BY <1>2, <1>3, <1>8

(* A shift by a sum is a shift by each of its parts.                       *)
LEMMA PowerSum ==
  ASSUME NEW m \in Nat, NEW n \in Nat
  PROVE  Power[m + n] = Power[m] * Power[n]
<1>. DEFINE T == {k \in Nat : Power[m + k] = Power[m] * Power[k]}
<1>1. 0 \in T
  BY PowerSteps
<1>2. ASSUME NEW k \in T
      PROVE  k + 1 \in T
  <2>1. m + k \in Nat /\ m + (k + 1) = (m + k) + 1
    OBVIOUS
  <2>2. Power[m + (k + 1)] = 2 * Power[m + k] /\ Power[k + 1] = 2 * Power[k]
    BY <2>1, PowerSteps
  <2>3. Power[m] \in Nat /\ Power[k] \in Nat
    BY PowerSteps
  <2>4. 2 * (Power[m] * Power[k]) = Power[m] * (2 * Power[k])
    BY <2>3
  <2>. QED  BY <2>2, <2>4
<1>3. T \subseteq Nat
  OBVIOUS
<1>. HIDE DEF T
<1>4. T = Nat
  BY <1>1, <1>2, <1>3, Induction
<1>. QED  BY <1>4 DEF T

LEMMA PowerGrows ==
  ASSUME NEW m \in Nat, NEW n \in Nat, m <= n
  PROVE  /\ Power[m] <= Power[n]
         /\ n - m \in Nat /\ Power[n] = Power[m] * Power[n - m]
<1>1. n - m \in Nat /\ m + (n - m) = n
  OBVIOUS
<1>2. Power[n] = Power[m] * Power[n - m]
  BY <1>1, PowerSum
<1>3. Power[m] \in Nat \ {0} /\ Power[n - m] \in Nat \ {0}
  BY <1>1, PowerSteps
<1>4. \A a, b \in Nat \ {0} : a <= a * b
  OBVIOUS
<1>. QED  BY <1>1, <1>2, <1>3, <1>4

(* Division with remainder, of numbers of either sign.                     *)
LEMMA Divided ==
  ASSUME NEW n \in Int, NEW d \in Nat \ {0}
  PROVE  /\ n \div d \in Int /\ (n % d) \in 0 .. (d - 1)
         /\ n = d * (n \div d) + (n % d)
         /\ n \in Nat => n \div d \in Nat /\ n \div d <= n
OBVIOUS

LEMMA DividedUnique ==
  ASSUME NEW n, NEW q \in Int, NEW d \in Nat \ {0}, NEW r \in 0 .. (d - 1), n = q * d + r
  PROVE  n \div d = q /\ (n % d) = r
OBVIOUS

-----------------------------------------------------------------------------
(* Words.                                                                  *)
Half == Power[WORD_BITS - 1]

LEMMA Sizes ==
  /\ WORD_BITS \in Nat \ {0} /\ IMM_BITS \in Nat \ {0} /\ IMM_BITS < WORD_BITS
  /\ WORD_BITS - 1 \in Nat /\ WORD_BITS - IMM_BITS \in Nat
  /\ Half \in Nat \ {0} /\ PERIOD = 2 * Half /\ PERIOD \in Nat \ {0} /\ PERIOD \div 2 = Half
  /\ \A b \in Widths : b \in Nat \ {0} /\ b < WORD_BITS
<1>1. /\ WORD_BITS \in Nat \ {0} /\ IMM_BITS \in Nat \ {0} /\ IMM_BITS < WORD_BITS
      /\ WORD_BITS - 1 \in Nat /\ WORD_BITS - IMM_BITS \in Nat /\ (WORD_BITS - 1) + 1 = WORD_BITS
  BY WidthAssumption
<1>2. Half \in Nat \ {0} /\ PERIOD = 2 * Half
  BY <1>1, PowerSteps DEF Half, PERIOD
<1>3. PERIOD \in Nat \ {0} /\ PERIOD \div 2 = Half
  BY <1>2
<1>4. \A b \in Widths : b \in Nat \ {0} /\ b < WORD_BITS
  BY WidthAssumption DEF Widths
<1>. QED  BY <1>1, <1>2, <1>3, <1>4

LEMMA WordOf ==
  ASSUME NEW n \in Int
  PROVE  /\ ToWord(n) \in Word
         /\ n \in Word => ToWord(n) = n
BY Sizes DEF ToWord, Word

(* A word and its number.                                                  *)
LEMMA SignedRange ==
  ASSUME NEW w \in Word
  PROVE  Signed(w) \in (-Half) .. (Half - 1)
BY Sizes DEF Signed, Word

LEMMA SignedBack ==
  ASSUME NEW n \in (-Half) .. (Half - 1)
  PROVE  Signed(ToWord(n)) = n
<1>1. CASE n >= 0
  <2>1. n \in Word
    BY <1>1, Sizes DEF Word
  <2>. QED  BY <1>1, <2>1, WordOf, Sizes DEF Signed
<1>2. CASE n < 0
  <2>1. n + PERIOD \in 0 .. (PERIOD - 1) /\ n = (-1) * PERIOD + (n + PERIOD)
    BY <1>2, Sizes
  <2>2. ToWord(n) = n + PERIOD
    BY <2>1, DividedUnique, Sizes DEF ToWord
  <2>. QED  BY <1>2, <2>2, Sizes DEF Signed
<1>. QED  BY <1>1, <1>2

(* Words add up modulo their period.                                       *)
LEMMA WordSum ==
  ASSUME NEW a \in Int, NEW b \in Int
  PROVE  ToWord(ToWord(a) + b) = ToWord(a + b)
<1>. DEFINE q == a \div PERIOD
            r == a % PERIOD
<1>1. q \in Int /\ r \in 0 .. (PERIOD - 1) /\ a = PERIOD * q + r
  BY Divided, Sizes
<1>. HIDE DEF q, r
<1>. DEFINE p == (r + b) \div PERIOD
            s == (r + b) % PERIOD
<1>2. p \in Int /\ s \in 0 .. (PERIOD - 1) /\ r + b = PERIOD * p + s
  <2>1. PERIOD \in Nat \ {0} /\ r + b \in Int
    BY <1>1, Sizes
  <2>. QED  BY <2>1, Divided
<1>. HIDE DEF p, s
<1>3. \A x, y, z, t \in Int : z * x + (z * y + t) = (x + y) * z + t
  OBVIOUS
<1>4. a + b = PERIOD * q + (PERIOD * p + s)
  <2>1. PERIOD * q \in Int /\ PERIOD * p \in Int
    BY <1>1, <1>2, Sizes
  <2>. DEFINE x == PERIOD * q
              y == PERIOD * p
  <2>2. x \in Int /\ y \in Int /\ a = x + r /\ r + b = y + s
    BY <1>1, <1>2, <2>1
  <2>. HIDE DEF x, y
  <2>3. a + b = x + (y + s)
    BY <1>1, <1>2, <2>2
  <2>. QED  BY <2>3 DEF x, y
<1>5. q + p \in Int /\ a + b = (q + p) * PERIOD + s
  BY <1>1, <1>2, <1>3, <1>4, Sizes
<1>6. ((a + b) % PERIOD) = s
  <2>1. PERIOD \in Nat \ {0}
    BY Sizes
  <2>2. \A n, u \in Int, v \in 0 .. (PERIOD - 1) : n = u * PERIOD + v => (n % PERIOD) = v
    BY <2>1, DividedUnique
  <2>. QED  BY <1>2, <1>5, <2>2
<1>. QED  BY <1>6 DEF ToWord, r, s
-----------------------------------------------------------------------------
(* Division.                                                               *)

(* Division by a magnitude, as the prover does it.                         *)
LEMMA Truncated ==
  ASSUME NEW m \in Nat, NEW n \in Nat \ {0}
  PROVE  \E q0, r0 \in Nat :
           /\ q0 = m \div n /\ r0 < n /\ r0 <= m /\ q0 <= m
           /\ q0 * n \in Nat /\ m = q0 * n + r0 /\ (n > 1 => 2 * q0 <= m)
<1>. DEFINE q0 == m \div n
            r0 == m % n
<1>1. q0 \in Nat /\ q0 <= m /\ r0 \in 0 .. (n - 1) /\ m = n * q0 + r0
  <2>1. m \in Int
    OBVIOUS
  <2>. QED  BY <2>1, Divided
<1>. HIDE DEF r0
<1>2. q0 = m \div n
  OBVIOUS
<1>. HIDE DEF q0
<1>3. \A x \in Nat : n * x = x * n /\ x * n \in Nat /\ (n > 1 => 2 * x <= n * x)
  OBVIOUS
<1>4. n * q0 = q0 * n /\ q0 * n \in Nat /\ (n > 1 => 2 * q0 <= n * q0)
  BY <1>1, <1>3
<1>5. r0 \in Nat /\ r0 < n /\ r0 <= m /\ m = q0 * n + r0 /\ (n > 1 => 2 * q0 <= m)
  BY <1>1, <1>4
<1>. QED  BY <1>1, <1>2, <1>4, <1>5

(* `/' of C truncates: what remains is smaller than the divisor and has    *)
(* the sign of the dividend.                                               *)
LEMMA QuotientTruncates ==
  ASSUME NEW a \in Int, NEW b \in Int \ {0}
  PROVE  \E q \in Int, r \in Int :
           /\ q = Quotient(a, b) /\ q * b \in Int /\ r = a - q * b
           /\ Magnitude(r) < Magnitude(b) /\ (r = 0 \/ (r < 0) = (a < 0))
           /\ Magnitude(q) <= Magnitude(a) /\ (Magnitude(b) > 1 => 2 * Magnitude(q) <= Magnitude(a))
           /\ (a < 0) = (b < 0) => q >= 0
           /\ a >= 0 /\ b > 0 => q = a \div b
           /\ ((q * b) % Magnitude(b)) = 0
<1>. DEFINE m == Magnitude(a)
            n == Magnitude(b)
<1>1. m \in Nat /\ n \in Nat \ {0} /\ (a >= 0 => m = a) /\ (a < 0 => a = -m)
      /\ (b >= 0 => n = b) /\ (b < 0 => b = -n)
  BY DEF Magnitude
<1>2. Quotient(a, b) = IF (a < 0) = (b < 0) THEN m \div n ELSE -(m \div n)
  BY DEF Quotient
<1>3. a >= 0 /\ b > 0 => m \div n = a \div b
  BY <1>1
<1>4. Magnitude(a) = m /\ Magnitude(b) = n
  OBVIOUS
<1>. HIDE DEF m, n
<1>5. PICK q0 \in Nat, r0 \in Nat :
           /\ q0 = m \div n /\ r0 < n /\ r0 <= m /\ q0 <= m
           /\ q0 * n \in Nat /\ m = q0 * n + r0 /\ (n > 1 => 2 * q0 <= m)
  BY <1>1, Truncated
<1>. DEFINE q == IF (a < 0) = (b < 0) THEN q0 ELSE -q0
            r == IF a < 0 THEN -r0 ELSE r0
            p == q0 * n
<1>6. q \in Int /\ r \in Int /\ q = Quotient(a, b)
  BY <1>2, <1>5
<1>7. p \in Nat /\ m = p + r0
  BY <1>5
<1>8. q * b = IF a < 0 THEN -p ELSE p
  <2>1. \A x, y \in Int : x * (-y) = -(x * y) /\ (-x) * y = -(x * y) /\ (-x) * (-y) = x * y
    OBVIOUS
  <2>2. CASE b >= 0
    BY <1>1, <2>1, <2>2
  <2>3. CASE b < 0
    BY <1>1, <2>1, <2>3
  <2>. QED  BY <2>2, <2>3
<1>9. (p % n) = 0 /\ ((-p) % n) = 0
  <2>1. p = q0 * n + 0 /\ -p = (-q0) * n + 0 /\ -q0 \in Int /\ 0 \in 0 .. (n - 1)
    BY <1>1
  <2>2. \A x, y \in Int : x = y * n + 0 => (x % n) = 0
    BY <1>1, <2>1, DividedUnique
  <2>. QED  BY <1>7, <2>1, <2>2
<1>10. q * b \in Int /\ ((q * b) % n) = 0
  BY <1>7, <1>8, <1>9
<1>11. r = a - q * b
  <2>. HIDE DEF p, q
  <2>. QED  BY <1>1, <1>7, <1>8
<1>12. Magnitude(r) = r0 /\ Magnitude(q) = q0
  BY DEF Magnitude
<1>13. /\ r = 0 \/ (r < 0) = (a < 0)
       /\ (a < 0) = (b < 0) => q >= 0
       /\ a >= 0 /\ b > 0 => q = a \div b
  BY <1>3, <1>5
<1>. HIDE DEF q, r, p
<1>. QED  BY <1>4, <1>5, <1>6, <1>10, <1>11, <1>12, <1>13

(* A quotient that the host can compute is a number of a word.             *)
LEMMA QuotientFits ==
  ASSUME NEW a \in (-Half) .. (Half - 1), NEW b \in (-Half) .. (Half - 1), b # 0,
         ~(a = -Half /\ b = -1)
  PROVE  /\ Quotient(a, b) \in (-Half) .. (Half - 1)
         /\ a - (Quotient(a, b) * b) \in (-Half) .. (Half - 1)
<1>1. a \in Int /\ b \in Int \ {0} /\ Half \in Nat \ {0}
  BY Sizes
<1>2. PICK q \in Int, r \in Int :
           /\ q = Quotient(a, b) /\ r = a - q * b
           /\ Magnitude(r) < Magnitude(b)
           /\ Magnitude(q) <= Magnitude(a) /\ (Magnitude(b) > 1 => 2 * Magnitude(q) <= Magnitude(a))
           /\ (a < 0) = (b < 0) => q >= 0
  BY <1>1, QuotientTruncates
<1>3. Magnitude(a) <= Half /\ Magnitude(b) <= Half
  BY <1>1 DEF Magnitude
<1>4. r \in (-Half) .. (Half - 1)
  BY <1>1, <1>2, <1>3 DEF Magnitude
<1>5. q \in (-Half) .. (Half - 1)
  <2>1. CASE Magnitude(b) > 1
    BY <1>1, <1>2, <1>3, <2>1 DEF Magnitude
  <2>2. CASE b = 1
    BY <1>1, <1>2, <2>2 DEF Magnitude
  <2>3. CASE b = -1
    BY <1>1, <1>2, <2>3 DEF Magnitude
  <2>4. Magnitude(b) > 1 \/ b = 1 \/ b = -1
    BY <1>1 DEF Magnitude
  <2>. QED  BY <2>1, <2>2, <2>3, <2>4
<1>. QED  BY <1>2, <1>4, <1>5
-----------------------------------------------------------------------------
(* Bits.                                                                   *)
Position == 0 .. (WORD_BITS - 1)
Bit(w, k) == (w \div Power[k]) % 2 = 1

LEMMA BitsOf ==
  ASSUME NEW w \in Word
  PROVE  Bits[w] = {k \in Position : Bit(w, k)}
BY DEF Bits, Bit, Position

(* One bit more of a number.                                               *)
LEMMA BitAbove ==
  ASSUME NEW x \in Nat, NEW d \in Nat \ {0}
  PROVE  (x % (2 * d)) = (x % d) + (IF (x \div d) % 2 = 1 THEN d ELSE 0)
<1>. DEFINE q == x \div d
            r == x % d
<1>1. q \in Nat /\ r \in 0 .. (d - 1) /\ x = d * q + r
  <2>1. x \in Int
    OBVIOUS
  <2>. QED  BY <2>1, Divided
<1>. HIDE DEF r
<1>2. (x % (2 * d)) = r + (IF q % 2 = 1 THEN d ELSE 0)
  <2>. HIDE DEF q
  <2>. DEFINE p == q \div 2
              b == q % 2
  <2>1. p \in Nat /\ b \in {0, 1} /\ q = 2 * p + b
    BY <1>1
  <2>. HIDE DEF p
  <2>2. b = q % 2
    OBVIOUS
  <2>. HIDE DEF b
  <2>. DEFINE t == IF b = 1 THEN d + r ELSE r
  <2>3. x = p * (2 * d) + t
    <3>1. \A y \in Nat : d * (2 * y) = y * (2 * d) /\ d * (2 * y + 1) = y * (2 * d) + d /\ y * (2 * d) \in Nat
      OBVIOUS
    <3>. QED  BY <1>1, <2>1, <3>1
  <2>4. 2 * d \in Nat \ {0} /\ t \in 0 .. (2 * d - 1)
    BY <1>1
  <2>5. t = r + (IF b = 1 THEN d ELSE 0)
    BY <1>1
  <2>. HIDE DEF t
  <2>6. (x % (2 * d)) = t
    BY <2>1, <2>3, <2>4, DividedUnique
  <2>. QED  BY <2>2, <2>5, <2>6
<1>. QED  BY <1>2 DEF r

(* Words are equal when their bits are.                                    *)
LEMMA SameBits ==
  ASSUME NEW v \in Word, NEW w \in Word, \A k \in Position : Bit(v, k) <=> Bit(w, k)
  PROVE  v = w
<1>. DEFINE T == {k \in Nat : k <= WORD_BITS => (v % Power[k]) = (w % Power[k])}
<1>0. v \in Nat /\ w \in Nat /\ v < PERIOD /\ w < PERIOD
  BY Sizes DEF Word
<1>1. 0 \in T
  BY <1>0, PowerSteps
<1>2. ASSUME NEW k \in T
      PROVE  k + 1 \in T
  <2>. SUFFICES ASSUME k + 1 <= WORD_BITS
                PROVE  (v % Power[k + 1]) = (w % Power[k + 1])
    OBVIOUS
  <2>1. (v % Power[k]) = (w % Power[k]) /\ k \in Position
    BY Sizes DEF Position
  <2>2. Power[k] \in Nat \ {0} /\ Power[k + 1] = 2 * Power[k]
    BY PowerSteps
  <2>3. /\ (v % Power[k + 1]) = (v % Power[k]) + (IF Bit(v, k) THEN Power[k] ELSE 0)
        /\ (w % Power[k + 1]) = (w % Power[k]) + (IF Bit(w, k) THEN Power[k] ELSE 0)
    BY <1>0, <2>2, BitAbove DEF Bit
  <2>. QED  BY <2>1, <2>3
<1>3. T \subseteq Nat
  OBVIOUS
<1>. HIDE DEF T
<1>4. WORD_BITS \in T
  BY <1>1, <1>2, <1>3, Induction, Sizes
<1>5. (v % PERIOD) = (w % PERIOD)
  BY <1>4, Sizes DEF T, PERIOD
<1>. QED  BY <1>5, WordOf, <1>0 DEF ToWord

(* The bits of two fields that stand side by side.                         *)
LEMMA BitsLow ==
  ASSUME NEW y \in Nat, NEW u \in Nat, NEW c \in Nat \ {0}, NEW x \in Nat, x = (2 * y) * c
  PROVE  (x \div c) % 2 = 0 /\ ((x + u) \div c) % 2 = (u \div c) % 2
<1>. DEFINE q == u \div c
            r == u % c
<1>1. q \in Nat /\ r \in 0 .. (c - 1) /\ u = c * q + r
  <2>1. u \in Int
    OBVIOUS
  <2>. QED  BY <2>1, Divided
<1>. HIDE DEF r
<1>2. q = u \div c
  OBVIOUS
<1>. HIDE DEF q
<1>3. x + u = (2 * y + q) * c + r
  <2>1. (2 * y + q) * c = x + c * q /\ c * q \in Nat
    BY <1>1
  <2>. QED  BY <1>1, <2>1
<1>4. (x + u) \div c = 2 * y + q
  BY <1>1, <1>3, DividedUnique
<1>5. x \div c = 2 * y
  <2>1. 0 \in 0 .. (c - 1) /\ x = (2 * y) * c + 0 /\ 2 * y \in Int
    OBVIOUS
  <2>. QED  BY <2>1, DividedUnique
<1>6. (2 * y + q) % 2 = q % 2 /\ (2 * y) % 2 = 0
  BY <1>1
<1>. QED  BY <1>2, <1>4, <1>5, <1>6

LEMMA BitsHigh ==
  ASSUME NEW h \in Nat, NEW d \in Nat \ {0}, NEW u \in 0 .. (d - 1), NEW e \in Nat \ {0}
  PROVE  (h * d + u) \div (d * e) = h \div e /\ u \div (d * e) = 0
<1>. DEFINE q == h \div e
            r == h % e
            t == r * d
<1>1. q \in Nat /\ r \in 0 .. (e - 1) /\ h = e * q + r
  <2>1. h \in Int
    OBVIOUS
  <2>. QED  BY <2>1, Divided
<1>. HIDE DEF q, r
<1>2. d * e \in Nat \ {0} /\ d <= d * e
  OBVIOUS
<1>3. t \in Nat /\ t + d <= d * e
  <2>1. r + 1 <= e
    BY <1>1
  <2>2. \A x, y \in Nat : x <= y => x * d <= d * y /\ x * d \in Nat
    OBVIOUS
  <2>3. (r + 1) * d <= d * e
    BY <1>1, <2>1, <2>2
  <2>4. (r + 1) * d = r * d + d
    BY <1>1
  <2>. QED  BY <1>1, <2>2, <2>3, <2>4
<1>4. h * d = q * (d * e) + t
  BY <1>1
<1>. HIDE DEF t
<1>5. t + u \in 0 .. (d * e - 1)
  BY <1>2, <1>3
<1>6. q * (d * e) \in Nat
  BY <1>1, <1>2
<1>7. h * d + u = q * (d * e) + (t + u)
  BY <1>3, <1>4, <1>6
<1>8. (h * d + u) \div (d * e) = q
  BY <1>1, <1>2, <1>5, <1>7, DividedUnique
<1>9. u \div (d * e) = 0
  <2>1. u = 0 * (d * e) + u /\ u \in 0 .. (d * e - 1)
    BY <1>2
  <2>. QED  BY <1>2, <2>1, DividedUnique
<1>. QED  BY <1>8, <1>9 DEF q

LEMMA BitsJoined ==
  ASSUME NEW h \in 0 .. (Power[WORD_BITS - IMM_BITS] - 1), NEW u \in UImm
  PROVE  /\ h * Power[IMM_BITS] \in Word /\ (h * Power[IMM_BITS]) + u \in Word
         /\ \A k \in Position : Bit((h * Power[IMM_BITS]) + u, k)
                                  <=> Bit(h * Power[IMM_BITS], k) \/ Bit(u, k)
<1>. DEFINE d == Power[IMM_BITS]
            m == Power[WORD_BITS - IMM_BITS]
<1>1. d \in Nat \ {0} /\ m \in Nat \ {0} /\ PERIOD = d * m
  <2>1. IMM_BITS \in Nat /\ WORD_BITS \in Nat /\ IMM_BITS <= WORD_BITS /\ WORD_BITS - IMM_BITS \in Nat
    BY Sizes
  <2>2. Power[WORD_BITS] = d * m
    BY <2>1, PowerGrows
  <2>. QED  BY <2>1, <2>2, PowerSteps DEF PERIOD
<1>2. h \in Nat /\ h + 1 <= m /\ u \in 0 .. (d - 1)
  BY <1>1 DEF UImm
<1>3. h * d \in Nat /\ h * d + d <= PERIOD
  <2>. HIDE DEF d, m
  <2>1. \A x, y \in Nat : x <= y => x * d <= d * y
    BY <1>1
  <2>2. (h + 1) * d <= d * m
    BY <1>1, <1>2, <2>1
  <2>3. (h + 1) * d = h * d + d /\ h * d \in Nat
    BY <1>1, <1>2
  <2>. QED  BY <1>1, <2>2, <2>3
<1>4. h * d \in Word /\ h * d + u \in Word
  <2>. DEFINE x == h * d
  <2>1. x \in Nat /\ x + d <= PERIOD
    BY <1>3
  <2>. HIDE DEF x, d
  <2>2. x \in Word /\ x + u \in Word
    BY <1>1, <1>2, <2>1, Sizes DEF Word
  <2>. QED  BY <2>2 DEF x
<1>5. ASSUME NEW k \in Position
      PROVE  Bit(h * d + u, k) <=> Bit(h * d, k) \/ Bit(u, k)
  <2>1. k \in Nat /\ IMM_BITS \in Nat
    BY Sizes DEF Position
  <2>2. CASE k < IMM_BITS
    <3>. DEFINE c == Power[k]
                e == Power[IMM_BITS - k - 1]
    <3>1. IMM_BITS - k - 1 \in Nat /\ (IMM_BITS - k - 1) + 1 = IMM_BITS - k /\ k <= IMM_BITS
      BY <2>1, <2>2
    <3>2. c \in Nat \ {0} /\ e \in Nat /\ Power[IMM_BITS - k] = 2 * e /\ d = c * Power[IMM_BITS - k]
      BY <2>1, <3>1, PowerSteps, PowerGrows
    <3>. HIDE DEF c, e, d
    <3>. DEFINE x == h * d
                y == h * e
    <3>3. x \in Nat /\ y \in Nat /\ x = (2 * y) * c
      <4>1. \A p, q, r \in Nat : p * (q * (2 * r)) = (2 * (p * r)) * q
        OBVIOUS
      <4>2. h \in Nat /\ c \in Nat /\ e \in Nat /\ d \in Nat /\ d = c * (2 * e)
        BY <1>1, <1>2, <3>2
      <4>. QED  BY <4>1, <4>2
    <3>. HIDE DEF x, y
    <3>4. (x \div c) % 2 = 0 /\ ((x + u) \div c) % 2 = (u \div c) % 2
      BY <1>2, <3>2, <3>3, BitsLow
    <3>5. c = Power[k]
      BY DEF c
    <3>. QED  BY <3>4, <3>5 DEF Bit, x
  <2>3. CASE k >= IMM_BITS
    <3>. DEFINE e == Power[k - IMM_BITS]
    <3>1. Power[k] = d * e /\ e \in Nat \ {0}
      BY <2>1, <2>3, PowerSteps, PowerGrows
    <3>. HIDE DEF e, d
    <3>2. (h * d + u) \div (d * e) = h \div e /\ u \div (d * e) = 0
      <4>1. h \in Nat /\ d \in Nat \ {0} /\ u \in 0 .. (d - 1) /\ e \in Nat \ {0}
        BY <1>1, <1>2, <3>1
      <4>. QED  BY <4>1, BitsHigh, Zenon
    <3>3. (h * d + 0) \div (d * e) = h \div e
      <4>1. 0 \in 0 .. (d - 1)
        BY <1>1
      <4>. QED  BY <1>1, <1>2, <3>1, <4>1, BitsHigh
    <3>4. h * d + 0 = h * d
      BY <1>1, <1>2
    <3>. QED  BY <3>1, <3>2, <3>3, <3>4 DEF Bit
  <2>. QED  BY <2>1, <2>2, <2>3
<1>. QED  BY <1>4, <1>5
-----------------------------------------------------------------------------
(* The sign of a part of a word: up to its end and back.                   *)
LEMMA ShiftedUp ==
  ASSUME NEW b \in Widths, NEW a \in 0 .. (Power[b] - 1)
  PROVE  /\ WORD_BITS - b \in Nat /\ WORD_BITS - b < WORD_BITS
         /\ a * Power[WORD_BITS - b] \in Word
         /\ a \in Word
<1>. DEFINE m == Power[b]
            d == Power[WORD_BITS - b]
<1>1. b \in Nat \ {0} /\ b <= WORD_BITS /\ WORD_BITS - b \in Nat /\ WORD_BITS - b < WORD_BITS
  BY Sizes
<1>2. m \in Nat \ {0} /\ d \in Nat \ {0} /\ PERIOD = m * d /\ m <= PERIOD
  BY <1>1, PowerSteps, PowerGrows, Sizes DEF PERIOD
<1>3. a \in Nat /\ a + 1 <= m
  BY <1>2
<1>. HIDE DEF m, d
<1>4. a * d \in Nat /\ a * d + d <= m * d
  <2>1. \A x, y \in Nat : x <= y => x * d <= y * d
    BY <1>2
  <2>2. (a + 1) * d <= m * d
    BY <1>2, <1>3, <2>1
  <2>3. (a + 1) * d = a * d + d /\ a * d \in Nat
    BY <1>2, <1>3
  <2>. QED  BY <2>2, <2>3
<1>5. a * d \in Word
  <2>. DEFINE x == a * d
  <2>1. x \in Nat /\ x + d <= PERIOD
    BY <1>2, <1>4
  <2>. HIDE DEF x
  <2>2. x \in Word
    BY <1>2, <2>1, Sizes DEF Word
  <2>. QED  BY <2>2 DEF x
<1>6. a \in Word
  BY <1>2, <1>3, Sizes DEF Word
<1>. QED  BY <1>1, <1>5, <1>6 DEF d

LEMMA SignBack ==
  ASSUME NEW b \in Widths, NEW a \in 0 .. (Power[b] - 1)
  PROVE  Signed(ToWord(Signed(a * Power[WORD_BITS - b]) \div Power[WORD_BITS - b]))
           = a - (IF a < Power[b - 1] THEN 0 ELSE Power[b])
<1>. DEFINE m == Power[b - 1]
            d == Power[WORD_BITS - b]
            n == a - (IF a < m THEN 0 ELSE Power[b])
<1>1. b \in Nat \ {0} /\ b - 1 \in Nat /\ (b - 1) + 1 = b /\ WORD_BITS - b \in Nat
      /\ b - 1 <= WORD_BITS - 1 /\ (WORD_BITS - 1) - (b - 1) = WORD_BITS - b /\ WORD_BITS - 1 \in Nat
  BY Sizes
<1>2. m \in Nat \ {0} /\ d \in Nat \ {0} /\ Half = m * d /\ m <= Half /\ Power[b] = 2 * m
  <2>1. m \in Nat \ {0} /\ d \in Nat \ {0}
    BY <1>1, PowerSteps
  <2>2. m <= Half /\ Half = m * d
    BY <1>1, PowerGrows DEF Half
  <2>3. Power[(b - 1) + 1] = 2 * m
    BY <1>1, PowerSteps
  <2>. QED  BY <1>1, <2>1, <2>2, <2>3
<1>3. a \in 0 .. (2 * m - 1) /\ n = a - (IF a < m THEN 0 ELSE 2 * m)
  BY <1>2
<1>. HIDE DEF m, d, n
<1>4. n \in (-Half) .. (Half - 1)
  BY <1>2, <1>3, Sizes
<1>5. Signed(a * d) = n * d
  <2>. DEFINE x == a * d
  <2>1. x \in Nat /\ (a < m => x < Half) /\ (a >= m => x >= Half) /\ x - 2 * Half = (a - 2 * m) * d
    <3>1. \A y, z \in Nat : (y < z => y * d < z * d) /\ (y >= z => y * d >= z * d)
                            /\ y * d \in Nat /\ (y * d) - 2 * (z * d) = (y - 2 * z) * d
      BY <1>2
    <3>. QED  BY <1>2, <1>3, <3>1
  <2>. HIDE DEF x
  <2>2. CASE a < m
    <3>1. Signed(x) = x
      BY <2>1, <2>2, Sizes DEF Signed
    <3>2. n = a
      BY <1>2, <1>3, <2>2
    <3>. QED  BY <3>1, <3>2 DEF x
  <2>3. CASE a >= m
    <3>1. Signed(x) = x - 2 * Half
      BY <2>1, <2>3, Sizes DEF Signed
    <3>2. n = a - 2 * m
      BY <1>2, <1>3, <2>3
    <3>. QED  BY <2>1, <3>1, <3>2 DEF x
  <2>. QED  BY <1>2, <1>3, <2>2, <2>3
<1>6. (n * d) \div d = n
  <2>1. n \in Int /\ 0 \in 0 .. (d - 1)
    BY <1>2, <1>4, Sizes
  <2>2. n * d = n * d + 0
    BY <1>2, <2>1
  <2>. QED  BY <1>2, <2>1, <2>2, DividedUnique
<1>7. Signed(ToWord(Signed(a * d) \div d)) = n
  BY <1>4, <1>5, <1>6, SignedBack
<1>. QED  BY <1>7 DEF n, m, d
-----------------------------------------------------------------------------
(* Displacements.                                                          *)

(* The number of a displacement.                                           *)
Displaced(rel) ==
  LET s == Power[REL_BITS + INSN_LEN_SHIFT - 1]
  IN  (rel * INSN_LEN) - (IF rel * INSN_LEN < s THEN 0 ELSE 2 * s)

LEMMA Displacements ==
  LET s == Power[REL_BITS + INSN_LEN_SHIFT - 1]
  IN  /\ s \in Nat \ {0} /\ INSN_LEN \in Nat \ {0} /\ Power[REL_BITS] * INSN_LEN = 2 * s
      /\ Power[REL_BITS] \in Nat
      /\ \A rel \in Rel : rel \in Nat /\ rel * INSN_LEN \in 0 .. (2 * s - 1)
<1>. DEFINE s == Power[REL_BITS + INSN_LEN_SHIFT - 1]
            m == Power[REL_BITS]
<1>1. /\ REL_BITS \in Nat \ {0} /\ INSN_LEN_SHIFT \in Nat /\ REL_BITS + INSN_LEN_SHIFT - 1 \in Nat
      /\ (REL_BITS + INSN_LEN_SHIFT - 1) + 1 = REL_BITS + INSN_LEN_SHIFT
  BY WidthAssumption
<1>2. s \in Nat \ {0} /\ INSN_LEN \in Nat \ {0} /\ m \in Nat \ {0} /\ m * INSN_LEN = 2 * s
  <2>1. s \in Nat \ {0} /\ INSN_LEN \in Nat \ {0} /\ m \in Nat \ {0}
    BY <1>1, PowerSteps DEF INSN_LEN
  <2>2. Power[REL_BITS + INSN_LEN_SHIFT] = m * INSN_LEN
    BY <1>1, PowerSum DEF INSN_LEN
  <2>3. Power[(REL_BITS + INSN_LEN_SHIFT - 1) + 1] = 2 * s
    BY <1>1, PowerSteps
  <2>. QED  BY <1>1, <2>1, <2>2, <2>3
<1>3. ASSUME NEW rel \in Rel
      PROVE  rel \in Nat /\ rel * INSN_LEN \in 0 .. (2 * s - 1)
  <2>1. rel \in Nat /\ rel + 1 <= m
    BY <1>2 DEF Rel
  <2>. HIDE DEF s, m
  <2>2. rel * INSN_LEN \in Nat /\ (rel + 1) * INSN_LEN = rel * INSN_LEN + INSN_LEN
    BY <1>2, <2>1
  <2>3. (rel + 1) * INSN_LEN <= m * INSN_LEN
    <3>1. \A x, y \in Nat : x <= y => x * INSN_LEN <= y * INSN_LEN
      BY <1>2
    <3>. QED  BY <1>2, <2>1, <3>1
  <2>. QED  BY <1>2, <2>1, <2>2, <2>3
<1>. QED  BY <1>2, <1>3

LEMMA RelExtended ==
  ASSUME NEW rel \in Rel
  PROVE  Displaced(rel) \in Int /\ rel26_sig_ext(rel) = ToWord(Displaced(rel))
<1>. DEFINE s == Power[REL_BITS + INSN_LEN_SHIFT - 1]
            u == rel * INSN_LEN
<1>1. s \in Nat \ {0} /\ u \in 0 .. (2 * s - 1)
  BY Displacements
<1>2. Displaced(rel) = u - (IF u < s THEN 0 ELSE 2 * s)
  BY DEF Displaced
<1>3. rel26_sig_ext(rel) = ToWord((IF (u \div s) % 2 = 1 THEN u - s ELSE u + s) - s)
  <2>. DEFINE k == REL_BITS + INSN_LEN_SHIFT - 1
  <2>1. k \in Position /\ k + 1 \in Nat /\ WORD_BITS \in Nat /\ k + 1 <= WORD_BITS /\ k \in Nat
    BY WidthAssumption DEF Position
  <2>2. 2 * s <= PERIOD
    <3>1. Power[k + 1] = 2 * s
      BY <2>1, PowerSteps
    <3>2. Power[k + 1] <= Power[WORD_BITS]
      BY <2>1, PowerGrows
    <3>. QED  BY <3>1, <3>2 DEF PERIOD
  <2>3. u \in Word
    BY <1>1, <2>2, Sizes DEF Word
  <2>4. k \in Bits[u] <=> (u \div s) % 2 = 1
    BY <2>1, <2>3, BitsOf DEF Bit
  <2>. QED  BY <2>4 DEF rel26_sig_ext, Extend
<1>. HIDE DEF s, u
<1>4. CASE u < s
  <2>1. u = 0 * s + u /\ u \in 0 .. (s - 1)
    BY <1>1, <1>4
  <2>2. u \div s = 0
    BY <1>1, <2>1, DividedUnique
  <2>. QED  BY <1>1, <1>2, <1>3, <1>4, <2>2
<1>5. CASE u >= s
  <2>1. u = 1 * s + (u - s) /\ u - s \in 0 .. (s - 1)
    BY <1>1, <1>5
  <2>2. u \div s = 1
    BY <1>1, <2>1, DividedUnique
  <2>3. (u - s) - s = u - 2 * s
    BY <1>1
  <2>. QED  BY <1>1, <1>2, <1>3, <1>5, <2>2, <2>3
<1>. QED  BY <1>1, <1>4, <1>5

(* Two opposite displacements lead back.                                   *)
LEMMA Opposite ==
  ASSUME NEW a \in Word, NEW r1 \in Rel, NEW r2 \in Rel, r1 + r2 = Power[REL_BITS], r1 # r2
  PROVE  ToWord(ToWord(a + rel26_sig_ext(r1)) + rel26_sig_ext(r2)) = a
<1>. DEFINE s == Power[REL_BITS + INSN_LEN_SHIFT - 1]
            u1 == r1 * INSN_LEN
            u2 == r2 * INSN_LEN
            e1 == Displaced(r1)
            e2 == Displaced(r2)
<1>1. s \in Nat \ {0} /\ u1 \in Nat /\ u2 \in Nat /\ u1 + u2 = 2 * s /\ u1 # u2
  <2>1. r1 \in Nat /\ r2 \in Nat /\ INSN_LEN \in Nat \ {0} /\ s \in Nat \ {0}
        /\ Power[REL_BITS] * INSN_LEN = 2 * s /\ u1 \in Nat /\ u2 \in Nat
    BY Displacements
  <2>2. u1 + u2 = (r1 + r2) * INSN_LEN
    BY <2>1
  <2>3. r1 * INSN_LEN # r2 * INSN_LEN
    BY <2>1
  <2>. QED  BY <2>1, <2>2, <2>3
<1>2. e1 = u1 - (IF u1 < s THEN 0 ELSE 2 * s) /\ e2 = u2 - (IF u2 < s THEN 0 ELSE 2 * s)
  BY DEF Displaced
<1>3. e1 \in Int /\ e2 \in Int /\ rel26_sig_ext(r1) = ToWord(e1) /\ rel26_sig_ext(r2) = ToWord(e2)
  BY RelExtended
<1>. HIDE DEF s, u1, u2, e1, e2
<1>4. e1 + e2 = 0
  BY <1>1, <1>2
<1>5. a \in Int /\ ToWord(e1) \in Int /\ ToWord(e2) \in Int
  BY <1>3, WordOf, Sizes DEF Word
<1>6. ToWord(a + ToWord(e1)) = ToWord(a + e1)
  BY <1>3, <1>5, WordSum
<1>7. ToWord(ToWord(a + e1) + ToWord(e2)) = ToWord((a + e1) + e2)
  <2>1. a + e1 \in Int
    BY <1>3, <1>5
  <2>2. ToWord(ToWord(a + e1) + ToWord(e2)) = ToWord((a + e1) + ToWord(e2))
    BY <1>5, <2>1, WordSum
  <2>3. ToWord(ToWord(e2) + (a + e1)) = ToWord(e2 + (a + e1))
    BY <1>3, <2>1, WordSum
  <2>4. (a + e1) + ToWord(e2) = ToWord(e2) + (a + e1) /\ e2 + (a + e1) = (a + e1) + e2
    BY <1>3, <1>5
  <2>. QED  BY <2>2, <2>3, <2>4
<1>8. (a + e1) + e2 = a
  BY <1>3, <1>4, <1>5
<1>. QED  BY <1>3, <1>6, <1>7, <1>8, WordOf, <1>5
-----------------------------------------------------------------------------
(* The invariants.                                                         *)

(* What the guest has so far of an idiom (see `last').                     *)
Upper ==
  last.op = "MHI" =>
    /\ last.a \in 0 .. (Power[WORD_BITS - IMM_BITS] - 1)
    /\ Written => reg[last.rd] = last.a * Power[IMM_BITS]

Part ==
  last.op \in {"load", "shifted"} =>
    /\ last.b \in Widths /\ last.a \in 0 .. (Power[last.b] - 1)
    /\ Written => reg[last.rd] =
         IF last.op = "load" THEN last.a ELSE last.a * Power[WORD_BITS - last.b]

There == last.op = "there" => last.b \in Rel /\ pc = ToWord(last.a + rel26_sig_ext(last.b))

Linked == last.op = "call" => Written /\ reg[last.rd] = NextPc(last.a)

Idioms == Upper /\ Part /\ There /\ Linked

(* What a register write does; register 0 takes no value.                  *)
LEMMA SetRegType ==
  ASSUME TypeOK, NEW r \in Registers, NEW v \in Word
  PROVE  /\ SetReg(r, v) \in [Registers -> Word] /\ SetReg(r, v)[0] = 0
         /\ r # 0 => SetReg(r, v)[r] = v
         /\ r = 0 => SetReg(r, v) = reg
BY WidthAssumption DEF SetReg, TypeOK

LEMMA NextPcType ==
  ASSUME NEW a \in Word
  PROVE  NextPc(a) \in Word
<1>1. INSN_LEN \in Nat
  BY WidthAssumption, PowerSteps DEF INSN_LEN
<1>. QED  BY <1>1, WordOf, Sizes DEF NextPc, Word

(* The immediate operand is a word.                                        *)
LEMMA ImmediateType ==
  ASSUME NEW u \in UImm, NEW op
  PROVE  Operand(op, u) \in Word /\ u \in Word
<1>1. IMM_BITS \in Nat /\ WORD_BITS \in Nat /\ IMM_BITS <= WORD_BITS /\ IMM_BITS - 1 \in Nat
  BY WidthAssumption
<1>2. Power[IMM_BITS] <= PERIOD /\ Power[IMM_BITS] \in Nat /\ Power[IMM_BITS - 1] \in Nat
  BY <1>1, PowerSteps, PowerGrows DEF PERIOD
<1>3. u \in Word
  BY <1>2, Sizes DEF UImm, Word
<1>4. u \in Int
  BY <1>2 DEF UImm
<1>5. simm14(u) \in Word
  BY <1>2, <1>4, WordOf DEF simm14, Extend
<1>. QED  BY <1>3, <1>5 DEF Operand

LEMMA ShiftedType ==
  ASSUME NEW a \in Word, NEW n \in Nat, NEW op \in Shifts
  PROVE  Shifted(op, a, n) \in Word
<1>1. Power[n] \in Nat \ {0} /\ a \in Nat /\ a < PERIOD /\ Signed(a) \in Int
  BY PowerSteps, SignedRange, Sizes DEF Word
<1>2. CASE op = "LSL"
  <2>1. a * Power[n] \in Int
    BY <1>1
  <2>2. Shifted(op, a, n) = ToWord(a * Power[n])
    BY <1>2 DEF Shifted
  <2>. QED  BY <2>1, <2>2, WordOf
<1>3. CASE op = "LSR"
  <2>1. a \div Power[n] \in Nat /\ a \div Power[n] <= a
    <3>1. a \in Int
      BY <1>1
    <3>. QED  BY <1>1, <3>1, Divided
  <2>2. Shifted(op, a, n) = a \div Power[n]
    BY <1>3 DEF Shifted
  <2>. DEFINE x == a \div Power[n]
  <2>3. x \in Nat /\ x <= a
    BY <2>1
  <2>. HIDE DEF x
  <2>4. x \in Word
    BY <1>1, <2>3, Sizes DEF Word
  <2>. QED  BY <2>2, <2>4 DEF x
<1>4. CASE op = "ASR"
  <2>1. Signed(a) \div Power[n] \in Int
    BY <1>1, Divided
  <2>2. Shifted(op, a, n) = ToWord(Signed(a) \div Power[n])
    BY <1>4 DEF Shifted
  <2>. QED  BY <2>1, <2>2, WordOf
<1>. QED  BY <1>2, <1>3, <1>4 DEF Shifts

(* An operation that the host survives yields a word.                      *)
LEMMA ResultsType ==
  ASSUME NEW op \in Binary, NEW a \in Word, NEW b \in Word, ~Traps(op, a, b)
  PROVE  Results(op, a, b) \subseteq Word
<1>1. a \in Int /\ b \in Nat /\ Signed(a) \in Int /\ Signed(b) \in Int
  BY SignedRange, Sizes DEF Word
<1>2. CASE op \in {"AND", "OR", "XOR"}
  <2>1. CASE op = "AND"
    <3>1. Results(op, a, b) = {w \in Word : Bits[w] = Bits[a] \cap Bits[b]}
      BY <2>1 DEF Results
    <3>. QED  BY <3>1
  <2>2. CASE op = "OR"
    <3>1. Results(op, a, b) = {w \in Word : Bits[w] = Bits[a] \cup Bits[b]}
      BY <2>2 DEF Results
    <3>. QED  BY <3>1
  <2>3. CASE op = "XOR"
    <3>1. Results(op, a, b) = {w \in Word : Bits[w] = (Bits[a] \cup Bits[b]) \ (Bits[a] \cap Bits[b])}
      BY <2>3 DEF Results
    <3>. QED  BY <3>1
  <2>. QED  BY <1>2, <2>1, <2>2, <2>3
<1>3. CASE op \in {"ADD", "SUB", "MUL"}
  <2>1. a + b \in Int /\ a - b \in Int /\ a * b \in Int
    BY <1>1
  <2>2. ToWord(a + b) \in Word /\ ToWord(a - b) \in Word /\ ToWord(a * b) \in Word
    BY <2>1, WordOf
  <2>3. CASE op = "ADD"
    <3>1. Results(op, a, b) = {ToWord(a + b)}
      BY <2>3 DEF Results
    <3>. QED  BY <2>2, <3>1
  <2>4. CASE op = "SUB"
    <3>1. Results(op, a, b) = {ToWord(a - b)}
      BY <2>4 DEF Results
    <3>. QED  BY <2>2, <3>1
  <2>5. CASE op = "MUL"
    <3>1. Results(op, a, b) = {ToWord(a * b)}
      BY <2>5 DEF Results
    <3>. QED  BY <2>2, <3>1
  <2>. QED  BY <1>3, <2>3, <2>4, <2>5
<1>4. CASE op \in Divisions
  <2>. DEFINE x == Signed(a)
              y == Signed(b)
  <2>1. b # 0
    BY <1>4 DEF Traps
  <2>2. x \in Int /\ y \in Int \ {0}
    BY <1>1, <2>1, Sizes DEF Signed, Word
  <2>. HIDE DEF x, y
  <2>3. PICK q \in Int, r \in Int : q = Quotient(x, y) /\ r = x - q * y
    BY <2>2, QuotientTruncates
  <2>4. ToWord(Quotient(x, y)) \in Word /\ ToWord(x - (Quotient(x, y) * y)) \in Word
    BY <2>3, WordOf
  <2>5. ToWord(Quotient(Signed(a), Signed(b))) \in Word
        /\ ToWord(Signed(a) - (Quotient(Signed(a), Signed(b)) * Signed(b))) \in Word
    BY <2>4 DEF x, y
  <2>6. \/ Results(op, a, b) = {ToWord(Quotient(Signed(a), Signed(b)))}
        \/ Results(op, a, b) = {ToWord(Signed(a) - (Quotient(Signed(a), Signed(b)) * Signed(b)))}
    BY <1>4 DEF Results, Divisions
  <2>. QED  BY <2>5, <2>6
<1>5. CASE op \in Shifts
  <2>1. Results(op, a, b) = IF b < WORD_BITS THEN {Shifted(op, a, b)} ELSE Word
    BY <1>5 DEF Results, Shifts
  <2>. QED  BY <1>1, <1>5, <2>1, ShiftedType
<1>. QED  BY <1>2, <1>3, <1>4, <1>5 DEF Binary
-----------------------------------------------------------------------------
(* The properties of Alu about the idioms, and the inductive invariant.    *)
Kept == ConstantBuilt /\ SignRecovered /\ Division /\ ThereAndBack /\ CallReturns

AluInv == TypeOK /\ Idioms /\ Kept

(* An instruction that ends no idiom and begins none.                      *)
Names == {"MHI", "constant", "load", "shifted", "widened", "there", "back", "call", "returned"} \cup Divisions

LEMMA Quiet ==
  ASSUME last'.op \notin Names
  PROVE  Idioms' /\ Kept'
<1>1. /\ last'.op \notin Divisions
      /\ last'.op # "MHI" /\ last'.op # "constant" /\ last'.op # "load" /\ last'.op # "shifted"
      /\ last'.op # "widened" /\ last'.op # "there" /\ last'.op # "back" /\ last'.op # "call"
      /\ last'.op # "returned"
  BY DEF Names
<1>2. last'.op \notin {"DIV", "DIVU"} /\ last'.op \notin {"MOD", "MODU"} /\ last'.op # "DIVU"
  BY <1>1 DEF Divisions
<1>3. Idioms'
  BY <1>1 DEF Idioms, Upper, Part, There, Linked
<1>4. Kept'
  BY <1>1, <1>2 DEF Kept, ConstantBuilt, SignRecovered, Division, ThereAndBack, CallReturns
<1>. QED  BY <1>3, <1>4

LEMMA AluStart == Init => AluInv
<1>. SUFFICES ASSUME Init
              PROVE  AluInv
  OBVIOUS
<1>1. 0 \in Word /\ 0 \in Registers
  BY Sizes, WidthAssumption DEF Word
<1>2. last.op = "none" /\ last.rd = 0 /\ last.a = 0 /\ last.b = 0
  BY DEF Init, None, Seen
<1>3. TypeOK
  <2>1. reg \in [Registers -> Word] /\ reg[0] = 0
    BY <1>1 DEF Init
  <2>2. last.rd \in Registers /\ last.a \in Word /\ last.b \in Nat
    BY <1>1, <1>2
  <2>. QED  BY <1>1, <2>1, <2>2 DEF Init, TypeOK
<1>4. Idioms
  BY <1>2 DEF Idioms, Upper, Part, There, Linked
<1>5. Kept
  BY <1>2 DEF Kept, ConstantBuilt, SignRecovered, Division, ThereAndBack, CallReturns
<1>. QED  BY <1>3, <1>4, <1>5 DEF AluInv

(* A step that stays.                                                      *)
LEMMA AluStays ==
  ASSUME AluInv, UNCHANGED <<pc, reg, cc, last>>, host' \in {"running", "exited"}
  PROVE  AluInv'
<1>1. TypeOK'
  BY DEF AluInv, TypeOK
<1>2. Idioms'
  BY DEF AluInv, Idioms, Upper, Part, There, Linked, Written
<1>3. Kept'
  BY DEF AluInv, Kept, ConstantBuilt, SignRecovered, Division, ThereAndBack, CallReturns,
         Written, Result
<1>. QED  BY <1>1, <1>2, <1>3 DEF AluInv

(* A step that goes on to the next instruction with one register written.  *)
LEMMA Steps ==
  ASSUME TypeOK, Advance, NEW r \in Registers, NEW v \in Word, reg' = SetReg(r, v),
         cc' \in BOOLEAN, last'.rd \in Registers, last'.a \in Word, last'.b \in Nat
  PROVE  TypeOK' /\ (r # 0 => reg'[r] = v) /\ (r = 0 => reg' = reg)
<1>1. pc' \in Word /\ host' \in {"running", "exited"}
  BY NextPcType DEF Advance, Goto, TypeOK
<1>2. /\ reg' \in [Registers -> Word] /\ reg'[0] = 0
      /\ (r # 0 => reg'[r] = v) /\ (r = 0 => reg' = reg)
  BY SetRegType
<1>. QED  BY <1>1, <1>2 DEF TypeOK

(* A division, of numbers.                                                 *)
LEMMA DivisionOf ==
  ASSUME TypeOK', last'.b \in Word, last'.op \in Divisions, ~Traps(last'.op, last'.a, last'.b),
         last'.rd # 0 => reg'[last'.rd] \in Results(last'.op, last'.a, last'.b)
  PROVE  Division'
<1>. DEFINE op == last'.op
            x == Signed(last'.a)
            y == Signed(last'.b)
            w == reg'[last'.rd]
            Remains(n) == Magnitude(n) < Magnitude(y) /\ (n = 0 \/ (n < 0) = (x < 0))
<1>. SUFFICES ASSUME last'.rd # 0
              PROVE  /\ op \in {"DIV", "DIVU"} => Remains(x - (Signed(w) * y))
                     /\ op \in {"MOD", "MODU"} =>
                          Remains(Signed(w)) /\ ((x - Signed(w)) % Magnitude(y)) = 0
                     /\ op = "DIVU" /\ x >= 0 /\ y > 0 => w = last'.a \div last'.b
  BY DEF Division, Written, Result
<1>1. last'.a \in Word /\ last'.b \in Word
  BY DEF TypeOK
<1>2. x \in (-Half) .. (Half - 1) /\ y \in (-Half) .. (Half - 1) /\ y # 0 /\ ~(x = -Half /\ y = -1)
  <2>1. last'.b # 0 /\ ~(x = -Half /\ y = -1)
    BY Sizes DEF Traps
  <2>2. y # 0
    BY <1>1, <2>1, Sizes DEF Signed, Word
  <2>. QED  BY <1>1, <2>1, <2>2, SignedRange
<1>3. x >= 0 /\ y > 0 => x = last'.a /\ y = last'.b
  BY <1>1, Sizes DEF Signed, Word
<1>4. w \in Results(op, last'.a, last'.b)
  OBVIOUS
<1>5. /\ op \in {"DIV", "DIVU"} => w = ToWord(Quotient(x, y))
      /\ op \in {"MOD", "MODU"} => w = ToWord(x - (Quotient(x, y) * y))
  <2>1. CASE op \in {"DIV", "DIVU"}
    <3>1. Results(op, last'.a, last'.b) = {ToWord(Quotient(x, y))}
      BY <2>1 DEF Results
    <3>. QED  BY <1>4, <2>1, <3>1
  <2>2. CASE op \in {"MOD", "MODU"}
    <3>1. Results(op, last'.a, last'.b) = {ToWord(x - (Quotient(x, y) * y))}
      BY <2>2 DEF Results
    <3>. QED  BY <1>4, <2>2, <3>1
  <2>. QED  BY <2>1, <2>2
<1>6. op = "DIVU" => op \in {"DIV", "DIVU"}
  OBVIOUS
<1>. HIDE DEF op, x, y, w
<1>7. Quotient(x, y) \in (-Half) .. (Half - 1) /\ x - (Quotient(x, y) * y) \in (-Half) .. (Half - 1)
  BY <1>2, QuotientFits
<1>8. x \in Int /\ y \in Int \ {0}
  BY <1>2, Sizes
<1>9. PICK q \in Int, r \in Int :
           /\ q = Quotient(x, y) /\ q * y \in Int /\ r = x - q * y
           /\ Magnitude(r) < Magnitude(y) /\ (r = 0 \/ (r < 0) = (x < 0))
           /\ (x < 0) = (y < 0) => q >= 0
           /\ x >= 0 /\ y > 0 => q = x \div y
           /\ ((q * y) % Magnitude(y)) = 0
  BY <1>8, QuotientTruncates
<1>10. CASE op \in {"DIV", "DIVU"}
  <2>1. w = ToWord(q) /\ q \in (-Half) .. (Half - 1)
    BY <1>5, <1>7, <1>9, <1>10
  <2>2. Signed(w) = q
    BY <2>1, SignedBack
  <2>3. Remains(x - (Signed(w) * y))
    BY <1>9, <2>2
  <2>4. ASSUME x >= 0, y > 0
        PROVE  w = last'.a \div last'.b
    <3>1. q \in Word
      BY <1>8, <1>9, <2>1, <2>4, Sizes DEF Word
    <3>. QED  BY <1>3, <1>9, <2>1, <2>4, <3>1, WordOf
  <2>5. op \notin {"MOD", "MODU"}
    BY <1>10
  <2>. QED  BY <2>3, <2>4, <2>5
<1>11. CASE op \in {"MOD", "MODU"}
  <2>1. w = ToWord(r) /\ r \in (-Half) .. (Half - 1)
    BY <1>5, <1>7, <1>9, <1>11
  <2>2. Signed(w) = r
    BY <2>1, SignedBack
  <2>3. x - r = q * y
    BY <1>8, <1>9
  <2>4. op \notin {"DIV", "DIVU"} /\ op # "DIVU"
    BY <1>11
  <2>. QED  BY <1>9, <2>2, <2>3, <2>4
<1>. QED  BY <1>10, <1>11 DEF op, Divisions

LEMMA BinaryStep ==
  ASSUME AluInv, NEW op \in Binary, NEW rd \in Registers, NEW rs1 \in Registers, NEW rs2 \in Registers,
         BinaryOp(op, rd, rs1, rs2)
  PROVE  AluInv'
<1>. DEFINE a == reg[rs1]
            b == reg[rs2]
<1>1. TypeOK /\ a \in Word /\ b \in Word /\ 0 \in Word /\ 0 \in Registers /\ Word \subseteq Nat
  BY Sizes, WidthAssumption DEF AluInv, TypeOK, Word
<1>2. ~Traps(op, a, b) /\ Advance /\ cc' = cc
      /\ last' = IF op \in Divisions THEN Seen(op, rd, a, b) ELSE None
  BY DEF BinaryOp
<1>3. PICK v \in Results(op, a, b) : reg' = SetReg(rd, v)
  BY DEF BinaryOp
<1>4. v \in Word
  BY <1>1, <1>2, <1>3, ResultsType
<1>5. last'.rd \in Registers /\ last'.a \in Word /\ last'.b \in Nat
  BY <1>1, <1>2 DEF Seen, None
<1>6. TypeOK' /\ (rd # 0 => reg'[rd] = v)
  BY <1>1, <1>2, <1>3, <1>4, <1>5, Steps DEF TypeOK
<1>7. CASE op \in Divisions
  <2>1. last'.op = op /\ last'.rd = rd /\ last'.a = a /\ last'.b = b
    BY <1>2, <1>7 DEF Seen
  <2>2. Division'
    BY <1>1, <1>2, <1>3, <1>6, <1>7, <2>1, DivisionOf
  <2>3. /\ last'.op # "MHI" /\ last'.op # "constant" /\ last'.op # "load" /\ last'.op # "shifted"
        /\ last'.op # "widened" /\ last'.op # "there" /\ last'.op # "back" /\ last'.op # "call"
        /\ last'.op # "returned"
    BY <1>7, <2>1 DEF Divisions
  <2>4. Idioms'
    BY <2>3 DEF Idioms, Upper, Part, There, Linked
  <2>5. Kept'
    BY <2>2, <2>3 DEF Kept, ConstantBuilt, SignRecovered, ThereAndBack, CallReturns
  <2>. QED  BY <1>6, <2>4, <2>5 DEF AluInv
<1>8. CASE op \notin Divisions
  <2>1. last'.op \notin Names
    BY <1>2, <1>8 DEF None, Seen, Names, Divisions
  <2>. QED  BY <1>6, <2>1, Quiet DEF AluInv
<1>. QED  BY <1>7, <1>8

(* An idiom that ends, or goes on, with an immediate operation.            *)
LEMMA ConstantEnds ==
  ASSUME AluInv, last.op = "MHI", NEW u \in UImm, last.rd # 0,
         NEW v \in Results("OR", reg[last.rd], u)
  PROVE  v = (last.a * Power[IMM_BITS]) + u
<1>. DEFINE x == last.a * Power[IMM_BITS]
<1>1. last.a \in 0 .. (Power[WORD_BITS - IMM_BITS] - 1) /\ reg[last.rd] = x
  BY DEF AluInv, Idioms, Upper, Written
<1>2. x \in Word /\ x + u \in Word /\ \A k \in Position : Bit(x + u, k) <=> Bit(x, k) \/ Bit(u, k)
  BY <1>1, BitsJoined
<1>. HIDE DEF x
<1>3. Results("OR", x, u) = {w \in Word : Bits[w] = Bits[x] \cup Bits[u]}
  BY DEF Results
<1>4. v \in Word /\ Bits[v] = Bits[x] \cup Bits[u]
  BY <1>1, <1>3
<1>5. u \in Word
  BY ImmediateType
<1>6. \A k \in Position : Bit(v, k) <=> Bit(x, k) \/ Bit(u, k)
  BY <1>2, <1>4, <1>5, BitsOf
<1>7. v = x + u
  BY <1>2, <1>4, <1>6, SameBits
<1>. QED  BY <1>7 DEF x

LEMMA ShiftResult ==
  ASSUME NEW op \in Shifts, NEW a, NEW n \in Nat, n < WORD_BITS
  PROVE  Results(op, a, n) = {Shifted(op, a, n)}
<1>1. Results(op, a, n) = IF n < WORD_BITS THEN {Shifted(op, a, n)} ELSE Word
  BY DEF Results, Shifts
<1>. QED  BY <1>1

LEMMA ImmediateStep ==
  ASSUME AluInv, NEW op \in Immediate, NEW rd \in Registers, NEW rs1 \in Registers, NEW u \in UImm,
         ImmediateOp(op, rd, rs1, u)
  PROVE  AluInv'
<1>. DEFINE a == reg[rs1]
            b == Operand(op, u)
<1>1. TypeOK /\ a \in Word /\ b \in Word /\ u \in Word /\ 0 \in Word /\ 0 \in Registers /\ Word \subseteq Nat
  BY Sizes, WidthAssumption, ImmediateType DEF AluInv, TypeOK, Word
<1>2. Advance /\ cc' = cc /\ last' = Continued(op, rd, rs1, u)
  BY DEF ImmediateOp
<1>3. PICK v \in Results(op, a, b) : reg' = SetReg(rd, v)
  BY DEF ImmediateOp
<1>4. op \in Binary /\ op \notin Divisions
  BY DEF Immediate, Binary, Divisions, Shifts
<1>5. v \in Word
  BY <1>1, <1>3, <1>4, ResultsType DEF Traps
<1>6. \/ last' = None
      \/ /\ rd = rs1 /\ rd = last.rd /\ op = "OR" /\ last.op = "MHI"
         /\ last' = Seen("constant", rd, last.a, u)
      \/ /\ rd = rs1 /\ rd = last.rd /\ op = "LSL" /\ last.op = "load" /\ u = WORD_BITS - last.b
         /\ last' = Seen("shifted", rd, last.a, last.b)
      \/ /\ rd = rs1 /\ rd = last.rd /\ op = "ASR" /\ last.op = "shifted" /\ u = WORD_BITS - last.b
         /\ last' = Seen("widened", rd, last.a, last.b)
  <2>. DEFINE same == rd = rs1 /\ rd = last.rd
              ends == op = "OR" /\ last.op = "MHI"
              ups == op = "LSL" /\ last.op = "load" /\ u = WORD_BITS - last.b
              backs == op = "ASR" /\ last.op = "shifted" /\ u = WORD_BITS - last.b
  <2>1. last' = IF ~same THEN None
                ELSE CASE ends -> Seen("constant", rd, last.a, u)
                       [] ups -> Seen("shifted", rd, last.a, last.b)
                       [] backs -> Seen("widened", rd, last.a, last.b)
                       [] OTHER -> None
    BY <1>2 DEF Continued
  <2>2. ~(ends /\ ups) /\ ~(ends /\ backs) /\ ~(ups /\ backs)
    OBVIOUS
  <2>. HIDE DEF same, ends, ups, backs
  <2>3. ~same => last' = None
    BY <2>1
  <2>4. same /\ ends => last' = Seen("constant", rd, last.a, u)
    BY <2>1, <2>2
  <2>5. same /\ ups => last' = Seen("shifted", rd, last.a, last.b)
    BY <2>1, <2>2
  <2>6. same /\ backs => last' = Seen("widened", rd, last.a, last.b)
    BY <2>1, <2>2
  <2>7. same /\ ~ends /\ ~ups /\ ~backs => last' = None
    BY <2>1
  <2>. QED  BY <2>3, <2>4, <2>5, <2>6, <2>7 DEF same, ends, ups, backs
<1>7. last'.rd \in Registers /\ last'.a \in Word /\ last'.b \in Nat
  <2>1. last.a \in Word /\ last.b \in Nat /\ u \in Nat /\ 0 \in Nat
    BY <1>1 DEF TypeOK
  <2>. QED  BY <1>1, <1>6, <2>1 DEF Seen, None
<1>8. TypeOK' /\ (rd # 0 => reg'[rd] = v)
  BY <1>1, <1>2, <1>3, <1>5, <1>7, Steps DEF TypeOK
<1>9. CASE last' = None
  <2>1. last'.op \notin Names
    BY <1>9 DEF None, Seen, Names, Divisions
  <2>. QED  BY <1>8, <2>1, Quiet DEF AluInv
<1>10. CASE /\ rd = rs1 /\ rd = last.rd /\ op = "OR" /\ last.op = "MHI"
            /\ last' = Seen("constant", rd, last.a, u)
  <2>1. last'.op = "constant" /\ last'.rd = rd /\ last'.a = last.a /\ last'.b = u
    BY <1>10 DEF Seen
  <2>2. b = u
    BY <1>10 DEF Operand
  <2>3. rd # 0 => v = (last.a * Power[IMM_BITS]) + u
    BY <1>3, <1>10, <2>2, ConstantEnds
  <2>4. ConstantBuilt'
    BY <1>8, <2>1, <2>3 DEF ConstantBuilt, Written
  <2>5. last'.op \notin {"DIV", "DIVU"} /\ last'.op \notin {"MOD", "MODU"} /\ last'.op # "DIVU"
    BY <2>1
  <2>6. Idioms'
    BY <2>1 DEF Idioms, Upper, Part, There, Linked
  <2>7. Kept'
    BY <2>1, <2>4, <2>5 DEF Kept, SignRecovered, Division, ThereAndBack, CallReturns
  <2>. QED  BY <1>8, <2>6, <2>7 DEF AluInv
<1>11. CASE /\ rd = rs1 /\ rd = last.rd /\ op = "LSL" /\ last.op = "load" /\ u = WORD_BITS - last.b
            /\ last' = Seen("shifted", rd, last.a, last.b)
  <2>1. last'.op = "shifted" /\ last'.rd = rd /\ last'.a = last.a /\ last'.b = last.b
    BY <1>11 DEF Seen
  <2>2. b = u
    BY <1>11 DEF Operand
  <2>3. last.b \in Widths /\ last.a \in 0 .. (Power[last.b] - 1) /\ (rd # 0 => a = last.a)
    BY <1>11 DEF AluInv, Idioms, Part, Written
  <2>4. u \in Nat /\ u < WORD_BITS /\ last.a * Power[u] \in Word
    BY <1>11, <2>3, ShiftedUp
  <2>5. v = ToWord(a * Power[u])
    <3>1. v = Shifted("LSL", a, u)
      BY <1>3, <1>11, <2>2, <2>4, ShiftResult DEF Shifts
    <3>. QED  BY <3>1 DEF Shifted
  <2>6. rd # 0 => reg'[rd] = last.a * Power[u]
    <3>. DEFINE x == last.a * Power[u]
    <3>1. x \in Word /\ (rd # 0 => v = ToWord(x))
      BY <2>3, <2>4, <2>5
    <3>0. x \in Int
      <4>1. Word \subseteq Int
        BY <1>1
      <4>. QED  BY <3>1, <4>1
    <3>. HIDE DEF x
    <3>2. ToWord(x) = x
      BY <3>0, <3>1, WordOf
    <3>. QED  BY <1>8, <3>1, <3>2 DEF x
  <2>7. Part'
    BY <1>11, <2>1, <2>3, <2>6 DEF Part, Written
  <2>8. last'.op \notin {"DIV", "DIVU"} /\ last'.op \notin {"MOD", "MODU"} /\ last'.op # "DIVU"
    BY <2>1
  <2>9. Idioms'
    BY <2>1, <2>7 DEF Idioms, Upper, There, Linked
  <2>10. Kept'
    BY <2>1, <2>8 DEF Kept, ConstantBuilt, SignRecovered, Division, ThereAndBack, CallReturns
  <2>. QED  BY <1>8, <2>9, <2>10 DEF AluInv
<1>12. CASE /\ rd = rs1 /\ rd = last.rd /\ op = "ASR" /\ last.op = "shifted" /\ u = WORD_BITS - last.b
            /\ last' = Seen("widened", rd, last.a, last.b)
  <2>1. last'.op = "widened" /\ last'.rd = rd /\ last'.a = last.a /\ last'.b = last.b
    BY <1>12 DEF Seen
  <2>2. b = u
    BY <1>12 DEF Operand
  <2>3. /\ last.b \in Widths /\ last.a \in 0 .. (Power[last.b] - 1)
        /\ rd # 0 => a = last.a * Power[u]
    BY <1>12 DEF AluInv, Idioms, Part, Written
  <2>4. u \in Nat /\ u < WORD_BITS
    BY <1>12, <2>3, ShiftedUp
  <2>5. v = ToWord(Signed(a) \div Power[u])
    <3>1. v = Shifted("ASR", a, u)
      BY <1>3, <1>12, <2>2, <2>4, ShiftResult DEF Shifts
    <3>. QED  BY <3>1 DEF Shifted
  <2>6. rd # 0 => Signed(v) = last.a - (IF last.a < Power[last.b - 1] THEN 0 ELSE Power[last.b])
    BY <1>12, <2>3, <2>5, SignBack
  <2>7. SignRecovered'
    BY <1>8, <2>1, <2>6 DEF SignRecovered, Written, Result
  <2>8. last'.op \notin {"DIV", "DIVU"} /\ last'.op \notin {"MOD", "MODU"} /\ last'.op # "DIVU"
    BY <2>1
  <2>9. Idioms'
    BY <2>1 DEF Idioms, Upper, Part, There, Linked
  <2>10. Kept'
    BY <2>1, <2>7, <2>8 DEF Kept, ConstantBuilt, Division, ThereAndBack, CallReturns
  <2>. QED  BY <1>8, <2>9, <2>10 DEF AluInv
<1>. QED  BY <1>6, <1>9, <1>10, <1>11, <1>12

(* MHI loads the upper bits.                                               *)
LEMMA MhiStep ==
  ASSUME AluInv, NEW rd \in Registers, NEW high \in 0 .. (Power[WORD_BITS - IMM_BITS] - 1), Mhi(rd, high)
  PROVE  AluInv'
<1>. DEFINE x == high * Power[IMM_BITS]
<1>1. 0 \in UImm /\ Power[WORD_BITS - IMM_BITS] \in Nat /\ Power[WORD_BITS - IMM_BITS] <= PERIOD
  <2>1. WORD_BITS - IMM_BITS <= WORD_BITS /\ Power[IMM_BITS] \in Nat \ {0}
    BY Sizes, PowerSteps
  <2>2. 0 \in UImm
    BY <2>1 DEF UImm
  <2>3. WORD_BITS \in Nat /\ WORD_BITS - IMM_BITS \in Nat
    BY Sizes
  <2>. QED  BY <2>1, <2>2, <2>3, PowerSteps, PowerGrows DEF PERIOD
<1>2. x \in Word /\ high \in Word /\ 0 \in Nat
  BY <1>1, BitsJoined, Sizes DEF Word
<1>. HIDE DEF x
<1>3. /\ Advance /\ cc' = cc /\ reg' = SetReg(rd, ToWord(x))
      /\ last'.op = "MHI" /\ last'.rd = rd /\ last'.a = high /\ last'.b = 0
  BY DEF Mhi, Seen, x
<1>4. ToWord(x) = x
  BY <1>2, WordOf, Sizes DEF Word
<1>5. TypeOK' /\ (rd # 0 => reg'[rd] = x)
  BY <1>2, <1>3, <1>4, Steps DEF AluInv, TypeOK
<1>6. Upper'
  BY <1>3, <1>5 DEF Upper, Written, x
<1>7. last'.op \notin {"DIV", "DIVU"} /\ last'.op \notin {"MOD", "MODU"} /\ last'.op # "DIVU"
  BY <1>3
<1>8. Idioms'
  BY <1>3, <1>6 DEF Idioms, Part, There, Linked
<1>9. Kept'
  BY <1>3, <1>7 DEF Kept, ConstantBuilt, SignRecovered, Division, ThereAndBack, CallReturns
<1>. QED  BY <1>5, <1>8, <1>9 DEF AluInv

(* A load of a part of a word.                                             *)
LEMMA LoadStep ==
  ASSUME AluInv, NEW rd \in Registers, NEW bits \in Widths, LoadPart(rd, bits)
  PROVE  AluInv'
<1>1. PICK v \in 0 .. (Power[bits] - 1) : reg' = SetReg(rd, v) /\ last' = Seen("load", rd, v, bits)
  BY DEF LoadPart
<1>2. v \in Word /\ bits \in Nat
  BY ShiftedUp, Sizes
<1>3. /\ Advance /\ cc' = cc
      /\ last'.op = "load" /\ last'.rd = rd /\ last'.a = v /\ last'.b = bits
  BY <1>1 DEF LoadPart, Seen
<1>4. TypeOK' /\ (rd # 0 => reg'[rd] = v)
  BY <1>1, <1>2, <1>3, Steps DEF AluInv, TypeOK
<1>5. Part'
  BY <1>3, <1>4 DEF Part, Written
<1>6. last'.op \notin {"DIV", "DIVU"} /\ last'.op \notin {"MOD", "MODU"} /\ last'.op # "DIVU"
  BY <1>3
<1>7. Idioms'
  BY <1>3, <1>5 DEF Idioms, Upper, There, Linked
<1>8. Kept'
  BY <1>3, <1>6 DEF Kept, ConstantBuilt, SignRecovered, Division, ThereAndBack, CallReturns
<1>. QED  BY <1>4, <1>7, <1>8 DEF AluInv

LEMMA CmpStep ==
  ASSUME AluInv, NEW attr \in {"EQ", "GT", "GTU"}, NEW rs1 \in Registers, NEW rs2 \in Registers,
         Cmp(attr, rs1, rs2)
  PROVE  AluInv'
<1>1. cc' \in BOOLEAN
  <2>. DEFINE x == reg[rs1]
              y == reg[rs2]
              e == x = y
              g == Signed(x) > Signed(y)
              h == x > y
  <2>1. cc' = CASE attr = "EQ" -> e [] attr = "GT" -> g [] attr = "GTU" -> h
    BY DEF Cmp
  <2>2. e \in BOOLEAN /\ g \in BOOLEAN /\ h \in BOOLEAN
    OBVIOUS
  <2>. HIDE DEF e, g, h
  <2>3. CASE attr = "EQ"
    BY <2>1, <2>2, <2>3
  <2>4. CASE attr = "GT"
    BY <2>1, <2>2, <2>4
  <2>5. CASE attr = "GTU"
    BY <2>1, <2>2, <2>5
  <2>. QED  BY <2>3, <2>4, <2>5
<1>2. 0 \in Word /\ 0 \in Registers /\ 0 \in Nat
  BY Sizes, WidthAssumption DEF Word
<1>3. /\ Advance /\ reg' = reg
      /\ last'.op = "none" /\ last'.rd = 0 /\ last'.a = 0 /\ last'.b = 0
  BY DEF Cmp, None, Seen
<1>4. TypeOK'
  BY <1>1, <1>2, <1>3, NextPcType DEF AluInv, TypeOK, Advance, Goto
<1>5. last'.op \notin Names
  BY <1>3 DEF Names, Divisions
<1>. QED  BY <1>4, <1>5, Quiet DEF AluInv

(* Jumps to a displacement.                                                *)
LEMMA TargetType ==
  ASSUME NEW a \in Word, NEW rel \in Rel
  PROVE  ToWord(a + rel26_sig_ext(rel)) \in Word /\ rel \in Nat
<1>1. rel26_sig_ext(rel) \in Word /\ rel \in Nat
  BY RelExtended, WordOf, Displacements
<1>2. a + rel26_sig_ext(rel) \in Int
  BY <1>1, Sizes DEF Word
<1>. QED  BY <1>1, <1>2, WordOf

LEMMA BranchStep ==
  ASSUME AluInv, NEW op, NEW rel \in Rel, Branch(op, rel)
  PROVE  AluInv'
<1>1. 0 \in Word /\ 0 \in Registers /\ 0 \in Nat /\ pc \in Word
  BY Sizes, WidthAssumption DEF Word, AluInv, TypeOK
<1>2. /\ pc' \in Word /\ host' = host /\ reg' = reg /\ cc' = cc
      /\ last'.op = "none" /\ last'.rd = 0 /\ last'.a = 0 /\ last'.b = 0
  BY <1>1, TargetType, NextPcType DEF Branch, Goto, None, Seen
<1>3. TypeOK'
  BY <1>1, <1>2 DEF AluInv, TypeOK
<1>4. last'.op \notin Names
  BY <1>2 DEF Names, Divisions
<1>. QED  BY <1>3, <1>4, Quiet DEF AluInv

LEMMA JmpIStep ==
  ASSUME AluInv, NEW rel \in Rel, JmpI(rel)
  PROVE  AluInv'
<1>1. 0 \in Registers /\ pc \in Word /\ rel \in Nat
  BY WidthAssumption, TargetType DEF AluInv, TypeOK
<1>2. /\ pc' = ToWord(pc + rel26_sig_ext(rel)) /\ pc' \in Word
      /\ host' = host /\ reg' = reg /\ cc' = cc
  BY <1>1, TargetType DEF JmpI, Goto
<1>3. CASE last.op = "there" /\ last.b + rel = Power[REL_BITS] /\ last.b # rel
  <2>1. last'.op = "back" /\ last'.rd = 0 /\ last'.a = last.a /\ last'.b = rel
    BY <1>3 DEF JmpI, Seen
  <2>2. last.b \in Rel /\ pc = ToWord(last.a + rel26_sig_ext(last.b)) /\ last.a \in Word
    BY <1>3 DEF AluInv, Idioms, There, TypeOK
  <2>3. pc' = last.a
    BY <1>2, <1>3, <2>2, Opposite
  <2>4. ThereAndBack'
    BY <2>1, <2>3 DEF ThereAndBack
  <2>5. TypeOK'
    BY <1>1, <1>2, <2>1, <2>2 DEF AluInv, TypeOK
  <2>6. last'.op \notin {"DIV", "DIVU"} /\ last'.op \notin {"MOD", "MODU"} /\ last'.op # "DIVU"
    BY <2>1
  <2>7. Idioms'
    BY <2>1 DEF Idioms, Upper, Part, There, Linked
  <2>8. Kept'
    BY <2>1, <2>4, <2>6 DEF Kept, ConstantBuilt, SignRecovered, Division, CallReturns
  <2>. QED  BY <2>5, <2>7, <2>8 DEF AluInv
<1>4. CASE ~(last.op = "there" /\ last.b + rel = Power[REL_BITS] /\ last.b # rel)
  <2>1. last'.op = "there" /\ last'.rd = 0 /\ last'.a = pc /\ last'.b = rel
    BY <1>4 DEF JmpI, Seen
  <2>2. There'
    BY <1>2, <2>1 DEF There
  <2>3. TypeOK'
    BY <1>1, <1>2, <2>1 DEF AluInv, TypeOK
  <2>4. last'.op \notin {"DIV", "DIVU"} /\ last'.op \notin {"MOD", "MODU"} /\ last'.op # "DIVU"
    BY <2>1
  <2>5. Idioms'
    BY <2>1, <2>2 DEF Idioms, Upper, Part, Linked
  <2>6. Kept'
    BY <2>1, <2>4 DEF Kept, ConstantBuilt, SignRecovered, Division, ThereAndBack, CallReturns
  <2>. QED  BY <2>3, <2>5, <2>6 DEF AluInv
<1>. QED  BY <1>3, <1>4

(* A call, by either instruction.                                          *)
LEMMA CallStep ==
  ASSUME AluInv, NEW r \in Registers \ {0}, reg' = SetReg(r, NextPc(pc)), pc' \in Word,
         host' = host, cc' = cc, NEW b \in Nat, last' = Seen("call", r, pc, b),
         b = 1 => pc' = reg'[r]
  PROVE  AluInv'
<1>1. pc \in Word /\ NextPc(pc) \in Word
  BY NextPcType DEF AluInv, TypeOK
<1>2. last'.op = "call" /\ last'.rd = r /\ last'.a = pc /\ last'.b = b
  BY DEF Seen
<1>3. reg' \in [Registers -> Word] /\ reg'[0] = 0 /\ reg'[r] = NextPc(pc)
  BY <1>1, SetRegType DEF AluInv
<1>4. TypeOK'
  BY <1>1, <1>2, <1>3 DEF AluInv, TypeOK
<1>5. NextPc(last'.a) = NextPc(pc)
  BY <1>2
<1>6. Linked'
  <2>1. Written' /\ reg'[last'.rd] = NextPc(last'.a)
    BY <1>2, <1>3 DEF Written
  <2>. QED  BY <2>1 DEF Linked, NextPc
<1>7. CallReturns'
  <2>1. last'.b = 1 => pc' = NextPc(last'.a) /\ reg'[last'.rd] = pc'
    BY <1>2, <1>3
  <2>. QED  BY <1>2, <2>1 DEF CallReturns, NextPc
<1>8. last'.op \notin {"DIV", "DIVU"} /\ last'.op \notin {"MOD", "MODU"} /\ last'.op # "DIVU"
  BY <1>2
<1>9. Idioms'
  BY <1>2, <1>6 DEF Idioms, Upper, Part, There
<1>10. Kept'
  BY <1>2, <1>7, <1>8 DEF Kept, ConstantBuilt, SignRecovered, Division, ThereAndBack
<1>. QED  BY <1>4, <1>9, <1>10 DEF AluInv

LEMMA JmpILnkStep ==
  ASSUME AluInv, NEW rel \in Rel, JmpILnk(rel)
  PROVE  AluInv'
<1>1. RLNK \in Registers \ {0} /\ 0 \in Nat /\ 0 # 1 /\ pc \in Word
  BY WidthAssumption DEF AluInv, TypeOK
<1>2. pc' \in Word
  BY <1>1, TargetType DEF JmpILnk, Goto
<1>. QED  BY <1>1, <1>2, CallStep DEF JmpILnk, Goto

LEMMA JmpStep ==
  ASSUME AluInv, NEW rd \in Registers, NEW rs1 \in Registers, Jmp(rd, rs1)
  PROVE  AluInv'
<1>1. /\ reg' = SetReg(rd, NextPc(pc)) /\ pc' = reg'[rs1] /\ host' = host /\ cc' = cc
      /\ last' = CASE rd # 0 -> Seen("call", rd, pc, IF rd = rs1 THEN 1 ELSE 0)
                   [] rd = 0 /\ last.op = "call" /\ rs1 = last.rd -> Seen("returned", 0, last.a, 0)
                   [] OTHER -> None
  BY DEF Jmp, Goto
<1>2. reg' \in [Registers -> Word] /\ (rd = 0 => reg' = reg) /\ pc \in Word /\ TypeOK
  BY <1>1, SetRegType, NextPcType DEF AluInv, TypeOK
<1>3. pc' \in Word
  BY <1>1, <1>2
<1>4. CASE rd # 0
  <2>. DEFINE b == IF rd = rs1 THEN 1 ELSE 0
  <2>1. last' = Seen("call", rd, pc, b) /\ b \in Nat /\ (b = 1 => pc' = reg'[rd])
    BY <1>1, <1>4
  <2>. HIDE DEF b
  <2>. QED  BY <1>1, <1>3, <1>4, <2>1, CallStep
<1>5. CASE rd = 0 /\ last.op = "call" /\ rs1 = last.rd
  <2>1. last'.op = "returned" /\ last'.rd = 0 /\ last'.a = last.a /\ last'.b = 0
    BY <1>1, <1>5 DEF Seen
  <2>2. reg[last.rd] = NextPc(last.a)
    BY <1>5 DEF AluInv, Idioms, Linked
  <2>3. pc' = NextPc(last'.a)
    BY <1>1, <1>2, <1>5, <2>1, <2>2
  <2>4. CallReturns'
    BY <2>1, <2>3 DEF CallReturns, NextPc
  <2>5. TypeOK'
    BY <1>1, <1>2, <1>3, <1>5, <2>1 DEF TypeOK
  <2>6. last'.op \notin {"DIV", "DIVU"} /\ last'.op \notin {"MOD", "MODU"} /\ last'.op # "DIVU"
    BY <2>1
  <2>7. Idioms'
    BY <2>1 DEF Idioms, Upper, Part, There, Linked
  <2>8. Kept'
    BY <2>1, <2>4, <2>6 DEF Kept, ConstantBuilt, SignRecovered, Division, ThereAndBack
  <2>. QED  BY <2>5, <2>7, <2>8 DEF AluInv
<1>6. CASE rd = 0 /\ ~(last.op = "call" /\ rs1 = last.rd)
  <2>1. last' = None
    BY <1>1, <1>6
  <2>2. last'.op = "none" /\ last'.rd = 0 /\ last'.a = 0 /\ last'.b = 0
    BY <2>1 DEF None, Seen
  <2>3. 0 \in Word /\ 0 \in Registers /\ 0 \in Nat
    BY Sizes, WidthAssumption DEF Word
  <2>4. TypeOK'
    BY <1>1, <1>2, <1>3, <1>6, <2>2, <2>3 DEF TypeOK
  <2>5. last'.op \notin Names
    BY <2>2 DEF Names, Divisions
  <2>. QED  BY <2>4, <2>5, Quiet DEF AluInv
<1>. QED  BY <1>4, <1>5, <1>6

LEMMA AluStep == AluInv /\ [Next]_vars => AluInv'
<1>. SUFFICES ASSUME AluInv, [Next]_vars
              PROVE  AluInv'
  OBVIOUS
<1>1. ASSUME UNCHANGED vars
      PROVE  AluInv'
  BY <1>1, AluStays DEF vars, AluInv, TypeOK
<1>2. ASSUME NEW op \in Binary, NEW rs1 \in Registers, NEW rs2 \in Registers, HostTrap(op, rs1, rs2)
      PROVE  AluInv'
  BY <1>2, AluStays DEF HostTrap
<1>3. ASSUME InvalidRegister
      PROVE  AluInv'
  BY <1>3, AluStays DEF InvalidRegister
<1>4. CASE \E op \in Binary, rd, rs1, rs2 \in Registers :
             Uses(op) /\ (BinaryOp(op, rd, rs1, rs2) \/ HostTrap(op, rs1, rs2))
  BY <1>2, <1>4, BinaryStep
<1>5. CASE \E op \in Immediate, rd, rs1 \in Registers, u \in UImm : Uses(op) /\ ImmediateOp(op, rd, rs1, u)
  BY <1>5, ImmediateStep
<1>6. CASE \E rd \in Registers, high \in 0 .. (Power[WORD_BITS - IMM_BITS] - 1) :
             Uses("MHI") /\ Mhi(rd, high)
  BY <1>6, MhiStep
<1>7. CASE \E attr \in {"EQ", "GT", "GTU"}, rs1, rs2 \in Registers : Uses("CMP") /\ Cmp(attr, rs1, rs2)
  BY <1>7, CmpStep
<1>8. CASE \E rd \in Registers, bits \in Widths : Uses("LOAD") /\ LoadPart(rd, bits)
  BY <1>8, LoadStep
<1>9. CASE \E op \in {"BT", "BF"}, rel \in Rel : Uses(op) /\ Branch(op, rel)
  BY <1>9, BranchStep
<1>10. CASE \E rel \in Rel : (Uses("JMP_I") /\ JmpI(rel)) \/ (Uses("JMP_I_LNK") /\ JmpILnk(rel))
  BY <1>10, JmpIStep, JmpILnkStep
<1>11. CASE \E rd, rs1 \in Registers : Uses("JMP") /\ Jmp(rd, rs1)
  BY <1>11, JmpStep
<1>. QED  BY <1>1, <1>3, <1>4, <1>5, <1>6, <1>7, <1>8, <1>9, <1>10, <1>11 DEF Next

LEMMA AluInvariant == Spec => []AluInv
BY AluStart, AluStep, PTL DEF Spec

(***************************************************************************)
(* The registers hold words and register 0 zero, for every width of words, *)
(* immediates and displacements (exec.c:42).                               *)
(***************************************************************************)
THEOREM RegistersHoldWords == Spec => []TypeOK
<1>1. AluInv => TypeOK
  BY DEF AluInv
<1>. QED  BY <1>1, AluInvariant, PTL

(***************************************************************************)
(* MHI and OR_I load every constant, at every split of a word into the two *)
(* immediates: the bits of the one and of the other stand side by side.    *)
(***************************************************************************)
THEOREM ConstantsBuilt == Spec => []ConstantBuilt
<1>1. AluInv => ConstantBuilt
  BY DEF AluInv, Kept
<1>. QED  BY <1>1, AluInvariant, PTL

(***************************************************************************)
(* LSL_I and ASR_I by the right count give a loaded byte or half word its  *)
(* sign, which LDB and LDH do not (exec.c:301).                            *)
(***************************************************************************)
THEOREM SignsRecovered == Spec => []SignRecovered
<1>1. AluInv => SignRecovered
  BY DEF AluInv, Kept
<1>. QED  BY <1>1, AluInvariant, PTL

(***************************************************************************)
(* Every division that the host survives leaves the truncated quotient or  *)
(* the remainder with the sign of the dividend, and fits in a word         *)
(* (exec.c:291).                                                           *)
(***************************************************************************)
THEOREM DivisionsTruncate == Spec => []Division
<1>1. AluInv => Division
  BY DEF AluInv, Kept
<1>. QED  BY <1>1, AluInvariant, PTL

(***************************************************************************)
(* A JMP_I and one of the opposite displacement end where they began,      *)
(* wherever in the address space and however wide the field                *)
(* (rel26_sig_ext()).                                                      *)
(***************************************************************************)
THEOREM JumpsOpposite == Spec => []ThereAndBack
<1>1. AluInv => ThereAndBack
  BY DEF AluInv, Kept
<1>. QED  BY <1>1, AluInvariant, PTL

(***************************************************************************)
(* A JMP through the link returns behind the call, whichever register was  *)
(* named, the target's own included (exec.c:146).                          *)
(***************************************************************************)
THEOREM CallsReturn == Spec => []CallReturns
<1>1. AluInv => CallReturns
  BY DEF AluInv, Kept
<1>. QED  BY <1>1, AluInvariant, PTL
=============================================================================
