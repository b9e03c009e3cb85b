----------------------------- MODULE SerialProofs -----------------------------
(***************************************************************************)
(* What the proofs of this project need to know of division with remainder *)
(* and of serial-number arithmetic, for every word size.                   *)
(***************************************************************************)
EXTENDS Serial, TLAPS

\* Division with remainder, as the machine's masks and wraps use it.
LEMMA ModRange ==
  ASSUME NEW a \in Int, NEW m \in Nat \ {0}
  PROVE  a % m \in 0 .. m - 1
  OBVIOUS

\* A number is its quotient times the divisor plus its remainder.
LEMMA ModQuotient ==
  ASSUME NEW a \in Int, NEW m \in Nat \ {0}
  PROVE  \E q \in Int : a = m * q + (a % m)
<1>1. a = m * (a \div m) + (a % m) /\ a \div m \in Int
  OBVIOUS
<1> QED
  BY <1>1

\* Within one word of zero the remainder is found by one addition.
LEMMA ModNear ==
  ASSUME NEW m \in Nat \ {0}, NEW a \in Int
  PROVE  /\ a \in 0 .. m - 1 => a % m = a
         /\ a \in m .. 2 * m - 1 => a % m = a - m
         /\ a \in -m .. -1 => a % m = a + m
<1>1. a \in 0 .. m - 1 => a % m = a
  OBVIOUS
<1>2. a \in m .. 2 * m - 1 => a % m = a - m
  OBVIOUS
<1>3. a \in -m .. -1 => a % m = a + m
  OBVIOUS
<1> QED
  BY <1>1, <1>2, <1>3

\* A multiple of m that is smaller than m is zero.
LEMMA SmallMultiple ==
  ASSUME NEW m \in Nat \ {0}, NEW k \in Int, -m < m * k, m * k < m
  PROVE  k = 0
  OBVIOUS

\* Two numbers less than m apart with the same remainder are equal.
LEMMA ModUnique ==
  ASSUME NEW m \in Nat \ {0}, NEW a \in Int, NEW b \in Int,
         a % m = b % m, a - b < m, b - a < m
  PROVE  a = b
<1>1. PICK x \in Int : a = m * x + (a % m)
  BY ModQuotient
<1>2. PICK y \in Int : b = m * y + (b % m)
  BY ModQuotient
<1>3. a % m \in Int /\ b % m \in Int
  BY ModRange
<1>4. x - y \in Int /\ a - b = m * (x - y)
  BY <1>1, <1>2, <1>3
<1>5. x - y = 0
  BY <1>4, SmallMultiple
<1> QED
  BY <1>4, <1>5

\* The remainder is the only number in range that a multiple separates.
LEMMA ModIs ==
  ASSUME NEW m \in Nat \ {0}, NEW a \in Int, NEW q \in Int,
         NEW r \in 0 .. m - 1, a = m * q + r
  PROVE  a % m = r
<1>1. PICK x \in Int : a = m * x + (a % m)
  BY ModQuotient
<1>2. a % m \in 0 .. m - 1
  BY ModRange
<1>3. x - q \in Int /\ m * (x - q) = r - (a % m)
  BY <1>1, <1>2
<1>4. x - q = 0
  BY <1>2, <1>3, SmallMultiple
<1> QED
  BY <1>2, <1>3, <1>4

\* Adding a multiple of the divisor does not change the remainder.
LEMMA ModShift ==
  ASSUME NEW m \in Nat \ {0}, NEW a \in Int, NEW n \in Int, n % m = 0
  PROVE  (a + n) % m = a % m
<1>1. PICK x \in Int : a = m * x + (a % m)
  BY ModQuotient
<1>2. PICK y \in Int : n = m * y + (n % m)
  BY ModQuotient
<1>3. a % m \in 0 .. m - 1
  BY ModRange
<1> DEFINE t == a + n
           u == x + y
           r == a % m
<1>4. n = m * y
  BY <1>2
<1>5. m * u = m * x + m * y
  OBVIOUS
<1>6. m * x \in Int /\ m * y \in Int /\ m * u \in Int
  OBVIOUS
<1>7. a = m * x + r /\ r \in 0 .. m - 1 /\ t = a + n /\ t \in Int /\ u \in Int
  BY <1>1, <1>3
<1> HIDE DEF t, u, r
<1>8. t = m * u + r
  BY <1>4, <1>5, <1>6, <1>7
<1>9. t % m = r
  BY <1>7, <1>8, ModIs
<1> QED
  BY <1>9 DEF t, r

-------------------------------------------------------------------------------

\* The word holds at least two values.
LEMMA ModulusFacts ==
  /\ Half \in Nat \ {0, 1}
  /\ Modulus \in Nat \ {0}
  /\ Modulus = 2 * Half
  /\ Serials = 0 .. Modulus - 1
  BY HalfAssumption DEF Modulus, Serials

\* Whatever is computed, the word holds a serial number.
LEMMA WrapType ==
  ASSUME NEW n \in Int
  PROVE  Wrap(n) \in Serials
  BY ModulusFacts, ModRange DEF Wrap

\* Within one lap the wrap is at most one addition.
LEMMA WrapNear ==
  ASSUME NEW n \in Int
  PROVE  /\ n \in 0 .. Modulus - 1 => Wrap(n) = n
         /\ n \in Modulus .. 2 * Modulus - 1 => Wrap(n) = n - Modulus
         /\ n \in -Modulus .. -1 => Wrap(n) = n + Modulus
  BY ModulusFacts, ModNear DEF Wrap

\* Wrapping an operand first makes no difference.
LEMMA WrapAdd ==
  ASSUME NEW a \in Int, NEW b \in Int
  PROVE  Wrap(Wrap(a) + b) = Wrap(a + b)
<1>1. PICK q \in Int : a = Modulus * q + (a % Modulus)
  BY ModulusFacts, ModQuotient
<1>2. Wrap(a) \in Int /\ Wrap(a) = a % Modulus
  BY WrapType, ModulusFacts DEF Wrap
<1> DEFINE n == Modulus * q
           t == Wrap(a) + b
<1>3. n \in Int /\ t \in Int /\ t + n = a + b
  BY <1>1, <1>2, ModulusFacts
<1>4. n % Modulus = 0
  <2>1. n = Modulus * q + 0 /\ 0 \in 0 .. Modulus - 1
    BY ModulusFacts
  <2> HIDE DEF n
  <2> QED
    BY <2>1, <1>3, ModulusFacts, ModIs
<1> HIDE DEF n, t
<1>5. (t + n) % Modulus = t % Modulus
  BY <1>3, <1>4, ModulusFacts, ModShift
<1> QED
  BY <1>3, <1>5 DEF Wrap, t

\* Wrapping does not change the slot, where the capacity divides the word.
LEMMA WrapMod ==
  ASSUME NEW c \in Nat \ {0}, Modulus % c = 0, NEW n \in Int
  PROVE  Wrap(n) % c = n % c
<1>1. Modulus \in Int /\ Modulus \in Nat \ {0}
  BY ModulusFacts
<1>2. PICK x \in Int : n = Modulus * x + (n % Modulus)
  BY <1>1, ModQuotient
<1>3. PICK y \in Int : Modulus = c * y + (Modulus % c)
  BY <1>1, ModQuotient, Zenon
<1> DEFINE w == Wrap(n)
           m == Modulus * x
           z == y * x
<1>4. w \in Int /\ m \in Int /\ z \in Int /\ n = w + m
  BY <1>1, <1>2, WrapType, ModulusFacts DEF Wrap
<1>5. m = c * z
  <2>1. Modulus = c * y
    BY <1>1, <1>3
  <2> QED
    BY <2>1
<1> HIDE DEF w, m, z
<1>6. m % c = 0
  <2>1. m = c * z + 0 /\ 0 \in 0 .. c - 1
    BY <1>4, <1>5
  <2> QED
    BY <2>1, <1>4, ModIs
<1>7. (w + m) % c = w % c
  BY <1>4, <1>6, ModShift
<1> QED
  BY <1>4, <1>7 DEF w

\* How far one serial number is ahead of another, unsigned: going forward k
\* from either end.
LEMMA AheadOf ==
  ASSUME NEW a \in Serials, NEW p \in Serials
  PROVE  /\ Wrap(a - p) \in Serials
         /\ Wrap(a - p) \in {a - p, a - p + Modulus}
<1>1. a - p \in Int /\ a - p \in -Modulus .. Modulus - 1
  BY ModulusFacts
<1> QED
  BY <1>1, ModulusFacts, WrapNear, WrapType

\* That number is the only one in the word.
LEMMA AheadUnique ==
  ASSUME NEW a \in Serials, NEW p \in Serials, NEW d \in Serials,
         d \in {a - p, a - p + Modulus, a - p - Modulus}
  PROVE  Wrap(a - p) = d
<1> DEFINE e == Wrap(a - p)
<1>1. e \in Serials /\ e \in {a - p, a - p + Modulus}
  BY AheadOf
<1> HIDE DEF e
<1>2. e = d
  BY <1>1, ModulusFacts
<1> QED
  BY <1>2 DEF e

\* Moving the far end n forward.
LEMMA AheadStep ==
  ASSUME NEW a \in Serials, NEW p \in Serials, NEW n \in Nat,
         Wrap(a - p) + n < Modulus
  PROVE  /\ Wrap(a + n) \in Serials
         /\ Wrap(Wrap(a + n) - p) = Wrap(a - p) + n
<1> DEFINE d == Wrap(a - p)
           b == Wrap(a + n)
<1>1. d \in Serials /\ d \in {a - p, a - p + Modulus} /\ d + n < Modulus
  BY AheadOf
<1>2. a + n \in Int /\ n < Modulus /\ a + n < 2 * Modulus
  BY <1>1, ModulusFacts
<1>3. b \in Serials /\ b \in {a + n, a + n - Modulus}
  BY <1>2, WrapType, WrapNear, ModulusFacts
<1> HIDE DEF d, b
<1>4. d + n \in Serials /\ d + n \in {b - p, b - p + Modulus, b - p - Modulus}
  BY <1>1, <1>3, ModulusFacts
<1>5. Wrap(b - p) = d + n
  BY <1>3, <1>4, AheadUnique
<1> QED
  BY <1>3, <1>5 DEF b, d

\* Moving the near end n forward, without passing the far end.
LEMMA AheadShift ==
  ASSUME NEW a \in Serials, NEW p \in Serials, NEW n \in Nat,
         n <= Wrap(a - p)
  PROVE  /\ Wrap(p + n) \in Serials
         /\ Wrap(a - Wrap(p + n)) = Wrap(a - p) - n
<1> DEFINE d == Wrap(a - p)
           b == Wrap(p + n)
<1>1. d \in Serials /\ d \in {a - p, a - p + Modulus} /\ n <= d
  BY AheadOf
<1>2. p + n \in Int /\ n < Modulus /\ p + n < 2 * Modulus
  BY <1>1, ModulusFacts
<1>3. b \in Serials /\ b \in {p + n, p + n - Modulus}
  BY <1>2, WrapType, WrapNear, ModulusFacts
<1> HIDE DEF d, b
<1>4. d - n \in Serials /\ d - n \in {a - b, a - b + Modulus, a - b - Modulus}
  BY <1>1, <1>3, ModulusFacts
<1>5. Wrap(a - b) = d - n
  BY <1>3, <1>4, AheadUnique
<1> QED
  BY <1>3, <1>5 DEF b, d

\* Of two numbers ahead of a third, the distance between them.
LEMMA AheadBetween ==
  ASSUME NEW a \in Serials, NEW b \in Serials, NEW p \in Serials,
         Wrap(a - p) <= Wrap(b - p)
  PROVE  Wrap(b - a) = Wrap(b - p) - Wrap(a - p)
<1> DEFINE d == Wrap(a - p)
           e == Wrap(b - p)
<1>1. d \in Serials /\ d \in {a - p, a - p + Modulus} /\ d <= e
  BY AheadOf
<1>2. e \in Serials /\ e \in {b - p, b - p + Modulus}
  BY AheadOf
<1> HIDE DEF d, e
<1>3. e - d \in Serials /\ e - d \in {b - a, b - a + Modulus, b - a - Modulus}
  BY <1>1, <1>2, ModulusFacts
<1>4. Wrap(b - a) = e - d
  BY <1>3, AheadUnique
<1> QED
  BY <1>4 DEF d, e

\* distance() is the one signed number of less than half a word that separates
\* its arguments.
LEMMA DistanceType ==
  ASSUME NEW a \in Serials, NEW b \in Serials
  PROVE  /\ Distance(a, b) \in -Half .. Half - 1
         /\ Distance(a, b) \in {b - a, b - a + Modulus, b - a - Modulus}
<1>1. b - a \in -Modulus .. Modulus - 1 /\ b - a \in Int
  BY ModulusFacts
<1>2. Wrap(b - a) \in 0 .. Modulus - 1 /\ Wrap(b - a) \in {b - a, b - a + Modulus}
  BY <1>1, ModulusFacts, WrapNear
<1> QED
  BY <1>2, ModulusFacts DEF Distance

\* Any such number is the distance.
LEMMA DistanceUnique ==
  ASSUME NEW a \in Serials, NEW b \in Serials, NEW d \in -Half .. Half - 1,
         d \in {b - a, b - a + Modulus, b - a - Modulus}
  PROVE  Distance(a, b) = d
<1> DEFINE e == Distance(a, b)
<1>1. /\ e \in -Half .. Half - 1
      /\ e \in {b - a, b - a + Modulus, b - a - Modulus}
  BY DistanceType
<1> HIDE DEF e
<1>2. e = d
  BY <1>1, ModulusFacts
<1> QED
  BY <1>2 DEF e

\* Going k forward, for less than half a word, is a distance of k.
LEMMA DistanceForward ==
  ASSUME NEW a \in Serials, NEW k \in 0 .. Half - 1
  PROVE  /\ Wrap(a + k) \in Serials
         /\ Distance(a, Wrap(a + k)) = k
<1>1. a + k \in Int /\ k \in Int
  BY ModulusFacts
<1>2. Wrap(a + k) \in Serials
  BY <1>1, WrapType
<1>3. Wrap(a + k) \in {a + k, a + k - Modulus}
  BY <1>1, ModulusFacts, WrapNear
<1> QED
  BY <1>2, <1>3, ModulusFacts, DistanceUnique

\* And the only serial number at distance k is k forward.
LEMMA DistanceInverse ==
  ASSUME NEW a \in Serials, NEW b \in Serials
  PROVE  b = Wrap(a + Distance(a, b))
<1>1. Distance(a, b) \in Int /\ Distance(a, b) \in {b - a, b - a + Modulus, b - a - Modulus}
  BY DistanceType, ModulusFacts
<1>2. a + Distance(a, b) \in {b, b + Modulus, b - Modulus}
  BY <1>1, ModulusFacts
<1> QED
  BY <1>2, ModulusFacts, WrapNear

\* Two numbers of one window no longer than m that have the same remainder by m
\* are equal, if m divides the modulus.
LEMMA SameRemainder ==
  ASSUME NEW m \in Nat \ {0}, Modulus % m = 0,
         NEW c \in Serials, NEW s \in Serials, NEW t \in Serials,
         Distance(c, s) \in 0 .. m - 1, Distance(c, t) \in 0 .. m - 1,
         s % m = t % m
  PROVE  s = t
<1> DEFINE i == Distance(c, s)
           j == Distance(c, t)
<1>1. c \in Int /\ i \in Int /\ j \in Int /\ c + i \in Int /\ c + j \in Int
  BY ModulusFacts
<1>2. s = Wrap(c + i) /\ t = Wrap(c + j)
  BY DistanceInverse
<1>3. (c + i) % m = (c + j) % m
  <2>1. Wrap(c + i) % m = (c + i) % m /\ Wrap(c + j) % m = (c + j) % m
    BY <1>1, WrapMod
  <2> QED BY <1>2, <2>1
<1>4. i \in 0 .. m - 1 /\ j \in 0 .. m - 1
  OBVIOUS
<1> HIDE DEF i, j
<1> DEFINE a == c + i
           b == c + j
<1>5. a \in Int /\ b \in Int /\ a - b < m /\ b - a < m
  BY <1>1, <1>4
<1>6. a % m = b % m
  BY <1>3
<1> HIDE DEF a, b
<1>7. a = b
  BY <1>5, <1>6, ModUnique
<1> QED BY <1>2, <1>7 DEF a, b

\* The signed distance of two serial numbers is that of the positions they
\* stand for, when a receiver can place one from the other.
LEMMA DistanceOfPositions ==
  ASSUME NEW a \in Int, NEW b \in Int, b - a \in -Half .. Half - 1
  PROVE  /\ Wrap(a) \in Serials
         /\ Wrap(b) \in Serials
         /\ Distance(Wrap(a), Wrap(b)) = b - a
<1>1. Wrap(a) \in Serials /\ Wrap(b) \in Serials
  BY WrapType
<1> DEFINE n == b - a
           m == n + Modulus
<1>2. n \in Int /\ Wrap(a) \in Int /\ Wrap(b) \in Int
  BY <1>1, ModulusFacts
<1>3. Wrap(b) = Wrap(Wrap(a) + n)
  <2>1. Wrap(Wrap(a) + n) = Wrap(a + n) /\ a + n = b
    BY <1>2, WrapAdd
  <2> QED
    BY <2>1
<1> HIDE DEF n
<1>4. Wrap(a) + n \in -Modulus .. 2 * Modulus - 1
  BY <1>1, <1>2, ModulusFacts DEF n
<1>5. Wrap(b) \in {Wrap(a) + n, Wrap(a) + n - Modulus, Wrap(a) + n + Modulus}
  BY <1>2, <1>3, <1>4, WrapNear, ModulusFacts
<1>6. n \in {Wrap(b) - Wrap(a), Wrap(b) - Wrap(a) + Modulus, Wrap(b) - Wrap(a) - Modulus}
  BY <1>2, <1>5, ModulusFacts
<1> QED
  BY <1>1, <1>6, DistanceUnique DEF n
===============================================================================
