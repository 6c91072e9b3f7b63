------------------------- MODULE SymbolCoder_proofs -------------------------
(***************************************************************************)
(* The range coder gives back what it was given: theorems about            *)
(* SymbolCoder for every width of the registers, every set of legal        *)
(* contexts and every number of items.                                     *)
(***************************************************************************)
EXTENDS SymbolCoder, FiniteSetTheorems, FunctionTheorems, WellFoundedInduction, TLAPS

-----------------------------------------------------------------------------
(* Induction, and the arithmetic of powers of two                          *)

(* Every nonempty set of naturals has a least member. *)
LEMMA LeastMember ==
  ASSUME NEW S, S \subseteq Nat, S # {}
  PROVE  \E n \in S : \A k \in S : n <= k
<1> DEFINE R == OpToRel(<, Nat)
<1>1. IsWellFoundedOn(R, Nat)
  BY NatLessThanWellFounded
<1>2. \A x, y \in Nat : <<x, y>> \in R <=> x < y
  BY DEF OpToRel
<1> HIDE DEF R
<1>3. \E x \in S : \A y \in S : ~ (<<y, x>> \in R)
  BY <1>1, WFMin
<1>4. PICK n \in S : \A y \in S : ~ (<<y, n>> \in R)
  BY <1>3
<1>5. ASSUME NEW k \in S PROVE n <= k
  <2>1. n \in Nat /\ k \in Nat /\ ~ (<<k, n>> \in R)
    BY <1>4
  <2>2. ~ (k < n)
    BY <1>2, <2>1
  <2> QED BY <2>1, <2>2
<1> QED BY <1>5

(* Induction with a set for the predicate. *)
LEMMA SetInduction ==
  ASSUME NEW S, 0 \in S, \A n \in Nat : n \in S => n + 1 \in S
  PROVE  Nat \subseteq S
<1> SUFFICES ASSUME NEW m \in Nat, m \notin S PROVE FALSE
  OBVIOUS
<1> DEFINE Out == {k \in Nat : k \notin S}
<1>1. m \in Out /\ Out \subseteq Nat
  OBVIOUS
<1>2. PICK n \in Out : \A k \in Out : n <= k
  BY <1>1, LeastMember
<1>3. n # 0 /\ n \in Nat
  BY <1>2
<1>4. n - 1 \in Nat /\ ~ (n <= n - 1) /\ (n - 1) + 1 = n
  BY <1>3
<1>5. n - 1 \in S
  BY <1>2, <1>4
<1> QED BY <1>2, <1>4, <1>5

(* A power of two counts the subsets of an interval. *)
LEMMA PowerCounts ==
  ASSUME NEW n \in Nat
  PROVE  /\ IsFiniteSet(SUBSET (1 .. n)) /\ Cardinality(SUBSET (1 .. n)) = 2 ^ n
         /\ 2 ^ n \in Nat
<1>1. IsFiniteSet(1 .. n) /\ Cardinality(1 .. n) = n
  BY FS_Interval
<1>2. IsFiniteSet(SUBSET (1 .. n)) /\ Cardinality(SUBSET (1 .. n)) = 2 ^ Cardinality(1 .. n)
  BY <1>1, FS_SUBSET, Zenon
<1> QED BY <1>1, <1>2, FS_CardinalityType

(* One more exponent, twice the power. *)
LEMMA PowerDoubles ==
  ASSUME NEW n \in Nat
  PROVE  2 ^ (n + 1) = 2 * 2 ^ n
<1> DEFINE A == 1 .. n
           x == n + 1
           With == {B \cup {x} : B \in SUBSET A}
           f == [B \in SUBSET A |-> B \cup {x}]
<1>1. /\ IsFiniteSet(SUBSET A) /\ Cardinality(SUBSET A) = 2 ^ n /\ 2 ^ n \in Nat
      /\ Cardinality(SUBSET (1 .. n + 1)) = 2 ^ (n + 1)
  BY PowerCounts
<1>2. x \notin A /\ 1 .. n + 1 = A \cup {x}
  OBVIOUS
<1> HIDE DEF A, x
<1>3. SUBSET (A \cup {x}) = (SUBSET A) \cup With
  <2>1. ASSUME NEW B \in SUBSET (A \cup {x}) PROVE B \in (SUBSET A) \cup With
    <3>1. CASE x \in B
      <4>1. B \ {x} \in SUBSET A /\ B = (B \ {x}) \cup {x}
        BY <3>1
      <4> QED BY <4>1
    <3>2. CASE x \notin B
      BY <3>2
    <3> QED BY <3>1, <3>2
  <2>2. With \subseteq SUBSET (A \cup {x})
    OBVIOUS
  <2>3. SUBSET A \subseteq SUBSET (A \cup {x})
    OBVIOUS
  <2> HIDE DEF With
  <2> QED BY <2>1, <2>2, <2>3
<1>4. ExistsBijection(SUBSET A, With)
  <2>1. f \in [SUBSET A -> With]
    OBVIOUS
  <2>2. ASSUME NEW B \in SUBSET A, NEW C \in SUBSET A, f[B] = f[C] PROVE B = C
    BY <1>2, <2>2
  <2>3. f \in Injection(SUBSET A, With)
    BY <2>1, <2>2, Fun_IsInj, Zenon
  <2>4. f \in Surjection(SUBSET A, With)
    BY <2>1, Zenon DEF Surjection
  <2> QED BY <2>3, <2>4, Zenon DEF Bijection, ExistsBijection
<1>5. IsFiniteSet(With) /\ Cardinality(With) = 2 ^ n
  BY <1>1, <1>4, FS_Bijection
<1>6. (SUBSET A) \cap With = {}
  BY <1>2
<1>7. Cardinality((SUBSET A) \cap With) = 0
  BY <1>6, FS_EmptySet, Zenon
<1> HIDE DEF With
<1>8. Cardinality((SUBSET A) \cup With)
        = Cardinality(SUBSET A) + Cardinality(With) - Cardinality((SUBSET A) \cap With)
  BY <1>1, <1>5, FS_Union
<1>9. Cardinality((SUBSET A) \cup With) = 2 ^ (n + 1)
  BY <1>1, <1>2, <1>3
<1> QED BY <1>1, <1>5, <1>7, <1>8, <1>9

LEMMA PowerAdds ==
  ASSUME NEW m \in Nat, NEW n \in Nat
  PROVE  2 ^ (m + n) = 2 ^ m * 2 ^ n
<1> DEFINE S == {k \in Nat : 2 ^ (m + k) = 2 ^ m * 2 ^ k}
<1>1. 2 ^ m \in Nat
  BY PowerCounts
<1>2. 0 \in S
  <2>1. 2 ^ 0 = 1 /\ m + 0 = m
    OBVIOUS
  <2>2. QED
    BY <1>1, <2>1
<1>3. \A k \in Nat : k \in S => k + 1 \in S
  <2> SUFFICES ASSUME NEW k \in Nat, 2 ^ (m + k) = 2 ^ m * 2 ^ k
               PROVE  2 ^ (m + (k + 1)) = 2 ^ m * 2 ^ (k + 1)
    OBVIOUS
  <2>1. m + k \in Nat /\ m + (k + 1) = (m + k) + 1
    OBVIOUS
  <2>2. 2 ^ (m + (k + 1)) = 2 * 2 ^ (m + k) /\ 2 ^ (k + 1) = 2 * 2 ^ k
    BY <2>1, PowerDoubles
  <2>3. 2 ^ k \in Nat
    BY PowerCounts
  <2> DEFINE a == 2 ^ m
             b == 2 ^ k
  <2>4. 2 * (a * b) = a * (2 * b)
    BY <1>1, <2>3
  <2>5. QED
    BY <2>2, <2>4
<1> HIDE DEF S
<1>4. n \in S
  BY <1>2, <1>3, SetInduction
<1> QED BY <1>4 DEF S

LEMMA PowerPositive ==
  ASSUME NEW n \in Nat
  PROVE  2 ^ n \in Nat \ {0}
<1> DEFINE S == {k \in Nat : 2 ^ k \in Nat \ {0}}
<1>1. 0 \in S
  <2>1. 2 ^ 0 = 1
    OBVIOUS
  <2>2. QED
    BY <2>1
<1>2. \A k \in Nat : k \in S => k + 1 \in S
  BY PowerDoubles
<1> HIDE DEF S
<1>3. n \in S
  BY <1>1, <1>2, SetInduction
<1> QED BY <1>3 DEF S

LEMMA PowerGrows ==
  ASSUME NEW m \in Nat, NEW n \in Nat, m <= n
  PROVE  2 ^ m <= 2 ^ n
<1>1. n - m \in Nat /\ m + (n - m) = n
  OBVIOUS
<1>2. 2 ^ n = 2 ^ m * 2 ^ (n - m)
  BY <1>1, PowerAdds
<1>3. 2 ^ m \in Nat /\ 2 ^ (n - m) \in Nat \ {0}
  BY <1>1, PowerPositive
<1> DEFINE a == 2 ^ m
           b == 2 ^ (n - m)
<1>4. a <= a * b
  <2>1. b - 1 \in Nat /\ a * b = a + a * (b - 1)
    BY <1>3
  <2>2. a * (b - 1) \in Nat
    BY <2>1, <1>3
  <2> HIDE DEF a, b
  <2>3. QED
    BY <2>1, <2>2, <1>3 DEF a
<1> QED BY <1>2, <1>4

(* Division with remainder, and that it has one answer only. *)
LEMMA Remainder ==
  ASSUME NEW x \in Nat, NEW d \in Nat \ {0}
  PROVE  /\ x \div d \in Nat /\ x % d \in Nat /\ x % d < d
         /\ x = (x \div d) * d + (x % d)
<1>1. /\ x \div d \in Nat /\ x % d \in 0 .. d - 1
      /\ x = d * (x \div d) + (x % d)
  BY SMT
<1>2. (x \div d) * d = d * (x \div d)
  BY <1>1
<1> QED BY <1>1, <1>2

LEMMA OneQuotient ==
  ASSUME NEW d \in Nat \ {0}, NEW q \in Nat, NEW r \in Nat, r < d,
         NEW p \in Nat, NEW s \in Nat, s < d, q * d + r = p * d + s
  PROVE  q = p /\ r = s
<1>1. q * d \in Nat /\ p * d \in Nat
  OBVIOUS
<1>2. ASSUME q < p PROVE FALSE
  <2>1. p - q - 1 \in Nat /\ p * d = q * d + d + (p - q - 1) * d
    BY <1>2
  <2>2. (p - q - 1) * d \in Nat
    BY <2>1
  <2>3. QED
    BY <2>1, <2>2, <1>1
<1>3. ASSUME p < q PROVE FALSE
  <2>1. q - p - 1 \in Nat /\ q * d = p * d + d + (q - p - 1) * d
    BY <1>3
  <2>2. (q - p - 1) * d \in Nat
    BY <2>1
  <2>3. QED
    BY <2>1, <2>2, <1>1
<1>4. q = p
  BY <1>2, <1>3
<1> QED BY <1>4, <1>1

LEMMA Quotient ==
  ASSUME NEW d \in Nat \ {0}, NEW q \in Nat, NEW r \in Nat, r < d
  PROVE  (q * d + r) \div d = q /\ (q * d + r) % d = r
<1> DEFINE x == q * d + r
<1>1. x \in Nat
  OBVIOUS
<1> HIDE DEF x
<1>2. /\ x \div d \in Nat /\ x % d \in Nat /\ x % d < d
      /\ x = (x \div d) * d + (x % d)
  BY <1>1, Remainder
<1>3. q * d + r = (x \div d) * d + (x % d)
  BY <1>2 DEF x
<1>4. q = x \div d /\ r = x % d
  BY <1>2, <1>3, OneQuotient
<1> QED BY <1>4 DEF x

(* What halving k times keeps of a number. *)
LEMMA Halved ==
  ASSUME NEW x \in Nat, NEW k \in Nat
  PROVE  /\ Half(x, k) \in Nat /\ x % 2 ^ k \in Nat /\ x % 2 ^ k < 2 ^ k
         /\ x = Half(x, k) * 2 ^ k + (x % 2 ^ k)
<1>1. 2 ^ k \in Nat \ {0}
  BY PowerPositive
<1> QED BY <1>1, Remainder, Zenon DEF Half

LEMMA HalvedIs ==
  ASSUME NEW q \in Nat, NEW k \in Nat, NEW r \in Nat, r < 2 ^ k
  PROVE  Half(q * 2 ^ k + r, k) = q /\ (q * 2 ^ k + r) % 2 ^ k = r
<1>1. 2 ^ k \in Nat \ {0}
  BY PowerPositive
<1> QED BY <1>1, Quotient, Zenon DEF Half

LEMMA ProductOrdered ==
  ASSUME NEW a \in Nat, NEW b \in Nat, NEW d \in Nat, a <= b
  PROVE  a * d <= b * d /\ d * a <= d * b
<1>1. b - a \in Nat /\ b * d = a * d + (b - a) * d /\ (b - a) * d \in Nat /\ a * d \in Nat
  OBVIOUS
<1>2. a * d = d * a /\ b * d = d * b
  OBVIOUS
<1> QED BY <1>1, <1>2

LEMMA ProductStrict ==
  ASSUME NEW a \in Nat, NEW b \in Nat, NEW d \in Nat \ {0}
  PROVE  a < b <=> a * d < b * d
<1>1. a * d \in Nat /\ b * d \in Nat
  OBVIOUS
<1>2. ASSUME a < b PROVE a * d < b * d
  <2>1. b - a - 1 \in Nat /\ b * d = a * d + d + (b - a - 1) * d
    BY <1>2
  <2>2. (b - a - 1) * d \in Nat
    BY <2>1
  <2>3. QED
    BY <2>1, <2>2, <1>1
<1>3. ASSUME b <= a PROVE b * d <= a * d
  BY <1>3, ProductOrdered
<1> QED BY <1>1, <1>2, <1>3

(* A number reaches a multiple of 2^k exactly when what halving keeps does. *)
LEMMA HalfReaches ==
  ASSUME NEW x \in Nat, NEW k \in Nat, NEW v \in Nat
  PROVE  Half(x, k) >= v <=> x >= v * 2 ^ k
<1> DEFINE h == Half(x, k)
           d == 2 ^ k
           r == x % 2 ^ k
<1>1. h \in Nat /\ r \in Nat /\ r < d /\ x = h * d + r /\ d \in Nat \ {0}
  BY Halved, PowerPositive
<1> HIDE DEF h, d, r
<1>2. ASSUME h >= v PROVE x >= v * d
  <2>1. v * d <= h * d /\ v * d \in Nat /\ h * d \in Nat
    BY <1>1, <1>2, ProductOrdered
  <2>2. QED
    BY <2>1, <1>1
<1>3. ASSUME h < v PROVE x < v * d
  <2>1. (h + 1) * d <= v * d
    BY <1>1, <1>3, ProductOrdered
  <2>2. (h + 1) * d = h * d + d /\ h * d \in Nat /\ v * d \in Nat
    BY <1>1
  <2>3. QED
    BY <2>1, <2>2, <1>1
<1>4. h >= v <=> x >= v * d
  <2>1. v * d \in Nat
    BY <1>1
  <2>2. QED
    BY <1>1, <1>2, <1>3, <2>1
<1> QED BY <1>4 DEF h, d

(* Cutting at b bits and then at a more is cutting at a + b. *)
LEMMA CutTwice ==
  ASSUME NEW y \in Nat, NEW a \in Nat, NEW b \in Nat
  PROVE  /\ Half(Half(y, b), a) = Half(y, a + b)
         /\ y % 2 ^ (a + b) = (Half(y, b) % 2 ^ a) * 2 ^ b + (y % 2 ^ b)
<1> DEFINE h == Half(y, b)
           r == y % 2 ^ b
           g == Half(h, a)
           t == h % 2 ^ a
           A == 2 ^ a
           B == 2 ^ b
<1>1. /\ h \in Nat /\ r \in Nat /\ r < B /\ y = h * B + r
      /\ A \in Nat \ {0} /\ B \in Nat \ {0}
  BY Halved, PowerPositive
<1>2. g \in Nat /\ t \in Nat /\ t < A /\ h = g * A + t
  BY <1>1, Halved
<1>3. 2 ^ (a + b) = A * B
  BY PowerAdds
<1> HIDE DEF h, r, g, t, A, B
<1>4. y = g * (A * B) + (t * B + r)
  <2>1. h * B = (g * A + t) * B
    BY <1>2
  <2>2. (g * A + t) * B = g * (A * B) + t * B
    BY <1>1, <1>2
  <2>3. g * (A * B) \in Nat /\ t * B \in Nat
    BY <1>1, <1>2
  <2>4. QED
    BY <1>1, <2>1, <2>2, <2>3
<1>5. t * B + r \in Nat /\ t * B + r < A * B
  <2>1. (t + 1) * B <= A * B
    BY <1>1, <1>2, ProductOrdered
  <2>2. (t + 1) * B = t * B + B /\ t * B \in Nat /\ A * B \in Nat
    BY <1>1, <1>2
  <2>3. QED
    BY <2>1, <2>2, <1>1
<1>6. a + b \in Nat
  OBVIOUS
<1>7. Half(y, a + b) = g /\ y % 2 ^ (a + b) = t * B + r
  <2>1. t * B + r < 2 ^ (a + b) /\ y = g * 2 ^ (a + b) + (t * B + r)
    BY <1>3, <1>4, <1>5
  <2> HIDE DEF B
  <2>2. QED
    BY <2>1, <1>2, <1>5, <1>6, HalvedIs
<1> QED BY <1>7 DEF h, r, g, t, A, B

LEMMA HalfTwice ==
  ASSUME NEW y \in Nat, NEW a \in Nat, NEW b \in Nat
  PROVE  Half(Half(y, b), a) = Half(y, a + b)
BY CutTwice, Zenon

-----------------------------------------------------------------------------
(* The symbol contexts                                                     *)

(* What the coder relies on in a context. *)
Good(cdf) == Stored(cdf) /\ Legal(cdf) /\ MinProb * (cdf.n - 1) < 2 ^ ProbShift

(* The numbers the assumptions give. *)
LEMMA Widths ==
  /\ RBits \in Nat /\ ByteBits \in Nat \ {0} /\ Window \in Nat
  /\ RBits > ByteBits + 1 /\ Window > 2 * RBits
  /\ ProbShift \in Nat /\ ProbShift < RBits - RBits \div 2
  /\ MinProb \in Nat \ {0} /\ BaseRate \in Nat \ {0}
  /\ Top = 2 ^ (RBits - 1) /\ RBits - 1 \in Nat /\ Top \in Nat \ {0}
  /\ LotsOfBits \in Nat /\ MaxItems \in Nat
<1>1. /\ RBits \in Nat /\ ByteBits \in Nat \ {0} /\ RBits > ByteBits + 1
      /\ Top = 2 ^ (RBits - 1)
  BY CdfAssumption, CoderAssumption
<1>2. RBits - 1 \in Nat
  BY <1>1
<1>3. Top \in Nat \ {0}
  BY <1>1, <1>2, PowerPositive
<1> QED BY <1>1, <1>2, <1>3, CdfAssumption, CoderAssumption

LEMMA GoodContext ==
  ASSUME NEW cdf, Good(cdf)
  PROVE  /\ cdf.n \in Nat \ {0} /\ cdf.count \in 0 .. 32
         /\ cdf = [icdf |-> [i \in 0 .. cdf.n - 1 |-> cdf.icdf[i]],
                   n |-> cdf.n, count |-> cdf.count]
         /\ cdf.icdf[cdf.n - 1] = 0
         /\ \A i \in 0 .. cdf.n - 1 : cdf.icdf[i] \in Nat /\ cdf.icdf[i] < Top
         /\ \A i \in 1 .. cdf.n - 1 : cdf.icdf[i] <= cdf.icdf[i - 1]
         /\ MinProb * (cdf.n - 1) < 2 ^ ProbShift
<1>1. Top \in Nat
  BY Widths
<1> QED BY <1>1 DEF Good, Stored, Legal

(* An adaptation, with the power of two it divides by. *)
Up(c, k) == c + (Top - c) \div k
Down(c, k) == c - c \div k

(* A symbol before the coded one grows, the others shrink: neither leaves its
   bounds, and two frequencies never change places. *)
LEMMA QuotientBounds ==
  ASSUME NEW k \in Nat, k >= 2, NEW x \in Nat
  PROVE  x \div k \in Nat /\ x \div k <= x /\ (x > 0 => x \div k < x)
<1>1. /\ x \div k \in Nat /\ x % k \in Nat /\ x = (x \div k) * k + (x % k)
  BY Remainder
<1> DEFINE q == x \div k
<1>2. q * k = q * 2 + q * (k - 2) /\ q * (k - 2) \in Nat
  BY <1>1
<1>3. q \in Nat /\ q * k \in Nat
  BY <1>1
<1> HIDE DEF q
<1>4. q * 2 <= x
  BY <1>1, <1>2, <1>3 DEF q
<1> QED BY <1>3, <1>4 DEF q

LEMMA QuotientSteps ==
  ASSUME NEW k \in Nat, k >= 2, NEW x \in Nat, NEW y \in Nat, x <= y
  PROVE  x \div k <= y \div k /\ y \div k - x \div k <= y - x
<1> DEFINE p == x \div k
           q == y \div k
           r == x % k
           s == y % k
<1>1. /\ p \in Nat /\ r \in Nat /\ r < k /\ x = p * k + r
      /\ q \in Nat /\ s \in Nat /\ s < k /\ y = q * k + s
  BY Remainder
<1> HIDE DEF p, q, r, s
<1>2. p <= q
  <2> SUFFICES ASSUME q < p PROVE FALSE
    BY <1>1
  <2>1. (q + 1) * k <= p * k
    BY <1>1, ProductOrdered
  <2>2. (q + 1) * k = q * k + k /\ q * k \in Nat /\ p * k \in Nat
    BY <1>1
  <2>3. QED
    BY <2>1, <2>2, <1>1
<1>3. q - p <= y - x
  <2> SUFFICES ASSUME q - p >= 1, q - p > y - x PROVE FALSE
    BY <1>1, <1>2
  <2>1. q * k - p * k = (q - p) * k /\ q * k \in Nat /\ p * k \in Nat
    BY <1>1
  <2>2. (q - p) * k = (q - p) + (q - p) * (k - 1)
    BY <1>1
  <2>3. (q - p) * (k - 1) >= k - 1
    <3>1. q - p - 1 \in Nat /\ k - 1 \in Nat
      BY <1>1
    <3>2. (q - p) * (k - 1) = (k - 1) + (q - p - 1) * (k - 1)
      BY <1>1
    <3>3. (q - p - 1) * (k - 1) \in Nat
      BY <3>1
    <3>4. QED
      BY <3>1, <3>2, <3>3
  <2> DEFINE z == (q - p) * (k - 1)
             u == q * k
             v == p * k
  <2>4. z \in Int /\ u \in Nat /\ v \in Nat /\ u - v = (q - p) + z /\ z >= k - 1
        /\ x = v + r /\ y = u + s
    BY <1>1, <2>1, <2>2, <2>3
  <2> HIDE DEF z, u, v
  <2>5. QED
    BY <2>4, <1>1
<1> QED BY <1>2, <1>3 DEF p, q

LEMMA GrownKeeps ==
  ASSUME NEW k \in Nat, k >= 2, NEW c \in Nat, c < Top, NEW d \in Nat, d <= c
  PROVE  /\ Up(c, k) \in Nat /\ c <= Up(c, k) /\ Up(c, k) < Top
         /\ Up(d, k) \in Nat /\ Up(d, k) <= Up(c, k)
<1>1. Top \in Nat
  BY Widths
<1>2. Top - c \in Nat /\ Top - d \in Nat /\ Top - c <= Top - d /\ Top - c > 0
  BY <1>1
<1>3. (Top - c) \div k \in Nat /\ (Top - c) \div k < Top - c /\ (Top - d) \div k \in Nat
  BY <1>2, QuotientBounds
<1>4. (Top - d) \div k - (Top - c) \div k <= (Top - d) - (Top - c)
  BY <1>2, QuotientSteps
<1> DEFINE a == (Top - c) \div k
           b == (Top - d) \div k
<1> HIDE DEF a, b
<1>5. c + a \in Nat /\ c <= c + a /\ c + a < Top /\ d + b \in Nat /\ d + b <= c + a
  <2>1. a \in Nat /\ a < Top - c /\ b \in Nat /\ b - a <= (Top - d) - (Top - c)
    BY <1>3, <1>4 DEF a, b
  <2>2. QED
    BY <2>1, <1>1
<1> QED BY <1>5 DEF Up, a, b

LEMMA ShrunkKeeps ==
  ASSUME NEW k \in Nat, k >= 2, NEW c \in Nat, NEW d \in Nat, d <= c
  PROVE  /\ Down(c, k) \in Nat /\ Down(c, k) <= c
         /\ Down(d, k) \in Nat /\ Down(d, k) <= Down(c, k)
<1>1. c \div k \in Nat /\ c \div k <= c /\ d \div k \in Nat /\ d \div k <= d
  BY QuotientBounds
<1>2. c \div k - d \div k <= c - d
  BY QuotientSteps
<1> DEFINE a == c \div k
           b == d \div k
<1> HIDE DEF a, b
<1>3. c - a \in Nat /\ c - a <= c /\ d - b \in Nat /\ d - b <= c - a
  <2>1. a \in Nat /\ a <= c /\ b \in Nat /\ b <= d /\ a - b <= c - d
    BY <1>1, <1>2 DEF a, b
  <2>2. QED
    BY <2>1
<1> QED BY <1>3 DEF Down, a, b

(* The shift of an adaptation is at least 1, whatever the rates. *)
LEMMA RateDivides ==
  ASSUME NEW n \in Nat, NEW count \in Nat
  PROVE  2 ^ Rate(n, count) \in Nat /\ 2 ^ Rate(n, count) >= 2
<1>1. BaseRate \in Nat \ {0} /\ Half(count, 4) \in Nat
  BY Widths, Halved
<1>2. Rate(n, count) \in Nat /\ Rate(n, count) >= 1
  BY <1>1 DEF Rate
<1> DEFINE rate == Rate(n, count)
<1> HIDE DEF rate
<1>3. rate \in Nat /\ 1 <= rate
  BY <1>2 DEF rate
<1>4. 2 ^ 1 <= 2 ^ rate /\ 2 ^ rate \in Nat
  BY <1>3, PowerGrows, PowerPositive
<1>5. 2 ^ 1 = 2
  OBVIOUS
<1> QED BY <1>4, <1>5 DEF rate

(* update_cdf keeps a context in order, below Top and ending in 0, for every
   number of symbols and every rate. *)
THEOREM AdaptationKeepsLegal ==
  ASSUME NEW cdf, Good(cdf), NEW val \in 0 .. cdf.n - 1
  PROVE  Good(UpdateCdf(cdf, val)) /\ UpdateCdf(cdf, val).n = cdf.n
<1> DEFINE n == cdf.n
           c == [i \in 0 .. n - 1 |-> cdf.icdf[i]]
           k == 2 ^ Rate(cdf.n, cdf.count)
           new == [i \in 0 .. n - 1 |->
                     IF i = n - 1 THEN c[i]
                     ELSE IF i < val THEN Up(c[i], k) ELSE Down(c[i], k)]
           count == IF cdf.count < 32 THEN cdf.count + 1 ELSE cdf.count
<1>1. /\ n \in Nat \ {0} /\ cdf.count \in 0 .. 32
      /\ cdf = [icdf |-> c, n |-> n, count |-> cdf.count]
      /\ c[n - 1] = 0
      /\ \A i \in 0 .. n - 1 : c[i] \in Nat /\ c[i] < Top
      /\ \A i \in 1 .. n - 1 : c[i] <= c[i - 1]
      /\ MinProb * (n - 1) < 2 ^ ProbShift
  <2>1. \A i \in 1 .. n - 1 : i \in 0 .. n - 1 /\ i - 1 \in 0 .. n - 1
    BY GoodContext
  <2>2. n - 1 \in 0 .. n - 1
    BY GoodContext
  <2> QED BY <2>1, <2>2, GoodContext
<1>2. k \in Nat /\ k >= 2 /\ Top \in Nat
  <2>1. cdf.n \in Nat \ {0} /\ cdf.count \in 0 .. 32
    BY GoodContext
  <2>2. cdf.n \in Nat /\ cdf.count \in Nat
    BY <2>1
  <2> QED BY <2>2, RateDivides, Widths
<1>3. UpdateCdf(cdf, val) = [icdf |-> new, n |-> n, count |-> count]
  <2>1. \A i \in 0 .. n - 1 : cdf.icdf[i] = c[i]
    OBVIOUS
  <2>2. UpdateCdf(cdf, val)
          = [icdf |-> [i \in 0 .. n - 1 |->
                         IF i = n - 1 THEN cdf.icdf[i]
                         ELSE IF i < val THEN Grown(cdf.icdf[i], Rate(n, cdf.count))
                         ELSE Shrunk(cdf.icdf[i], Rate(n, cdf.count))],
             n |-> n, count |-> count]
    BY DEF UpdateCdf
  <2>3. new = [i \in 0 .. n - 1 |->
                         IF i = n - 1 THEN cdf.icdf[i]
                         ELSE IF i < val THEN Grown(cdf.icdf[i], Rate(n, cdf.count))
                         ELSE Shrunk(cdf.icdf[i], Rate(n, cdf.count))]
    BY <2>1 DEF Grown, Shrunk, Half, Up, Down
  <2> QED BY <2>2, <2>3
<1> HIDE DEF k, c, n
<1>4. new[n - 1] = 0
  BY <1>1
<1>5. \A i \in 0 .. n - 1 : new[i] \in Nat /\ new[i] < Top
  <2> SUFFICES ASSUME NEW i \in 0 .. n - 1 PROVE new[i] \in Nat /\ new[i] < Top
    OBVIOUS
  <2>1. c[i] \in Nat /\ c[i] < Top /\ c[i] <= c[i]
    BY <1>1
  <2>2. Up(c[i], k) \in Nat /\ Up(c[i], k) < Top
    BY <2>1, <1>2, GrownKeeps
  <2>3. Down(c[i], k) \in Nat /\ Down(c[i], k) <= c[i]
    BY <2>1, <1>2, ShrunkKeeps
  <2> QED BY <2>1, <2>2, <2>3, <1>2
<1>6. \A i \in 1 .. n - 1 : new[i] <= new[i - 1]
  <2> SUFFICES ASSUME NEW i \in 1 .. n - 1 PROVE new[i] <= new[i - 1]
    OBVIOUS
  <2>1. /\ i \in 0 .. n - 1 /\ i - 1 \in 0 .. n - 1 /\ i - 1 # n - 1
        /\ c[i - 1] \in Nat /\ c[i - 1] < Top
        /\ c[i] \in Nat /\ c[i] <= c[i - 1]
    BY <1>1
  <2> DEFINE x == c[i]
             y == c[i - 1]
  <2>8. x \in Nat /\ y \in Nat /\ x <= y /\ x < Top /\ y < Top
    BY <2>1, <1>2
  <2> HIDE DEF x, y
  <2>2. Up(x, k) <= Up(y, k) /\ y <= Up(y, k) /\ Up(x, k) \in Nat /\ Up(y, k) \in Nat
    BY <2>8, <1>2, GrownKeeps
  <2>3. /\ Down(x, k) <= Down(y, k) /\ Down(x, k) \in Nat /\ Down(y, k) \in Nat
    BY <2>8, <1>2, ShrunkKeeps
  <2>9. Down(x, k) <= x
    <3>1. x <= x
      BY <2>8
    <3> QED BY <3>1, <2>8, <1>2, ShrunkKeeps
  <2>4. CASE i = n - 1
    <3>1. new[i] = 0 /\ new[i - 1] \in Nat
      BY <2>1, <2>4, <1>4, <1>5
    <3> QED BY <3>1
  <2>5. CASE i # n - 1 /\ i < val
    <3>1. new[i] = Up(x, k) /\ new[i - 1] = Up(y, k)
      BY <2>1, <2>5, <1>1 DEF x, y
    <3> QED BY <3>1, <2>2
  <2>6. CASE i # n - 1 /\ ~(i < val) /\ i - 1 < val
    <3>1. new[i] = Down(x, k) /\ new[i - 1] = Up(y, k)
      BY <2>1, <2>6 DEF x, y
    <3> QED BY <3>1, <2>8, <2>2, <2>3, <2>9
  <2>7. CASE i # n - 1 /\ ~(i < val) /\ ~(i - 1 < val)
    <3>1. new[i] = Down(x, k) /\ new[i - 1] = Down(y, k)
      BY <2>1, <2>7 DEF x, y
    <3> QED BY <3>1, <2>3
  <2> QED BY <2>4, <2>5, <2>6, <2>7
<1>7. \A i \in 0 .. n - 1 : new[i] \in 0 .. Top - 1
  BY <1>5, <1>2
<1>8. count \in 0 .. 32
  BY <1>1
<1>9. new = [i \in 0 .. n - 1 |-> new[i]]
  OBVIOUS
<1> HIDE DEF new, count
<1> DEFINE u == [icdf |-> new, n |-> n, count |-> count]
<1>10. Stored(u)
  BY <1>1, <1>8, <1>9 DEF Stored
<1>11. Legal(u)
  BY <1>4, <1>6, <1>7 DEF Legal
<1>12. Good(u) /\ u.n = n
  BY <1>1, <1>10, <1>11 DEF Good
<1> QED BY <1>3, <1>12 DEF n

-----------------------------------------------------------------------------
(* The split of a range                                                    *)

(* What a full range r shares out before the floors. *)
Share(r, f) ==
  Half(Half(r, RBits \div 2) * Half(f, ProbShift), RBits - 1 - RBits \div 2 - ProbShift)

LEMMA HalfOrdered ==
  ASSUME NEW x \in Nat, NEW y \in Nat, x <= y, NEW k \in Nat
  PROVE  Half(x, k) <= Half(y, k)
<1>1. Half(x, k) \in Nat /\ Half(y, k) \in Nat
  BY Halved
<1>2. x >= Half(x, k) * 2 ^ k
  <2>1. Half(x, k) >= Half(x, k)
    BY <1>1
  <2> QED BY <2>1, <1>1, HalfReaches
<1>3. Half(x, k) * 2 ^ k \in Nat
  BY <1>1, PowerPositive
<1>4. y >= Half(x, k) * 2 ^ k
  BY <1>2, <1>3
<1>5. Half(y, k) >= Half(x, k)
  BY <1>1, <1>4, HalfReaches
<1> QED BY <1>1, <1>5

(* A frequency below Top leaves 2^ProbShift of a full range above its split. *)
LEMMA ShareFits ==
  ASSUME NEW r \in Nat, Top <= r, NEW x \in Nat, x < Top
  PROVE  Share(r, x) \in Nat /\ Share(r, x) + 2 ^ ProbShift <= r
<1> DEFINE h == RBits \div 2
           e == RBits - 1 - h - ProbShift
           a == Half(r, h)
           b == Half(x, ProbShift)
           A == 2 ^ h
           E == 2 ^ e
           P == 2 ^ ProbShift
<1>1. h \in Nat /\ e \in Nat /\ ProbShift \in Nat /\ RBits - 1 = h + (e + ProbShift)
  BY Widths
<1> HIDE DEF h, e
<1>2. A \in Nat \ {0} /\ E \in Nat \ {0} /\ P \in Nat \ {0} /\ Top = A * (E * P)
  <2>1. 2 ^ (h + (e + ProbShift)) = A * 2 ^ (e + ProbShift)
    BY <1>1, PowerAdds
  <2>2. 2 ^ (e + ProbShift) = E * P
    BY <1>1, PowerAdds
  <2> QED BY <2>1, <2>2, <1>1, PowerPositive, Widths
<1>3. a \in Nat /\ b \in Nat /\ a * A <= r
  <2>1. a \in Nat /\ b \in Nat
    BY <1>1, Halved
  <2>2. r >= a * A
    <3>1. a >= a
      BY <2>1
    <3> QED BY <3>1, <2>1, <1>1, HalfReaches
  <2>3. a * A \in Nat
    BY <2>1, <1>2
  <2> QED BY <2>1, <2>2, <2>3
<1>4. E * P <= a
  <2>1. r >= (E * P) * A
    <3>1. (E * P) * A = A * (E * P) /\ A * (E * P) \in Nat
      BY <1>2
    <3> QED BY <3>1, <1>2
  <2>2. E * P \in Nat
    BY <1>2
  <2>3. a >= E * P
    BY <2>1, <2>2, <1>1, HalfReaches
  <2> QED BY <2>2, <2>3, <1>3
<1>5. b + 1 <= A * E
  <2>1. A * E \in Nat
    BY <1>2
  <2>2. ~(b >= A * E)
    <3>1. b >= A * E <=> x >= (A * E) * P
      BY <2>1, <1>1, HalfReaches
    <3>2. (A * E) * P = A * (E * P)
      BY <1>2
    <3>3. ~(x >= (A * E) * P)
      BY <3>2, <1>2, Widths
    <3> QED BY <3>1, <3>3
  <2> QED BY <2>1, <2>2, <1>3
<1> HIDE DEF a, b, A, E, P
(* a * b = a * (b + 1) - a stays a whole E * P short of a * A * E. *)
<1>6. a * b \in Nat /\ a * b + E * P <= (a * A) * E
  <2>1. a * (b + 1) <= a * (A * E)
    <3>1. b + 1 \in Nat /\ A * E \in Nat
      BY <1>2, <1>3
    <3> QED BY <3>1, <1>3, <1>5, ProductOrdered
  <2>2. a * (b + 1) = a * b + a /\ a * (A * E) = (a * A) * E
    BY <1>2, <1>3
  <2>3. a * b \in Nat /\ (a * A) * E \in Nat /\ E * P \in Nat
    BY <1>2, <1>3
  <2> QED BY <2>1, <2>2, <2>3, <1>4, <1>3
<1>7. Share(r, x) = Half(a * b, e)
  BY DEF Share, a, b, e, h
<1> DEFINE s == Half(a * b, e)
<1>8. s \in Nat /\ s * E <= a * b
  BY <1>1, <1>6, Halved DEF E
<1> HIDE DEF s
<1>9. s + P <= a * A
  <2>1. s * E + P * E <= (a * A) * E
    <3>1. P * E = E * P /\ E * P \in Nat /\ s * E \in Nat /\ (a * A) * E \in Nat
      BY <1>2, <1>3, <1>8
    <3> QED BY <3>1, <1>6, <1>8
  <2>2. s * E + P * E = (s + P) * E
    BY <1>2, <1>8
  <2>3. s + P \in Nat /\ a * A \in Nat
    BY <1>2, <1>3, <1>8
  <2>4. (a * A < s + P) <=> ((a * A) * E < (s + P) * E)
    BY <2>3, <1>2, ProductStrict
  <2>5. (s + P) * E \in Nat /\ (a * A) * E \in Nat
    BY <2>3, <1>2
  <2> QED BY <2>1, <2>2, <2>3, <2>4, <2>5
<1>10. s + P <= r
  <2>1. a * A \in Nat
    BY <1>2, <1>3
  <2> QED BY <2>1, <1>3, <1>9, <1>8, <1>2
<1> QED BY <1>7, <1>8, <1>10 DEF s, P

LEMMA ShareOrdered ==
  ASSUME NEW r \in Nat, NEW x \in Nat, NEW y \in Nat, y <= x
  PROVE  Share(r, y) <= Share(r, x)
<1> DEFINE h == RBits \div 2
           e == RBits - 1 - h - ProbShift
           a == Half(r, h)
           b == Half(x, ProbShift)
           c == Half(y, ProbShift)
<1>1. h \in Nat /\ e \in Nat /\ ProbShift \in Nat
  BY Widths
<1> HIDE DEF h, e
<1>2. a \in Nat /\ b \in Nat /\ c \in Nat /\ c <= b
  BY <1>1, Halved, HalfOrdered
<1> HIDE DEF a, b, c
<1>3. a * c <= a * b /\ a * c \in Nat /\ a * b \in Nat
  BY <1>2, ProductOrdered
<1>4. Half(a * c, e) <= Half(a * b, e)
  BY <1>1, <1>3, HalfOrdered
<1>5. Share(r, y) = Half(a * c, e) /\ Share(r, x) = Half(a * b, e)
  BY DEF Share, a, b, c, e, h
<1> QED BY <1>4, <1>5

LEMMA LowerIs ==
  ASSUME NEW cdf, Good(cdf), NEW r \in Nat, Top <= r, NEW s \in 0 .. cdf.n - 1
  PROVE  /\ Lower(r, cdf, s) = Share(r, cdf.icdf[s]) + MinProb * (cdf.n - 1 - s)
         /\ Lower(r, cdf, s) \in Nat /\ Lower(r, cdf, s) < r
         /\ MinProb * (cdf.n - 1 - s) \in Nat
<1> DEFINE n == cdf.n
           f == cdf.icdf[s]
           p == MinProb * (n - 1 - s)
           h == Share(r, f)
           P == 2 ^ ProbShift
<1>1. n \in Nat \ {0} /\ s \in 0 .. n - 1 /\ f \in Nat /\ f < Top
  BY GoodContext
<1>2. MinProb * (n - 1) < P
  BY GoodContext
<1>3. Lower(r, cdf, s) = h + p
  BY DEF Lower, Split, Share
<1>4. h \in Nat /\ h + P <= r /\ P \in Nat
  BY <1>1, ShareFits, Widths, PowerPositive
<1> HIDE DEF n, f, h, P
<1>5. p \in Nat /\ p <= MinProb * (n - 1)
  <2>1. n - 1 - s \in Nat /\ n - 1 \in Nat /\ n - 1 - s <= n - 1 /\ MinProb \in Nat
    BY <1>1, Widths
  <2> QED BY <2>1, ProductOrdered
<1>6. MinProb * (n - 1) \in Nat
  BY <1>1, Widths
<1> HIDE DEF p
<1>7. h + p \in Nat /\ h + p < r
  BY <1>2, <1>4, <1>5, <1>6
<1> QED BY <1>3, <1>5, <1>7 DEF n, f, h, p

(* Every symbol of a legal context has a part of every full range, so that the
   encoder never narrows to nothing and the decoder's scan always stops; the
   parts of later symbols lie below those of earlier ones. *)
THEOREM EverySymbolHasRange ==
  ASSUME NEW cdf, Good(cdf), NEW r \in Nat, Top <= r
  PROVE  /\ \A s \in 0 .. cdf.n - 1 :
              /\ Lower(r, cdf, s) \in Nat /\ Upper(r, cdf, s) \in Nat
              /\ Lower(r, cdf, s) < Upper(r, cdf, s) /\ Upper(r, cdf, s) <= r
         /\ \A s, t \in 0 .. cdf.n - 1 : t < s => Upper(r, cdf, s) <= Lower(r, cdf, t)
         /\ Lower(r, cdf, cdf.n - 1) = 0
<1> DEFINE n == cdf.n
           L(s) == Lower(r, cdf, s)
<1>1. n \in Nat \ {0} /\ MinProb \in Nat \ {0}
  BY GoodContext, Widths
<1>2. \A s \in 0 .. n - 1 : L(s) \in Nat /\ L(s) < r
  BY LowerIs
<1>3. \A s \in 1 .. n - 1 : L(s) < L(s - 1)
  <2> SUFFICES ASSUME NEW s \in 1 .. n - 1 PROVE L(s) < L(s - 1)
    OBVIOUS
  <2>1. s \in 0 .. n - 1 /\ s - 1 \in 0 .. n - 1 /\ n - 1 - (s - 1) = (n - 1 - s) + 1
    BY <1>1
  <2> DEFINE x == Share(r, cdf.icdf[s])
             y == Share(r, cdf.icdf[s - 1])
             p == MinProb * (n - 1 - s)
             q == MinProb * (n - 1 - (s - 1))
  <2>2. L(s) = x + p /\ L(s - 1) = y + q
    BY <2>1, LowerIs
  <2>3. x <= y
    BY <2>1, GoodContext, ShareOrdered
  <2>4. x \in Nat /\ y \in Nat
    BY <2>1, GoodContext, ShareFits
  <2>5. q = p + MinProb /\ p \in Nat
    <3> DEFINE z == n - 1 - s
    <3>1. z \in Nat /\ n - 1 - (s - 1) = z + 1
      BY <2>1, <1>1
    <3> HIDE DEF z, n
    <3>2. MinProb * (z + 1) = MinProb * z + MinProb /\ MinProb * z \in Nat
      BY <3>1, <1>1
    <3> QED BY <3>1, <3>2 DEF z
  <2> HIDE DEF x, y, p, q, L
  <2> QED BY <2>2, <2>3, <2>4, <2>5, <1>1
<1>4. L(n - 1) = 0
  <2>1. n - 1 \in 0 .. n - 1 /\ n - 1 - (n - 1) = 0
    BY <1>1
  <2>2. L(n - 1) = Share(r, 0) + MinProb * 0
    BY <2>1, LowerIs, GoodContext
  <2>3. Share(r, 0) = 0
    <3> DEFINE h == RBits \div 2
               e == RBits - 1 - h - ProbShift
    <3>1. h \in Nat /\ e \in Nat /\ ProbShift \in Nat
      BY Widths
    <3>2. \A k \in Nat : Half(0, k) = 0
      <4> TAKE k \in Nat
      <4>1. 0 * 2 ^ k + 0 = 0 /\ 0 < 2 ^ k
        BY PowerPositive
      <4>2. Half(0 * 2 ^ k + 0, k) = 0
        BY <4>1, HalvedIs
      <4> QED BY <4>1, <4>2
    <3>3. Half(r, h) \in Nat
      BY <3>1, Halved
    <3>4. Half(r, h) * 0 = 0
      BY <3>3
    <3>5. Share(r, 0) = Half(Half(r, h) * Half(0, ProbShift), e)
      BY DEF Share
    <3> HIDE DEF h, e
    <3> QED BY <3>1, <3>2, <3>4, <3>5
  <2> QED BY <2>2, <2>3, <1>1
<1>5. \A s, t \in 0 .. n - 1 : t <= s => L(s) <= L(t)
  <2> DEFINE S == {k \in Nat : \A t \in 0 .. n - 1 : t + k <= n - 1 => L(t + k) <= L(t)}
  <2> HIDE DEF L, n
  <2>1. 0 \in S
    <3>1. \A t \in 0 .. n - 1 : t + 0 = t /\ L(t) <= L(t)
      BY <1>1, <1>2
    <3> QED BY <3>1
  <2>2. \A k \in Nat : k \in S => k + 1 \in S
    <3> SUFFICES ASSUME NEW k \in Nat, k \in S PROVE k + 1 \in S
      OBVIOUS
    <3>5. ASSUME NEW t \in 0 .. n - 1, t + (k + 1) <= n - 1
          PROVE  L(t + (k + 1)) <= L(t)
      <4>1. /\ t + k <= n - 1 /\ t + (k + 1) \in 1 .. n - 1 /\ (t + (k + 1)) - 1 = t + k
            /\ t + k \in 0 .. n - 1 /\ t + (k + 1) \in 0 .. n - 1
        BY <3>5, <1>1
      <4>2. L(t + (k + 1)) < L(t + k)
        BY <4>1, <1>3
      <4>3. L(t + k) <= L(t)
        BY <4>1
      <4> QED BY <4>1, <4>2, <4>3, <1>2
    <3> QED BY <3>5
  <2> HIDE DEF S
  <2>3. Nat \subseteq S
    BY <2>1, <2>2, SetInduction
  <2> SUFFICES ASSUME NEW s \in 0 .. n - 1, NEW t \in 0 .. n - 1, t <= s
               PROVE  L(s) <= L(t)
    OBVIOUS
  <2>4. s - t \in Nat /\ t + (s - t) = s /\ t + (s - t) <= n - 1
    BY <1>1
  <2>5. s - t \in S
    BY <2>3, <2>4
  <2>6. L(t + (s - t)) <= L(t)
    BY <2>4, <2>5 DEF S
  <2> QED BY <2>4, <2>6
<1>6. \A s \in 0 .. n - 1 : Upper(r, cdf, s) = IF s = 0 THEN r ELSE L(s - 1)
  BY DEF Upper
<1> HIDE DEF L
<1>7. \A s \in 0 .. n - 1 :
         /\ Upper(r, cdf, s) \in Nat
         /\ L(s) < Upper(r, cdf, s) /\ Upper(r, cdf, s) <= r
  <2> SUFFICES ASSUME NEW s \in 0 .. n - 1
               PROVE  /\ Upper(r, cdf, s) \in Nat
                      /\ L(s) < Upper(r, cdf, s) /\ Upper(r, cdf, s) <= r
    OBVIOUS
  <2>1. CASE s = 0
    BY <2>1, <1>2, <1>6
  <2>2. CASE s # 0
    <3>1. s \in 1 .. n - 1 /\ s - 1 \in 0 .. n - 1
      BY <2>2, <1>1
    <3>2. Upper(r, cdf, s) = L(s - 1)
      BY <2>2, <1>6
    <3> QED BY <3>1, <3>2, <1>2, <1>3
  <2> QED BY <2>1, <2>2
<1>8. \A s, t \in 0 .. n - 1 : t < s => Upper(r, cdf, s) <= L(t)
  <2> SUFFICES ASSUME NEW s \in 0 .. n - 1, NEW t \in 0 .. n - 1, t < s
               PROVE  Upper(r, cdf, s) <= L(t)
    OBVIOUS
  <2>1. s # 0 /\ s - 1 \in 0 .. n - 1 /\ t <= s - 1
    BY <1>1
  <2> QED BY <2>1, <1>5, <1>6
<1> QED BY <1>2, <1>4, <1>7, <1>8 DEF L

LEMMA MinIs ==
  ASSUME NEW S, S \subseteq Nat, S # {}
  PROVE  Min(S) \in S /\ \A y \in S : Min(S) <= y
<1>1. \E x \in S : \A y \in S : x <= y
  BY LeastMember
<1> QED BY <1>1 DEF Min

LEMMA MaxIs ==
  ASSUME NEW n \in Nat, NEW S, S \subseteq 0 .. n, S # {}
  PROVE  Max(S) \in S /\ \A y \in S : y <= Max(S)
<1> DEFINE D == {k \in Nat : n - k \in S}
<1>1. D \subseteq Nat /\ D # {}
  <2>1. PICK y \in S : TRUE
    OBVIOUS
  <2>2. n - y \in Nat /\ n - (n - y) = y
    OBVIOUS
  <2>3. n - y \in D
    BY <2>2
  <2> QED BY <2>3
<1>2. PICK k \in D : \A j \in D : k <= j
  BY <1>1, LeastMember
<1>3. n - k \in S
  OBVIOUS
<1>4. ASSUME NEW y \in S PROVE n - k >= y
  <2>1. y \in 0 .. n /\ n - y \in Nat /\ n - (n - y) = y
    OBVIOUS
  <2>2. n - y \in D
    BY <2>1
  <2>3. k <= n - y
    BY <1>2, <2>2
  <2> QED BY <2>1, <2>3
<1>5. \E x \in S : \A y \in S : x >= y
  BY <1>3, <1>4
<1>6. Max(S) \in S /\ \A y \in S : Max(S) >= y
  BY <1>5 DEF Max
<1> QED BY <1>6

(* normalize makes every range full again. *)
LEMMA RangeFilled ==
  ASSUME NEW x \in Nat \ {0}, x < 2 ^ RBits
  PROVE  /\ Deficit(x) \in Nat /\ Deficit(x) <= RBits - 1
         /\ Top <= x * 2 ^ Deficit(x) /\ x * 2 ^ Deficit(x) < 2 ^ RBits
         /\ x <= 2 ^ (RBits - Deficit(x))
<1> DEFINE K == {k \in 1 .. RBits : x < 2 ^ k}
           g == Ilog(x)
           d == Deficit(x)
<1>1. RBits \in Nat /\ RBits > 1 /\ RBits \in K /\ Top = 2 ^ (RBits - 1)
  BY Widths
<1>2. g \in K /\ \A y \in K : g <= y
  <2>1. K \subseteq 1 .. RBits /\ 1 .. RBits \subseteq Nat
    BY <1>1
  <2>2. g = Min(K)
    BY DEF Ilog
  <2> HIDE DEF g, K
  <2>3. K \subseteq Nat /\ K # {}
    BY <2>1, <1>1
  <2> QED BY <2>2, <2>3, MinIs
<1>3. g \in Nat /\ 1 <= g /\ g <= RBits /\ x < 2 ^ g
  BY <1>2
<1>4. d = RBits - g
  BY DEF Deficit
<1>5. 2 ^ (g - 1) <= x
  <2>1. CASE g = 1
    <3>1. g - 1 = 0 /\ 2 ^ 0 = 1
      BY <2>1
    <3>2. 2 ^ (g - 1) = 1
      BY <3>1
    <3> HIDE DEF g
    <3> QED BY <3>2
  <2>2. CASE g # 1
    <3>1. g - 1 \in 1 .. RBits /\ ~(g <= g - 1)
      BY <1>1, <1>3, <2>2
    <3>2. ~(x < 2 ^ (g - 1))
      BY <3>1, <1>2
    <3>3. 2 ^ (g - 1) \in Nat
      BY <3>1, PowerPositive
    <3> QED BY <3>2, <3>3
  <2> QED BY <2>1, <2>2
<1> HIDE DEF g, d, K
<1>6. d \in Nat /\ d <= RBits - 1 /\ g - 1 \in Nat /\ (g - 1) + d = RBits - 1 /\ g + d = RBits
      /\ RBits - d = g
  BY <1>1, <1>3, <1>4
<1> DEFINE D == 2 ^ d
           G == 2 ^ (g - 1)
           H == 2 ^ g
<1>7. /\ D \in Nat \ {0} /\ G \in Nat /\ H \in Nat
      /\ Top = G * D /\ 2 ^ RBits = H * D
  <2>1. 2 ^ ((g - 1) + d) = G * D
    BY <1>6, PowerAdds
  <2>2. 2 ^ (g + d) = H * D
    BY <1>6, <1>3, PowerAdds
  <2> QED BY <2>1, <2>2, <1>1, <1>3, <1>6, PowerPositive
<1>8. G <= x /\ x < H
  BY <1>3, <1>5
<1> HIDE DEF D, G
<1>9. G * D <= x * D
  BY <1>7, <1>8, ProductOrdered
<1>10. x * D < H * D
  BY <1>7, <1>8, ProductStrict DEF H
<1>11. x <= 2 ^ (RBits - d)
  BY <1>6, <1>7, <1>8
<1> QED BY <1>6, <1>7, <1>9, <1>10, <1>11 DEF d, D

-----------------------------------------------------------------------------
(* The number a buffer spells                                              *)

Byte == 0 .. ByteMax

(* f counts up the bytes of the buffer: f[i] is the number its first i spell. *)
Prefixes(buf, f) ==
  /\ f \in [0 .. Len(buf) -> Nat]
  /\ f[0] = 0
  /\ \A i \in 1 .. Len(buf) : f[i] = f[i - 1] * 2 ^ ByteBits + buf[i]

LEMMA ByteIs == /\ 2 ^ ByteBits \in Nat \ {0} /\ ByteMax \in Nat
                /\ ByteMax = 2 ^ ByteBits - 1 /\ Byte = 0 .. ByteMax
                /\ Byte \subseteq Nat /\ \A b \in Nat : b < 2 ^ ByteBits <=> b \in Byte
<1>1. 2 ^ ByteBits \in Nat \ {0}
  BY Widths, PowerPositive
<1> DEFINE B == 2 ^ ByteBits
<1>2. ByteMax = B - 1
  BY DEF ByteMax
<1> HIDE DEF B
<1>3. B \in Nat \ {0}
  BY <1>1 DEF B
<1>4. ByteMax \in Nat /\ \A b \in Nat : b < B <=> b \in 0 .. ByteMax
  BY <1>2, <1>3
<1> QED BY <1>2, <1>3, <1>4 DEF B, Byte

LEMMA BytesAre ==
  ASSUME NEW x \in Nat, NEW n \in Nat
  PROVE  /\ Bytes(x, n) \in Seq(Byte) /\ Len(Bytes(x, n)) = n
         /\ \A i \in 1 .. n : /\ (n - i) * ByteBits \in Nat
                              /\ Bytes(x, n)[i] = Half(x, (n - i) * ByteBits) % 2 ^ ByteBits
<1> DEFINE b == [i \in 1 .. n |-> Half(x, (n - i) * ByteBits) % 2 ^ ByteBits]
<1>1. Bytes(x, n) = b
  BY DEF Bytes
<1>2. ASSUME NEW i \in 1 .. n
      PROVE  (n - i) * ByteBits \in Nat /\ Half(x, (n - i) * ByteBits) % 2 ^ ByteBits \in Byte
  <2>1. n - i \in Nat /\ ByteBits \in Nat
    BY Widths
  <2>2. (n - i) * ByteBits \in Nat
    BY <2>1
  <2>3. Half(x, (n - i) * ByteBits) \in Nat
    BY <2>2, Halved
  <2>4. /\ Half(x, (n - i) * ByteBits) % 2 ^ ByteBits \in Nat
        /\ Half(x, (n - i) * ByteBits) % 2 ^ ByteBits < 2 ^ ByteBits
    BY <2>1, <2>3, Halved
  <2> QED BY <2>2, <2>4, ByteIs
<1>3. b \in [1 .. n -> Byte]
  BY <1>2
<1>4. b \in Seq(Byte) /\ Len(b) = n
  <2> HIDE DEF b
  <2> QED BY <1>3
<1> QED BY <1>1, <1>2, <1>4

(* A byte buffer has its prefix numbers; each is below what its bytes can hold. *)
LEMMA PrefixesBelow ==
  ASSUME NEW buf \in Seq(Byte), NEW f, Prefixes(buf, f)
  PROVE  \A i \in 0 .. Len(buf) : /\ i * ByteBits \in Nat /\ f[i] \in Nat
                                  /\ f[i] < 2 ^ (i * ByteBits)
<1> DEFINE S == {i \in Nat : i <= Len(buf) => f[i] < 2 ^ (i * ByteBits)}
           B == 2 ^ ByteBits
<1>1. B \in Nat \ {0} /\ ByteMax = B - 1 /\ ByteBits \in Nat
  BY ByteIs, Widths
<1>2. 0 \in S
  <2>1. 2 ^ (0 * ByteBits) = 1
    <3>1. 0 * ByteBits = 0
      BY <1>1
    <3>2. 2 ^ (0 * ByteBits) = 2 ^ 0
      BY <3>1, Zenon
    <3>3. 2 ^ 0 = 1
      OBVIOUS
    <3> QED BY <3>2, <3>3
  <2>2. f[0] = 0
    BY DEF Prefixes
  <2> QED BY <2>1, <2>2
<1>3. ASSUME NEW i \in Nat, i \in S PROVE i + 1 \in S
  <2> SUFFICES ASSUME i + 1 <= Len(buf) PROVE f[i + 1] < 2 ^ ((i + 1) * ByteBits)
    OBVIOUS
  <2>1. i + 1 \in 1 .. Len(buf) /\ (i + 1) - 1 = i /\ i <= Len(buf) /\ i \in 0 .. Len(buf)
    OBVIOUS
  <2>2. f[i + 1] = f[i] * B + buf[i + 1] /\ f[i] \in Nat
    BY <2>1 DEF Prefixes
  <2>3. buf[i + 1] \in Nat /\ buf[i + 1] < B
    <3>1. buf[i + 1] \in Byte
      BY <2>1
    <3> QED BY <3>1, ByteIs
  <2>4. i * ByteBits \in Nat /\ (i + 1) * ByteBits = i * ByteBits + ByteBits
    BY <1>1
  <2>5. 2 ^ ((i + 1) * ByteBits) = 2 ^ (i * ByteBits) * B
    BY <2>4, <1>1, PowerAdds
  <2>6. f[i] < 2 ^ (i * ByteBits)
    BY <1>3, <2>1
  <2> DEFINE F == f[i]
             P == 2 ^ (i * ByteBits)
             y == buf[i + 1]
  <2>7. F \in Nat /\ P \in Nat /\ y \in Nat /\ y < B /\ F < P
    BY <2>2, <2>3, <2>4, <2>6, PowerPositive
  <2> HIDE DEF F, P, y, B
  <2>8. F * B + y < P * B
    <3>1. (F + 1) * B <= P * B
      BY <2>7, <1>1, ProductOrdered
    <3>2. (F + 1) * B = F * B + B /\ F * B \in Nat /\ P * B \in Nat
      BY <2>7, <1>1
    <3> QED BY <3>1, <3>2, <2>7, <1>1
  <2> QED BY <2>2, <2>5, <2>8 DEF F, P, y, B
<1> HIDE DEF S
<1>4. Nat \subseteq S
  BY <1>2, <1>3, SetInduction
<1>5. ASSUME NEW i \in 0 .. Len(buf)
      PROVE  i * ByteBits \in Nat /\ f[i] \in Nat /\ f[i] < 2 ^ (i * ByteBits)
  <2>1. i \in Nat /\ i <= Len(buf) /\ i \in S
    BY <1>4
  <2>2. f[i] < 2 ^ (i * ByteBits)
    BY <2>1 DEF S
  <2>3. i * ByteBits \in Nat
    BY <2>1, <1>1
  <2> QED BY <2>2, <2>3 DEF Prefixes
<1> QED BY <1>5

(* Full bytes spell the largest number there is of that length. *)
LEMMA FullBytes ==
  ASSUME NEW buf \in Seq(Byte), NEW f, Prefixes(buf, f),
         \A i \in DOMAIN buf : buf[i] = ByteMax
  PROVE  f[Len(buf)] + 1 = 2 ^ (Len(buf) * ByteBits)
<1> DEFINE S == {i \in Nat : i <= Len(buf) => f[i] + 1 = 2 ^ (i * ByteBits)}
           B == 2 ^ ByteBits
<1>1. B \in Nat \ {0} /\ ByteMax = B - 1 /\ ByteBits \in Nat
  BY ByteIs, Widths
<1>2. 0 \in S
  <2>1. 2 ^ (0 * ByteBits) = 1
    <3>1. 0 * ByteBits = 0
      BY <1>1
    <3>2. 2 ^ (0 * ByteBits) = 2 ^ 0
      BY <3>1, Zenon
    <3>3. 2 ^ 0 = 1
      OBVIOUS
    <3> QED BY <3>2, <3>3
  <2>2. f[0] = 0
    BY DEF Prefixes
  <2> QED BY <2>1, <2>2
<1>3. ASSUME NEW i \in Nat, i \in S PROVE i + 1 \in S
  <2> SUFFICES ASSUME i + 1 <= Len(buf) PROVE f[i + 1] + 1 = 2 ^ ((i + 1) * ByteBits)
    OBVIOUS
  <2>1. i + 1 \in 1 .. Len(buf) /\ (i + 1) - 1 = i /\ i <= Len(buf) /\ i \in 0 .. Len(buf)
    OBVIOUS
  <2>2. f[i + 1] = f[i] * B + buf[i + 1] /\ f[i] \in Nat
    BY <2>1 DEF Prefixes
  <2>3. buf[i + 1] = B - 1
    BY <2>1, <1>1
  <2>4. i * ByteBits \in Nat /\ (i + 1) * ByteBits = i * ByteBits + ByteBits
    BY <1>1
  <2>5. 2 ^ ((i + 1) * ByteBits) = 2 ^ (i * ByteBits) * B
    BY <2>4, <1>1, PowerAdds
  <2>6. f[i] + 1 = 2 ^ (i * ByteBits)
    BY <1>3, <2>1
  <2> DEFINE F == f[i]
             P == 2 ^ (i * ByteBits)
  <2> HIDE DEF B
  <2>8. F + 1 = P /\ F \in Nat
    BY <2>2, <2>6
  <2> HIDE DEF F, P
  <2>7. (F + 1) * B = F * B + B /\ F * B \in Nat
    BY <2>8, <1>1
  <2>9. P * B = F * B + B
    BY <2>7, <2>8
  <2>10. (F * B + (B - 1)) + 1 = P * B
    BY <2>7, <2>9, <1>1
  <2> QED BY <2>2, <2>3, <2>5, <2>10 DEF F, P, B
<1> HIDE DEF S
<1>4. Nat \subseteq S
  BY <1>2, <1>3, SetInduction
<1>5. Len(buf) \in S
  BY <1>4
<1> QED BY <1>5 DEF S

(* A carry that finds a byte to stop at adds one to the number. *)
LEMMA CarryAddsOne ==
  ASSUME NEW buf \in Seq(Byte), NEW f, Prefixes(buf, f),
         ~ \A i \in DOMAIN buf : buf[i] = ByteMax
  PROVE  /\ Carried(buf) \in Seq(Byte) /\ Len(Carried(buf)) = Len(buf)
         /\ \E g : Prefixes(Carried(buf), g) /\ g[Len(buf)] = f[Len(buf)] + 1
<1> DEFINE n == Len(buf)
           K == {0} \cup {i \in DOMAIN buf : buf[i] # ByteMax}
           stop == Max(K)
           new == [i \in DOMAIN buf |-> IF i < stop THEN buf[i]
                                        ELSE IF i = stop THEN buf[i] + 1 ELSE 0]
           g == [i \in 0 .. n |-> IF i < stop THEN f[i] ELSE f[i] + 1]
           B == 2 ^ ByteBits
<1>1. n \in Nat /\ DOMAIN buf = 1 .. n /\ \A i \in 1 .. n : buf[i] \in Byte
  OBVIOUS
<1>2. B \in Nat \ {0} /\ ByteMax = B - 1 /\ Byte = 0 .. ByteMax
  BY ByteIs
<1>3. Carried(buf) = new
  BY DEF Carried
<1>4. stop \in K /\ \A i \in K : i <= stop
  <2>1. K \subseteq 0 .. n /\ K # {}
    BY <1>1
  <2> HIDE DEF K
  <2> QED BY <2>1, <1>1, MaxIs
<1>5. PICK j \in 1 .. n : buf[j] # ByteMax
  BY <1>1
<1>6. stop \in 1 .. n /\ buf[stop] # ByteMax
  <2>1. j \in K
    BY <1>5, <1>1
  <2>2. j <= stop /\ stop # 0
    BY <2>1, <1>4, <1>1
  <2>3. stop \in {i \in DOMAIN buf : buf[i] # ByteMax}
    BY <2>2, <1>4
  <2> QED BY <2>3, <1>1
<1>7. \A i \in 1 .. n : i > stop => buf[i] = ByteMax
  <2> SUFFICES ASSUME NEW i \in 1 .. n, i > stop, buf[i] # ByteMax PROVE FALSE
    OBVIOUS
  <2>1. i \in K
    BY <1>1
  <2>2. i <= stop
    BY <2>1, <1>4
  <2> QED BY <2>2, <1>6
<1> HIDE DEF stop, K, n, B
<1>8. \A i \in 1 .. n : new[i] \in Byte
  <2> SUFFICES ASSUME NEW i \in 1 .. n PROVE new[i] \in Byte
    OBVIOUS
  <2>1. buf[i] \in 0 .. ByteMax
    BY <1>1, <1>2
  <2>2. CASE i < stop
    BY <2>1, <2>2, <1>1, <1>2
  <2>3. CASE i = stop
    <3>1. new[i] = buf[i] + 1
      BY <2>3, <1>1, <1>6
    <3>2. buf[i] # ByteMax
      BY <2>3, <1>6
    <3> DEFINE y == buf[i]
    <3>3. y \in 0 .. ByteMax /\ y # ByteMax
      BY <2>1, <3>2
    <3> HIDE DEF y, new
    <3>4. y + 1 \in 0 .. ByteMax
      BY <3>3, <1>2
    <3> QED BY <3>1, <3>4, <1>2 DEF y
  <2>4. CASE i > stop
    <3>1. new[i] = 0
      BY <2>4, <1>1, <1>6
    <3>2. 0 \in Byte
      BY <1>2
    <3> HIDE DEF new
    <3> QED BY <3>1, <3>2
  <2> QED BY <2>2, <2>3, <2>4, <1>6
<1>9. new \in Seq(Byte) /\ Len(new) = n
  <2>1. new \in [1 .. n -> Byte]
    BY <1>1, <1>8
  <2> HIDE DEF new
  <2> QED BY <2>1, <1>1
<1>10. \A i \in 0 .. n : f[i] \in Nat
  BY DEF Prefixes, n
<1>11. g \in [0 .. n -> Nat] /\ g[0] = 0
  <2>1. f[0] = 0
    BY DEF Prefixes
  <2> QED BY <2>1, <1>1, <1>6, <1>10
<1>12. ASSUME NEW i \in 1 .. n PROVE g[i] = g[i - 1] * B + new[i]
  <2>1. f[i] = f[i - 1] * B + buf[i] /\ i \in 0 .. n /\ i - 1 \in 0 .. n
    BY <1>1 DEF Prefixes, n, B
  <2>2. buf[i] \in Nat /\ f[i - 1] \in Nat /\ f[i - 1] * B \in Nat
    BY <2>1, <1>1, <1>2, <1>10
  <2>3. CASE i < stop
    <3>1. g[i] = f[i] /\ g[i - 1] = f[i - 1] /\ new[i] = buf[i]
      BY <2>1, <2>3, <1>1, <1>6
    <3> QED BY <3>1, <2>1
  <2>4. CASE i = stop
    <3>1. g[i] = f[i] + 1 /\ g[i - 1] = f[i - 1] /\ new[i] = buf[i] + 1
      BY <2>1, <2>4, <1>1, <1>6
    <3> QED BY <3>1, <2>1, <2>2
  <2>5. CASE i > stop
    <3>1. g[i] = f[i] + 1 /\ g[i - 1] = f[i - 1] + 1 /\ new[i] = 0
      BY <2>1, <2>5, <1>1, <1>6
    <3>2. buf[i] = B - 1
      BY <2>5, <1>2, <1>7
    <3> DEFINE F == f[i - 1]
               b == buf[i]
    <3>3. f[i] = F * B + b /\ F \in Nat /\ b = B - 1
      BY <2>1, <2>2, <3>2
    <3> HIDE DEF F, b, g, new
    <3>4. (F + 1) * B = F * B + B /\ F * B \in Nat
      BY <3>3, <1>2
    <3>5. (F * B + b) + 1 = (F + 1) * B + 0
      BY <3>3, <3>4, <1>2
    <3> QED BY <3>1, <3>3, <3>5 DEF F
  <2> QED BY <2>3, <2>4, <2>5, <1>6
<1>13. g[n] = f[n] + 1
  BY <1>1, <1>6
<1> HIDE DEF g, new
<1>14. Prefixes(new, g)
  BY <1>9, <1>11, <1>12 DEF Prefixes, B
<1> QED BY <1>3, <1>9, <1>13, <1>14 DEF n

(* Bytes put after a buffer shift its number up and add theirs. *)
LEMMA AppendedNumber ==
  ASSUME NEW buf \in Seq(Byte), NEW f, Prefixes(buf, f), NEW x \in Nat, NEW n \in Nat
  PROVE  /\ buf \o Bytes(x, n) \in Seq(Byte) /\ Len(buf \o Bytes(x, n)) = Len(buf) + n
         /\ n * ByteBits \in Nat
         /\ \E g : /\ Prefixes(buf \o Bytes(x, n), g)
                   /\ g[Len(buf) + n]
                        = f[Len(buf)] * 2 ^ (n * ByteBits) + (x % 2 ^ (n * ByteBits))
<1> DEFINE m == Len(buf)
           b == Bytes(x, n)
           all == buf \o b
           B == 2 ^ ByteBits
           (* What x, cut to its upper bytes, leaves of its last j. *)
           tail(j) == Half(x, (n - j) * ByteBits) % 2 ^ (j * ByteBits)
           g == [i \in 0 .. m + n |->
                   IF i <= m THEN f[i]
                   ELSE f[m] * 2 ^ ((i - m) * ByteBits) + tail(i - m)]
<1>1. /\ m \in Nat /\ b \in Seq(Byte) /\ Len(b) = n /\ ByteBits \in Nat
      /\ B \in Nat \ {0}
  <2>1. b \in Seq(Byte) /\ Len(b) = n
    BY BytesAre
  <2>2. m \in Nat
    OBVIOUS
  <2> QED BY <2>1, <2>2, ByteIs, Widths
<1>2. /\ all \in Seq(Byte) /\ Len(all) = m + n
      /\ \A i \in 1 .. m : all[i] = buf[i]
      /\ \A i \in 1 .. n : all[m + i] = b[i]
  <2> HIDE DEF b
  <2> QED BY <1>1
<1>3. \A i \in 0 .. m : f[i] \in Nat
  BY DEF Prefixes
<1>4. ASSUME NEW j \in 0 .. n
      PROVE  /\ j * ByteBits \in Nat /\ (n - j) * ByteBits \in Nat
             /\ tail(j) \in Nat
             /\ Half(x, (n - j) * ByteBits) \in Nat
  <2>1. j \in Nat /\ n - j \in Nat
    OBVIOUS
  <2>2. j * ByteBits \in Nat /\ (n - j) * ByteBits \in Nat
    BY <2>1, <1>1
  <2>3. Half(x, (n - j) * ByteBits) \in Nat
    BY <2>2, Halved
  <2>4. tail(j) \in Nat
    BY <2>2, <2>3, Halved
  <2> QED BY <2>2, <2>3, <2>4
(* One byte more. *)
<1>5. ASSUME NEW j \in 1 .. n
      PROVE  tail(j) = tail(j - 1) * B + b[j]
  <2> DEFINE y == Half(x, (n - j) * ByteBits)
             k == (j - 1) * ByteBits
  <2>1. /\ j \in 0 .. n /\ j - 1 \in 0 .. n /\ y \in Nat /\ k \in Nat
        /\ (n - j) * ByteBits \in Nat
    BY <1>4
  <2>2. j * ByteBits = k + ByteBits
        /\ (n - (j - 1)) * ByteBits = ByteBits + (n - j) * ByteBits
    <3>1. j \in Int /\ n \in Int /\ ByteBits \in Int
      BY <1>1
    <3> QED BY <3>1
  <2>3. Half(y, ByteBits) = Half(x, (n - (j - 1)) * ByteBits)
    <3> DEFINE c == (n - j) * ByteBits
    <3>2. c \in Nat
      BY <2>1
    <3> HIDE DEF c
    <3>1. Half(Half(x, c), ByteBits) = Half(x, ByteBits + c)
      BY <3>2, <1>1, HalfTwice
    <3> QED BY <3>1, <2>2 DEF c
  <2>4. y % 2 ^ (k + ByteBits) = (Half(y, ByteBits) % 2 ^ k) * B + (y % B)
    <3> HIDE DEF y, k
    <3> QED BY <2>1, <1>1, CutTwice
  <2>5. b[j] = y % B
    BY BytesAre
  <2> QED BY <2>2, <2>3, <2>4, <2>5
<1>6. tail(0) = 0
  <2>1. 0 * ByteBits = 0
    BY <1>1
  <2>2. 2 ^ (0 * ByteBits) = 2 ^ 0
    BY <2>1, Zenon
  <2>3. 2 ^ 0 = 1
    OBVIOUS
  <2>4. Half(x, (n - 0) * ByteBits) \in Nat
    BY <1>4
  <2> DEFINE z == Half(x, (n - 0) * ByteBits)
  <2> HIDE DEF z
  <2>5. z % 1 = 0
    BY <2>4 DEF z
  <2> QED BY <2>2, <2>3, <2>5 DEF z
<1> HIDE DEF tail, all, b
<1>7. \A i \in m .. m + n : g[i] = f[m] * 2 ^ ((i - m) * ByteBits) + tail(i - m)
  <2> SUFFICES ASSUME NEW i \in m .. m + n
               PROVE  g[i] = f[m] * 2 ^ ((i - m) * ByteBits) + tail(i - m)
    OBVIOUS
  <2>1. CASE i = m
    <3>1. i - m = 0 /\ 0 * ByteBits = 0
      BY <2>1, <1>1
    <3>2. 2 ^ ((i - m) * ByteBits) = 2 ^ 0 /\ tail(i - m) = tail(0)
      BY <3>1, Zenon
    <3>3. 2 ^ 0 = 1
      OBVIOUS
    <3>4. g[i] = f[m] /\ f[m] \in Nat
      BY <2>1, <1>1, <1>3
    <3> HIDE DEF g
    <3> QED BY <3>2, <3>3, <3>4, <1>6
  <2>2. CASE i # m
    BY <2>2, <1>1
  <2> QED BY <2>1, <2>2
<1>8. \A i \in 0 .. m : g[i] = f[i]
  BY <1>1
<1>9. g \in [0 .. m + n -> Nat]
  <2> SUFFICES ASSUME NEW i \in 0 .. m + n PROVE g[i] \in Nat
    OBVIOUS
  <2>1. CASE i <= m
    BY <2>1, <1>1, <1>3, <1>8
  <2>2. CASE i > m
    <3>1. i - m \in 0 .. n /\ i \in m .. m + n /\ m \in 0 .. m
      BY <2>2, <1>1
    <3>2. /\ 2 ^ ((i - m) * ByteBits) \in Nat /\ tail(i - m) \in Nat
          /\ f[m] \in Nat
      BY <3>1, <1>3, <1>4, PowerPositive
    <3> DEFINE F == f[m]
               P == 2 ^ ((i - m) * ByteBits)
               t == tail(i - m)
    <3>3. g[i] = F * P + t
      BY <3>1, <1>7
    <3>4. F \in Nat /\ P \in Nat /\ t \in Nat
      BY <3>2
    <3> HIDE DEF g, F, P, t
    <3>5. F * P + t \in Nat
      BY <3>4
    <3> QED BY <3>3, <3>5
  <2> QED BY <2>1, <2>2, <1>1
<1> HIDE DEF g
<1>10. g[0] = 0
  BY <1>1, <1>8 DEF Prefixes
<1>11. ASSUME NEW i \in 1 .. m + n PROVE g[i] = g[i - 1] * B + all[i]
  <2>1. CASE i <= m
    <3>1. i \in 1 .. m /\ i \in 0 .. m /\ i - 1 \in 0 .. m
      BY <2>1, <1>1
    <3>2. f[i] = f[i - 1] * B + buf[i]
      BY <3>1 DEF Prefixes
    <3> QED BY <3>1, <3>2, <1>2, <1>8
  <2>2. CASE i > m
    <3> DEFINE j == i - m
    <3>1. /\ j \in 1 .. n /\ i \in m .. m + n /\ i - 1 \in m .. m + n /\ m + j = i
          /\ (i - 1) - m = j - 1 /\ j - 1 \in 0 .. n /\ j \in 0 .. n /\ m \in 0 .. m
      BY <2>2, <1>1
    <3>2. /\ g[i] = f[m] * 2 ^ (j * ByteBits) + tail(j)
          /\ g[i - 1] = f[m] * 2 ^ ((j - 1) * ByteBits) + tail(j - 1)
      BY <3>1, <1>7
    <3>3. all[i] = b[j]
      BY <3>1, <1>2
    <3> HIDE DEF j
    <3>4. 2 ^ (j * ByteBits) = 2 ^ ((j - 1) * ByteBits) * B
      <4>1. j * ByteBits = (j - 1) * ByteBits + ByteBits /\ (j - 1) * ByteBits \in Nat
        <5>1. j \in Int /\ ByteBits \in Int
          BY <1>1, <3>1
        <5>2. j * ByteBits = (j - 1) * ByteBits + ByteBits
          BY <5>1
        <5> QED BY <5>2, <3>1, <1>4
      <4> QED BY <4>1, <1>1, PowerAdds
    <3>5. tail(j) = tail(j - 1) * B + b[j]
      BY <3>1, <1>5
    <3> DEFINE F == f[m]
               P == 2 ^ ((j - 1) * ByteBits)
               t == tail(j - 1)
    <3>6. /\ F \in Nat /\ P \in Nat /\ t \in Nat /\ b[j] \in Nat
      <4>1. (j - 1) * ByteBits \in Nat /\ t \in Nat
        BY <3>1, <1>4
      <4>2. b[j] \in Byte
        BY <1>1, <3>1
      <4> QED BY <4>1, <4>2, <3>1, <1>3, ByteIs, PowerPositive
    <3> DEFINE y == b[j]
    <3>7. g[i] = F * (P * B) + (t * B + y) /\ g[i - 1] = F * P + t
      BY <3>2, <3>4, <3>5
    <3> HIDE DEF F, P, t, y, B
    <3>8. F * (P * B) + (t * B + y) = (F * P + t) * B + y
      BY <3>6, <1>1 DEF y
    <3> QED BY <3>3, <3>7, <3>8 DEF y
  <2> QED BY <2>1, <2>2, <1>1
<1>12. Prefixes(all, g)
  BY <1>2, <1>9, <1>10, <1>11 DEF Prefixes
<1>13. n * ByteBits \in Nat
  BY <1>1
<1>14. g[m + n] = f[m] * 2 ^ (n * ByteBits) + (x % 2 ^ (n * ByteBits))
  <2>1. m + n \in m .. m + n /\ (m + n) - m = n
    BY <1>1
  <2>2. g[m + n] = f[m] * 2 ^ (n * ByteBits) + tail(n)
    BY <2>1, <1>7
  <2>3. tail(n) = x % 2 ^ (n * ByteBits)
    <3>1. n - n = 0 /\ 0 * ByteBits = 0
      BY <1>1
    <3>2. Half(x, (n - n) * ByteBits) = Half(x, 0)
      BY <3>1, Zenon
    <3>3. Half(x, 0) = x
      <4>1. 2 ^ 0 = 1 /\ x \div 1 = x
        OBVIOUS
      <4> QED BY <4>1 DEF Half
    <3> QED BY <3>2, <3>3 DEF tail
  <2> QED BY <2>2, <2>3
<1> QED BY <1>2, <1>12, <1>13, <1>14 DEF all, b

LEMMA EmittedNumber ==
  ASSUME NEW buf \in Seq(Byte), NEW f, Prefixes(buf, f), NEW n \in Nat,
         NEW output \in Nat, output < 2 * 2 ^ (n * ByteBits), ~RunsOff(buf, output, n)
  PROVE  /\ Emitted(buf, output, n) \in Seq(Byte)
         /\ Len(Emitted(buf, output, n)) = Len(buf) + n
         /\ \E g : /\ Prefixes(Emitted(buf, output, n), g)
                   /\ g[Len(buf) + n] = f[Len(buf)] * 2 ^ (n * ByteBits) + output
<1> DEFINE e == n * ByteBits
           P == 2 ^ e
           h == Half(output, e)
           r == output % P
           all == Emitted(buf, output, n)
<1>1. e \in Nat /\ P \in Nat \ {0}
  <2>1. e \in Nat
    BY Widths
  <2> QED BY <2>1, PowerPositive
<1> HIDE DEF e
<1>2. h \in Nat /\ r \in Nat /\ output = h * P + r
  BY <1>1, Halved
<1>3. h = 0 \/ h = 1
  <2>1. h >= 2 <=> output >= 2 * P
    BY <1>1, HalfReaches
  <2>2. ~(output >= 2 * P)
    BY <1>1 DEF e
  <2> HIDE DEF h
  <2> QED BY <2>1, <2>2, <1>2
<1> HIDE DEF h, r, P
<1>4. f[Len(buf)] \in Nat /\ Len(buf) \in Nat
  BY DEF Prefixes
<1>5. CarryOut(output, n) <=> h = 1
  <2>1. 0 % 2 = 0 /\ 1 % 2 = 1
    OBVIOUS
  <2>2. CarryOut(output, n) <=> h % 2 = 1
    BY DEF CarryOut, h, e
  <2> QED BY <2>1, <2>2, <1>3
<1>6. CASE h = 1
  <2> DEFINE c == Carried(buf)
  <2>1. all = c \o Bytes(output, n)
    BY <1>5, <1>6 DEF Emitted
  <2>2. ~ \A i \in DOMAIN buf : buf[i] = ByteMax
    BY <1>5, <1>6 DEF RunsOff
  <2>3. /\ c \in Seq(Byte) /\ Len(c) = Len(buf)
        /\ \E g : Prefixes(c, g) /\ g[Len(buf)] = f[Len(buf)] + 1
    BY <2>2, CarryAddsOne
  <2> HIDE DEF c, all
  <2>4. PICK k : Prefixes(c, k) /\ k[Len(c)] = f[Len(buf)] + 1
    BY <2>3
  <2>5. /\ all \in Seq(Byte) /\ Len(all) = Len(buf) + n
        /\ \E g : /\ Prefixes(all, g)
                  /\ g[Len(buf) + n] = k[Len(c)] * 2 ^ (n * ByteBits)
                                         + (output % 2 ^ (n * ByteBits))
    <3>1. /\ c \o Bytes(output, n) \in Seq(Byte)
          /\ Len(c \o Bytes(output, n)) = Len(c) + n
          /\ \E g : /\ Prefixes(c \o Bytes(output, n), g)
                    /\ g[Len(c) + n] = k[Len(c)] * 2 ^ (n * ByteBits)
                                         + (output % 2 ^ (n * ByteBits))
      <4>1. c \in Seq(Byte)
        BY <2>3
      <4>2. Prefixes(c, k)
        BY <2>4
      <4> QED BY <4>1, <4>2, AppendedNumber
    <3> QED BY <3>1, <2>1, <2>3, Zenon
  <2>6. k[Len(c)] * 2 ^ (n * ByteBits) + (output % 2 ^ (n * ByteBits))
          = f[Len(buf)] * 2 ^ (n * ByteBits) + output
    <3> DEFINE F == f[Len(buf)]
    <3>1. F \in Nat /\ k[Len(c)] = F + 1 /\ output = 1 * P + r
      BY <1>2, <1>4, <1>6, <2>4
    <3> HIDE DEF F
    <3>2. (F + 1) * P + r = F * P + (1 * P + r)
      BY <3>1, <1>1, <1>2
    <3> QED BY <3>1, <3>2 DEF F, P, r, e
  <2> QED BY <2>5, <2>6 DEF all
<1>7. CASE h = 0
  <2>1. all = buf \o Bytes(output, n)
    BY <1>5, <1>7 DEF Emitted
  <2> HIDE DEF all
  <2>2. /\ all \in Seq(Byte) /\ Len(all) = Len(buf) + n
        /\ \E g : /\ Prefixes(all, g)
                  /\ g[Len(buf) + n] = f[Len(buf)] * 2 ^ (n * ByteBits)
                                         + (output % 2 ^ (n * ByteBits))
    BY <2>1, AppendedNumber
  <2>3. output = output % 2 ^ (n * ByteBits)
    <3>1. output = r
      BY <1>1, <1>2, <1>7
    <3> QED BY <3>1 DEF r, P, e
  <2> QED BY <2>2, <2>3 DEF all
<1> QED BY <1>3, <1>6, <1>7

-----------------------------------------------------------------------------
(* The encoder                                                             *)

Room == RBits + ByteBits

(* How many bits the encoder's number has so far, and where the interval it
   has narrowed to ends: its number and its range. *)
BitsOf(e) == ByteBits * Len(e.buf) + (e.cnt + Room)
TopOf(e, f) == f[Len(e.buf)] * 2 ^ (e.cnt + Room) + (e.low + e.rng)

(* The registers of the encoder, and what bounds its number: low keeps one bit
   for a carry, and the whole interval stays below 1. *)
EncOK(e, f) ==
  /\ e = [buf |-> e.buf, low |-> e.low, rng |-> e.rng, cnt |-> e.cnt]
  /\ e.buf \in Seq(Byte) /\ Prefixes(e.buf, f)
  /\ e.low \in Nat /\ e.rng \in Nat /\ Top <= e.rng /\ e.rng < 2 ^ RBits
  /\ e.cnt \in Int /\ -(ByteBits + 1) <= e.cnt /\ e.cnt < Window - Room
  /\ e.low + e.rng <= 2 ^ (e.cnt + Room + 1)
  /\ TopOf(e, f) <= 2 ^ BitsOf(e)

LEMMA RoomIs == Room \in Nat /\ Room = RBits + ByteBits /\ Room < Window
BY Widths DEF Room

LEMMA EncNumbers ==
  ASSUME NEW e, NEW f, EncOK(e, f)
  PROVE  /\ e.cnt + Room \in Nat /\ Len(e.buf) \in Nat /\ BitsOf(e) \in Nat
         /\ BitsOf(e) = ByteBits * Len(e.buf) + (e.cnt + Room)
         /\ f[Len(e.buf)] \in Nat /\ TopOf(e, f) \in Nat
         /\ 2 ^ BitsOf(e) = 2 ^ (Len(e.buf) * ByteBits) * 2 ^ (e.cnt + Room)
         /\ Len(e.buf) * ByteBits \in Nat
         /\ e.cnt + Room + 1 = (e.cnt + Room) + 1
         /\ 2 ^ (e.cnt + Room + 1) = 2 * 2 ^ (e.cnt + Room)
<1>1. e.cnt + Room \in Nat
  <2>1. e.cnt \in Int /\ -(ByteBits + 1) <= e.cnt
    BY DEF EncOK
  <2> QED BY <2>1, Widths, RoomIs
<1>2. Len(e.buf) \in Nat /\ f[Len(e.buf)] \in Nat
  BY DEF EncOK, Prefixes
<1>3. /\ ByteBits * Len(e.buf) \in Nat
      /\ Len(e.buf) * ByteBits = ByteBits * Len(e.buf)
  BY <1>2, Widths
<1>4. BitsOf(e) = Len(e.buf) * ByteBits + (e.cnt + Room) /\ BitsOf(e) \in Nat
  BY <1>1, <1>3 DEF BitsOf
<1>5. 2 ^ (Len(e.buf) * ByteBits + (e.cnt + Room))
        = 2 ^ (Len(e.buf) * ByteBits) * 2 ^ (e.cnt + Room)
  <2> DEFINE a == Len(e.buf) * ByteBits
             b == e.cnt + Room
  <2>1. a \in Nat /\ b \in Nat
    BY <1>1, <1>3
  <2> HIDE DEF a, b
  <2>2. 2 ^ (a + b) = 2 ^ a * 2 ^ b
    BY <2>1, PowerAdds
  <2> QED BY <2>2 DEF a, b
<1>6. TopOf(e, f) \in Nat
  <2> DEFINE F == f[Len(e.buf)]
             P == 2 ^ (e.cnt + Room)
             x == e.low + e.rng
  <2>1. F \in Nat /\ P \in Nat /\ x \in Nat
    BY <1>1, <1>2, PowerPositive DEF EncOK
  <2>2. TopOf(e, f) = F * P + x
    BY DEF TopOf
  <2> HIDE DEF F, P, x
  <2> QED BY <2>1, <2>2
<1>7. e.cnt + Room + 1 = (e.cnt + Room) + 1
  OBVIOUS
<1>8. 2 ^ ((e.cnt + Room) + 1) = 2 * 2 ^ (e.cnt + Room)
  BY <1>1, PowerDoubles
<1>9. BitsOf(e) = ByteBits * Len(e.buf) + (e.cnt + Room)
  BY DEF BitsOf
<1> QED BY <1>1, <1>2, <1>3, <1>4, <1>5, <1>6, <1>7, <1>8, <1>9

(* A carry into a buffer of full bytes would pass 1. *)
LEMMA NeverRunsOff ==
  ASSUME NEW e, NEW f, EncOK(e, f), NEW low \in Nat, NEW n \in Nat, NEW c \in Nat,
         c + n * ByteBits = e.cnt + Room,
         NEW x \in Nat, low < x, f[Len(e.buf)] * 2 ^ (e.cnt + Room) + x <= 2 ^ BitsOf(e)
  PROVE  ~RunsOff(e.buf, Half(low, c), n)
<1> SUFFICES ASSUME RunsOff(e.buf, Half(low, c), n) PROVE FALSE
  OBVIOUS
<1> DEFINE F == f[Len(e.buf)]
           P == 2 ^ (e.cnt + Room)
           A == 2 ^ (Len(e.buf) * ByteBits)
<1>1. F \in Nat /\ P \in Nat \ {0} /\ A \in Nat /\ 2 ^ BitsOf(e) = A * P
  BY EncNumbers, PowerPositive
<1>2. F + 1 = A
  <2>1. \A i \in DOMAIN e.buf : e.buf[i] = ByteMax
    BY DEF RunsOff
  <2>2. e.buf \in Seq(Byte) /\ Prefixes(e.buf, f)
    BY DEF EncOK
  <2> QED BY <2>1, <2>2, FullBytes
<1>3. low < P
  <2>1. F * P + x <= A * P
    BY <1>1
  <2> HIDE DEF F, P, A
  <2>2. A * P = F * P + P /\ F * P \in Nat
    <3>1. (F + 1) * P = F * P + P /\ F * P \in Nat
      BY <1>1
    <3> QED BY <3>1, <1>2
  <2> QED BY <2>1, <2>2, <1>1
<1>4. Half(Half(low, c), n * ByteBits) = Half(low, e.cnt + Room)
  <2>1. n * ByteBits \in Nat
    BY Widths
  <2> DEFINE b == n * ByteBits
  <2> HIDE DEF b
  <2>2. b \in Nat /\ b + c = e.cnt + Room
    <3>1. c + n * ByteBits = n * ByteBits + c
      BY <2>1
    <3> QED BY <2>1, <3>1 DEF b
  <2>3. Half(Half(low, c), b) = Half(low, b + c)
    BY <2>2, HalfTwice
  <2> QED BY <2>2, <2>3 DEF b
<1>5. Half(low, e.cnt + Room) = 0
  <2> DEFINE k == e.cnt + Room
  <2>1. k \in Nat
    BY EncNumbers
  <2> HIDE DEF k
  <2>2. Half(low, k) >= 1 <=> low >= 1 * 2 ^ k
    BY <2>1, HalfReaches
  <2>3. Half(low, k) \in Nat
    BY <2>1, Halved
  <2>4. 1 * 2 ^ k = P /\ ~(low >= P)
    <3> DEFINE K == 2 ^ k
    <3>1. P = K
      BY DEF k
    <3> HIDE DEF P, K
    <3>2. 1 * K = P /\ ~(low >= P)
      BY <3>1, <1>1, <1>3
    <3> QED BY <3>2 DEF K
  <2>5. Half(low, k) = 0
    BY <2>2, <2>3, <2>4
  <2> QED BY <2>5 DEF k
<1>6. 0 % 2 = 0
  OBVIOUS
<1> QED BY <1>4, <1>5, <1>6 DEF RunsOff, CarryOut

(* A word that fits is kept as it is. *)
LEMMA WrapFits ==
  ASSUME NEW x \in Nat, x < 2 ^ Window
  PROVE  Wrap(x) = x
<1>1. Window \in Nat
  BY Widths
<1>2. 0 * 2 ^ Window = 0 /\ 0 * 2 ^ Window + x = x
  BY <1>1, PowerPositive
<1>3. (0 * 2 ^ Window + x) % 2 ^ Window = x
  <2>1. 0 \in Nat
    OBVIOUS
  <2> QED BY <2>1, <1>1, HalvedIs
<1> QED BY <1>2, <1>3 DEF Wrap

(* normalize with nothing to put out: the whole number shifts. *)
LEMMA ShiftedInside ==
  ASSUME NEW e, NEW f, EncOK(e, f), NEW low \in Nat, NEW rng \in Nat \ {0},
         rng < 2 ^ RBits, low + rng <= e.low + e.rng,
         e.cnt + Deficit(rng) < Window - Room
  PROVE  LET d == Deficit(rng)
             next == [buf |-> e.buf, low |-> Wrap(low * 2 ^ d), rng |-> rng * 2 ^ d,
                      cnt |-> e.cnt + d]
         IN /\ EncOK(next, f)
            /\ TopOf(next, f) = (f[Len(e.buf)] * 2 ^ (e.cnt + Room) + (low + rng)) * 2 ^ d
            /\ BitsOf(next) = BitsOf(e) + d
<1> DEFINE d == Deficit(rng)
           D == 2 ^ d
           k == e.cnt + Room
           P == 2 ^ k
           F == f[Len(e.buf)]
           x == low + rng
           l == low * D
           next == [buf |-> e.buf, low |-> Wrap(l), rng |-> rng * D, cnt |-> e.cnt + d]
<1>1. /\ d \in Nat /\ Top <= rng * D /\ rng * D < 2 ^ RBits
  BY RangeFilled
<1>2. D \in Nat \ {0}
  BY <1>1, PowerPositive
<1>3. /\ k \in Nat /\ F \in Nat /\ P \in Nat \ {0} /\ BitsOf(e) \in Nat
      /\ TopOf(e, f) = F * P + (e.low + e.rng) /\ BitsOf(e) = ByteBits * Len(e.buf) + k
      /\ 2 ^ (e.cnt + Room + 1) = 2 * P
  BY EncNumbers, PowerPositive DEF TopOf
<1>4. /\ e.buf \in Seq(Byte) /\ Prefixes(e.buf, f) /\ e.low \in Nat /\ e.rng \in Nat
      /\ e.cnt \in Int /\ -(ByteBits + 1) <= e.cnt /\ e.low + e.rng <= 2 * P
      /\ TopOf(e, f) <= 2 ^ BitsOf(e)
  BY <1>3 DEF EncOK
<1>5. e.cnt + d < Window - Room
  OBVIOUS
<1>6. Room \in Nat /\ Window \in Nat /\ ByteBits \in Nat
  BY RoomIs, Widths
<1> HIDE DEF d
<1>7. /\ e.cnt + d \in Int /\ -(ByteBits + 1) <= e.cnt + d
      /\ (e.cnt + d) + Room = k + d /\ (e.cnt + d) + Room + 1 = (k + d) + 1
      /\ k + d \in Nat /\ (k + d) + 1 <= Window
  <2>1. d \in Nat /\ e.cnt + Room \in Nat
    BY <1>1, <1>3
  <2>2. e.cnt \in Int /\ -(ByteBits + 1) <= e.cnt
    BY <1>4
  <2> QED BY <2>1, <2>2, <1>5, <1>6
<1>8. 2 ^ (k + d) = P * D /\ 2 ^ ((k + d) + 1) = 2 * (P * D)
  <2>1. 2 ^ (k + d) = P * D
    BY <1>1, <1>3, PowerAdds
  <2> QED BY <2>1, <1>7, PowerDoubles
<1>9. 2 ^ ((k + d) + 1) <= 2 ^ Window
  <2>1. (k + d) + 1 \in Nat
    BY <1>7
  <2> QED BY <2>1, <1>6, <1>7, PowerGrows
<1>10. x \in Nat /\ x <= 2 * P /\ x <= e.low + e.rng
  <2>1. P \in Nat /\ e.low \in Nat /\ e.rng \in Nat /\ e.low + e.rng <= 2 * P
    BY <1>3, <1>4
  <2> HIDE DEF P
  <2> QED BY <2>1
<1> HIDE DEF D, k, P, F
<1>11. x * D = l + rng * D /\ x * D <= 2 * (P * D) /\ l \in Nat /\ rng * D \in Nat \ {0}
  <2>1. x * D <= (2 * P) * D
    <3>1. 2 * P \in Nat
      BY <1>3
    <3> QED BY <3>1, <1>2, <1>10, ProductOrdered
  <2>2. (2 * P) * D = 2 * (P * D)
    BY <1>2, <1>3
  <2>3. x * D = low * D + rng * D
    BY <1>2
  <2>4. rng * D # 0
    BY <1>1, Widths, <1>2
  <2>5. rng * D \in Nat /\ low * D \in Nat
    BY <1>2
  <2> QED BY <2>1, <2>2, <2>3, <2>4, <2>5
<1> DEFINE y == rng * D
<1>12. Wrap(l) = l
  <2>1. 2 * (P * D) <= 2 ^ Window
    BY <1>8, <1>9
  <2>2. 2 * (P * D) \in Nat /\ 2 ^ Window \in Nat
    BY <1>2, <1>3, <1>6, PowerPositive
  <2> HIDE DEF l, x
  <2>3. l < 2 ^ Window
    BY <2>1, <2>2, <1>11
  <2> QED BY <2>3, <1>11, WrapFits
<1>13. next = [buf |-> e.buf, low |-> l, rng |-> y, cnt |-> e.cnt + d]
  BY <1>12
<1>14. TopOf(next, f) = F * (P * D) + (l + y)
  <2> HIDE DEF l, y, next
  <2>1. /\ next.buf = e.buf /\ next.low = l /\ next.rng = y /\ next.cnt = e.cnt + d
    BY <1>13
  <2>2. TopOf(next, f) = f[Len(e.buf)] * 2 ^ ((e.cnt + d) + Room) + (l + y)
    BY <2>1 DEF TopOf
  <2> QED BY <2>2, <1>7, <1>8 DEF F
<1>15. TopOf(next, f) = (F * P + x) * D
  <2>1. (F * P + x) * D = F * (P * D) + x * D
    <3> HIDE DEF x
    <3> QED BY <1>2, <1>3, <1>10
  <2> QED BY <2>1, <1>11, <1>14
<1>16. BitsOf(next) = BitsOf(e) + d
  <2>1. ByteBits * Len(e.buf) \in Nat
    BY <1>4, <1>6
  <2>2. BitsOf(next) = ByteBits * Len(e.buf) + ((e.cnt + d) + Room)
    BY DEF BitsOf
  <2> DEFINE b == ByteBits * Len(e.buf)
  <2>3. /\ b \in Nat /\ k \in Nat /\ d \in Nat
        /\ BitsOf(next) = b + (k + d) /\ BitsOf(e) = b + k
    BY <2>1, <2>2, <1>1, <1>3, <1>7
  <2> HIDE DEF b, next
  <2> QED BY <2>3
<1>17. (F * P + x) * D <= 2 ^ (BitsOf(e) + d)
  <2>1. 2 ^ (BitsOf(e) + d) = 2 ^ BitsOf(e) * D
    BY <1>1, <1>3, PowerAdds DEF D
  <2>2. F * P \in Nat
    BY <1>3
  <2>3. 2 ^ BitsOf(e) \in Nat
    BY <1>3, PowerPositive
  <2>4. F * P + x \in Nat /\ F * P + x <= 2 ^ BitsOf(e)
    <3> DEFINE u == F * P
               w == 2 ^ BitsOf(e)
    <3>1. /\ u \in Nat /\ w \in Nat /\ u + (e.low + e.rng) <= w
          /\ e.low \in Nat /\ e.rng \in Nat /\ x \in Nat /\ x <= e.low + e.rng
      BY <2>2, <2>3, <1>3, <1>4, <1>10
    <3> HIDE DEF x, u, w
    <3>2. u + x \in Nat /\ u + x <= w
      BY <3>1
    <3> QED BY <3>2 DEF u, w
  <2> DEFINE z == F * P + x
             w == 2 ^ BitsOf(e)
  <2> HIDE DEF z, w
  <2>5. z * D <= w * D
    BY <2>3, <2>4, <1>2, ProductOrdered DEF z, w
  <2> QED BY <2>1, <2>5 DEF z, w
<1>18. EncOK(next, f)
  <2>1. /\ next.buf = e.buf /\ next.low = l /\ next.rng = y /\ next.cnt = e.cnt + d
        /\ next = [buf |-> next.buf, low |-> next.low, rng |-> next.rng, cnt |-> next.cnt]
    BY <1>13
  <2>2. TopOf(next, f) <= 2 ^ BitsOf(next)
    BY <1>15, <1>16, <1>17
  <2>3. next.low + next.rng <= 2 ^ (next.cnt + Room + 1)
    BY <2>1, <1>7, <1>8, <1>11
  <2> HIDE DEF next, l
  <2>4. /\ l \in Nat /\ y \in Nat /\ Top <= y /\ y < 2 ^ RBits
    BY <1>1, <1>11 DEF D
  <2> HIDE DEF y
  <2> QED BY <2>1, <2>2, <2>3, <2>4, <1>4, <1>5, <1>7 DEF EncOK
<1> QED BY <1>15, <1>16, <1>18 DEF F, P, D, k, d

(* normalize with bytes to put out: what they take leaves low. *)
LEMMA PutOut ==
  ASSUME NEW e, NEW f, EncOK(e, f), NEW low \in Nat, NEW rng \in Nat \ {0},
         rng < 2 ^ RBits, low + rng <= e.low + e.rng,
         ~ (e.cnt + Deficit(rng) < Window - Room)
  PROVE  LET d == Deficit(rng)
             n == (e.cnt + d) \div ByteBits + 1
             c == e.cnt + Room - n * ByteBits
             output == Half(low, c)
             next == [buf |-> Emitted(e.buf, output, n), low |-> Wrap(Kept(low, c) * 2 ^ d),
                      rng |-> rng * 2 ^ d, cnt |-> c + d - Room]
         IN /\ ~RunsOff(e.buf, output, n)
            /\ \E g : /\ EncOK(next, g)
                      /\ TopOf(next, g)
                           = (f[Len(e.buf)] * 2 ^ (e.cnt + Room) + (low + rng)) * 2 ^ d
            /\ BitsOf(next) = BitsOf(e) + d
<1> DEFINE d == Deficit(rng)
           D == 2 ^ d
           k == e.cnt + Room
           P == 2 ^ k
           F == f[Len(e.buf)]
           x == low + rng
           s == e.cnt + d
           n == s \div ByteBits + 1
           r == s % ByteBits
           b == n * ByteBits
           c == e.cnt + Room - b
           o == Half(low, c)
           q == low % 2 ^ c
           C == 2 ^ c
           N == 2 ^ b
           buf == Emitted(e.buf, o, n)
           next == [buf |-> buf, low |-> Wrap(q * D), rng |-> rng * D, cnt |-> c + d - Room]
<1>1. /\ d \in Nat /\ d <= RBits - 1 /\ Top <= rng * D /\ rng * D < 2 ^ RBits
      /\ rng <= 2 ^ (RBits - d)
  BY RangeFilled
<1>2. D \in Nat \ {0}
  BY <1>1, PowerPositive
<1>3. /\ k \in Nat /\ F \in Nat /\ P \in Nat \ {0} /\ BitsOf(e) \in Nat
      /\ TopOf(e, f) = F * P + (e.low + e.rng) /\ BitsOf(e) = ByteBits * Len(e.buf) + k
      /\ 2 ^ (e.cnt + Room + 1) = 2 * P /\ Len(e.buf) \in Nat
  BY EncNumbers, PowerPositive DEF TopOf
<1>4. /\ e.buf \in Seq(Byte) /\ Prefixes(e.buf, f) /\ e.low \in Nat /\ e.rng \in Nat
      /\ e.cnt \in Int /\ -(ByteBits + 1) <= e.cnt /\ e.low + e.rng <= 2 * P
      /\ TopOf(e, f) <= 2 ^ BitsOf(e)
  BY <1>3 DEF EncOK
<1>5. /\ Room \in Nat /\ Window \in Nat /\ ByteBits \in Nat \ {0} /\ RBits \in Nat
      /\ Room = RBits + ByteBits /\ Room < Window /\ RBits > ByteBits + 1
      /\ Window > 2 * RBits
  BY RoomIs, Widths
<1>6. s \in Nat /\ s >= Window - Room
  <2>1. d \in Nat /\ e.cnt \in Int /\ ~ (s < Window - Room)
    BY <1>1, <1>4
  <2> HIDE DEF d
  <2> QED BY <2>1, <1>5
<1>7. /\ n \in Nat /\ b \in Nat /\ r \in Nat /\ r < ByteBits /\ b = s - r + ByteBits
  <2> DEFINE t == s \div ByteBits
  <2> HIDE DEF s
  <2>1. t \in Nat /\ r \in Nat /\ r < ByteBits /\ s = t * ByteBits + r
    BY <1>5, <1>6, Remainder
  <2>2. n = t + 1
    OBVIOUS
  <2> HIDE DEF t, n, r
  <2>3. (t + 1) * ByteBits = t * ByteBits + ByteBits /\ t * ByteBits \in Nat
    BY <2>1, <1>5
  <2> QED BY <2>1, <2>2, <2>3, <1>5
<1> HIDE DEF d, n, r, b
<1>8. /\ c \in Nat /\ c = RBits - d + r /\ c + d = RBits + r /\ RBits - d \in Nat
      /\ RBits - d <= c /\ c + b = k
      /\ c + d - Room = r - ByteBits /\ (c + d - Room) + Room = c + d
      /\ c + d - Room + Room + 1 = (c + d) + 1
      /\ (c + d) + 1 <= Window
  <2>1. /\ d \in Nat /\ r \in Nat /\ r < ByteBits /\ b = (e.cnt + d) - r + ByteBits /\ d <= RBits - 1
    BY <1>1, <1>7
  <2>2. c = (e.cnt + Room) - b /\ e.cnt \in Int
    <3>1. e.cnt \in Int /\ Room \in Int /\ b \in Int
      BY <1>4, <1>5, <1>7
    <3> DEFINE z == e.cnt
    <3> HIDE DEF z
    <3>2. z + Room - b = (z + Room) - b
      BY <3>1 DEF z
    <3> QED BY <3>1, <3>2 DEF z
  <2> HIDE DEF c
  <2> QED BY <2>1, <2>2, <1>5
<1> HIDE DEF s, c
<1>9. P = N * C /\ C \in Nat \ {0} /\ N \in Nat \ {0}
  <2>1. 2 ^ (b + c) = N * C /\ b + c = k
    <3>1. b \in Nat /\ c \in Nat /\ c + b = k
      BY <1>7, <1>8
    <3> HIDE DEF k
    <3>2. 2 ^ (b + c) = 2 ^ b * 2 ^ c /\ b + c = k
      BY <3>1, PowerAdds
    <3> QED BY <3>2
  <2> QED BY <2>1, <1>7, <1>8, PowerPositive
<1>10. o \in Nat /\ q \in Nat /\ q < C /\ low = o * C + q
  BY <1>8, Halved
<1>11. x \in Nat /\ x <= 2 * P /\ x <= e.low + e.rng /\ low < x
  <2>1. P \in Nat /\ e.low \in Nat /\ e.rng \in Nat /\ e.low + e.rng <= 2 * P
    BY <1>3, <1>4
  <2> HIDE DEF P
  <2> QED BY <2>1
<1>12. o < 2 * N
  <2> DEFINE v == 2 * N
  <2>1. v \in Nat /\ v * C = 2 * P
    <3> HIDE DEF N, C, P
    <3>1. (2 * N) * C = 2 * (N * C)
      BY <1>9
    <3> QED BY <3>1, <1>9
  <2> HIDE DEF v
  <2>2. o >= v <=> low >= v * C
    BY <2>1, <1>8, HalfReaches
  <2>3. ~ (low >= 2 * P)
    <3> HIDE DEF P
    <3> QED BY <1>11, <1>3
  <2>4. ~ (o >= v)
    BY <2>1, <2>2, <2>3
  <2> HIDE DEF o, N
  <2>5. o < v
    BY <2>1, <2>4, <1>10
  <2> QED BY <2>5 DEF v

<1>13. ~RunsOff(e.buf, o, n)
  <2>1. f[Len(e.buf)] * 2 ^ (e.cnt + Room) + x <= 2 ^ BitsOf(e)
    <3> DEFINE u == F * P
               w == 2 ^ BitsOf(e)
    <3>1. u \in Nat /\ w \in Nat
      <4>1. F \in Nat /\ P \in Nat /\ BitsOf(e) \in Nat
        BY <1>3
      <4> HIDE DEF F, P
      <4> QED BY <4>1, PowerPositive
    <3>2. u + (e.low + e.rng) <= w
      BY <1>3, <1>4
    <3>3. e.low \in Nat /\ e.rng \in Nat /\ x \in Nat /\ x <= e.low + e.rng
      BY <1>4, <1>11
    <3> HIDE DEF u, w, x
    <3>4. u + x <= w
      BY <3>1, <3>2, <3>3
    <3> QED BY <3>4 DEF u, w
  <2>2. c + n * ByteBits = e.cnt + Room
    BY <1>8 DEF b
  <2> HIDE DEF x
  <2>3. ~RunsOff(e.buf, Half(low, c), n)
    BY <2>1, <2>2, <1>7, <1>8, <1>11, NeverRunsOff
  <2> QED BY <2>3
<1>14. /\ buf \in Seq(Byte) /\ Len(buf) = Len(e.buf) + n
       /\ \E g : Prefixes(buf, g) /\ g[Len(buf)] = F * N + o
  <2>1. o < 2 * 2 ^ (n * ByteBits)
    BY <1>12 DEF b
  <2> HIDE DEF o
  <2>2. /\ buf \in Seq(Byte) /\ Len(buf) = Len(e.buf) + n
        /\ \E g : Prefixes(buf, g) /\ g[Len(e.buf) + n] = F * 2 ^ (n * ByteBits) + o
    <3>1. e.buf \in Seq(Byte) /\ Prefixes(e.buf, f) /\ n \in Nat /\ o \in Nat
      BY <1>4, <1>7, <1>10
    <3> DEFINE eb == e.buf
    <3>2. /\ eb \in Seq(Byte) /\ Prefixes(eb, f) /\ n \in Nat /\ o \in Nat
          /\ o < 2 * 2 ^ (n * ByteBits) /\ ~RunsOff(eb, o, n)
      BY <3>1, <2>1, <1>13
    <3> HIDE DEF eb
    <3>3. /\ Emitted(eb, o, n) \in Seq(Byte) /\ Len(Emitted(eb, o, n)) = Len(eb) + n
          /\ \E g : /\ Prefixes(Emitted(eb, o, n), g)
                    /\ g[Len(eb) + n] = f[Len(eb)] * 2 ^ (n * ByteBits) + o
      BY <3>2, EmittedNumber
    <3> QED BY <3>3 DEF eb
  <2> QED BY <2>2 DEF b
<1> HIDE DEF buf
<1>15. PICK g : Prefixes(buf, g) /\ g[Len(buf)] = F * N + o
  BY <1>14
<1> HIDE DEF D, P, F, N, C, o, q, x
<1>16. /\ q * D \in Nat /\ rng * D \in Nat \ {0}
       /\ (q + rng) * D = q * D + rng * D
       /\ q * D + rng * D <= 2 * (C * D) /\ q * D < C * D
  <2>1. rng <= C
    <3>1. 2 ^ (RBits - d) <= C
      BY <1>8, PowerGrows DEF C
    <3>2. 2 ^ (RBits - d) \in Nat
      BY <1>8, PowerPositive
    <3> QED BY <3>1, <3>2, <1>1, <1>9
  <2>2. q + rng <= 2 * C /\ 2 * C \in Nat /\ q + rng \in Nat
    BY <2>1, <1>9, <1>10
  <2>3. (q + rng) * D <= (2 * C) * D
    BY <2>2, <1>2, ProductOrdered
  <2>4. (2 * C) * D = 2 * (C * D) /\ (q + rng) * D = q * D + rng * D
    BY <1>2, <1>9, <1>10
  <2>5. q * D < C * D
    BY <1>2, <1>9, <1>10, ProductStrict
  <2>6. rng * D \in Nat /\ q * D \in Nat /\ rng * D # 0
    <3>1. rng * D # 0
      BY <1>1, Widths
    <3> QED BY <3>1, <1>2, <1>10
  <2> QED BY <2>3, <2>4, <2>5, <2>6
<1>17. 2 ^ (c + d) = C * D /\ 2 ^ ((c + d) + 1) = 2 * (C * D)
       /\ 2 * (C * D) <= 2 ^ Window /\ C * D \in Nat
  <2>1. 2 ^ (c + d) = C * D
    BY <1>1, <1>8, PowerAdds DEF C, D
  <2>2. c + d \in Nat /\ (c + d) + 1 \in Nat
    BY <1>1, <1>8
  <2>3. 2 ^ ((c + d) + 1) = 2 * 2 ^ (c + d)
    BY <2>2, PowerDoubles
  <2>4. 2 ^ ((c + d) + 1) <= 2 ^ Window
    BY <2>2, <1>5, <1>8, PowerGrows
  <2> QED BY <2>1, <2>3, <2>4, <1>2, <1>9
<1>18. Wrap(q * D) = q * D
  <2> DEFINE l == q * D
             w == C * D
  <2>1. l \in Nat /\ w \in Nat /\ 2 ^ Window \in Nat /\ l < w /\ 2 * w <= 2 ^ Window
    BY <1>5, <1>16, <1>17, PowerPositive
  <2> HIDE DEF l, w
  <2>2. l < 2 ^ Window
    BY <2>1
  <2>3. Wrap(l) = l
    BY <2>1, <2>2, WrapFits
  <2> QED BY <2>3 DEF l
<1> DEFINE l == q * D
           y == rng * D
<1>19. next = [buf |-> buf, low |-> l, rng |-> y, cnt |-> c + d - Room]
  BY <1>18
<1>20. /\ next.buf = buf /\ next.low = l /\ next.rng = y /\ next.cnt = c + d - Room
       /\ next = [buf |-> next.buf, low |-> next.low, rng |-> next.rng, cnt |-> next.cnt]
  BY <1>19
<1> HIDE DEF next
<1>21. TopOf(next, g) = (F * P + x) * D
  <2>1. TopOf(next, g) = g[Len(buf)] * 2 ^ ((c + d - Room) + Room) + (l + y)
    BY <1>20 DEF TopOf
  <2>2. TopOf(next, g) = (F * N + o) * (C * D) + (q + rng) * D
    BY <2>1, <1>8, <1>15, <1>16, <1>17
  <2>3. (F * N + o) * (C * D) = (F * (N * C) + o * C) * D
    BY <1>2, <1>3, <1>9, <1>10
  <2>4. (F * (N * C) + o * C) * D + (q + rng) * D = (F * (N * C) + o * C + (q + rng)) * D
    <3> DEFINE u == F * (N * C)
               v == o * C
    <3>1. u \in Nat /\ v \in Nat
      BY <1>3, <1>9, <1>10
    <3> HIDE DEF u, v
    <3>2. (u + v) * D + (q + rng) * D = (u + v + (q + rng)) * D
      BY <3>1, <1>2, <1>10
    <3> QED BY <3>2 DEF u, v
  <2>5. F * (N * C) + o * C + (q + rng) = F * P + x
    <3> DEFINE u == F * P
               v == o * C
    <3>1. u \in Nat /\ v \in Nat /\ F * (N * C) = u /\ low = v + q /\ x = low + rng
      BY <1>3, <1>9, <1>10 DEF x
    <3> HIDE DEF u, v
    <3>2. u + v + (q + rng) = u + x
      BY <3>1, <1>10
    <3> QED BY <3>1, <3>2 DEF u, v
  <2> QED BY <2>2, <2>3, <2>4, <2>5
<1>22. BitsOf(next) = BitsOf(e) + d
  <2>1. BitsOf(next) = ByteBits * (Len(e.buf) + n) + ((c + d - Room) + Room)
    BY <1>14, <1>20 DEF BitsOf
  <2>2. ByteBits * (Len(e.buf) + n) = ByteBits * Len(e.buf) + b
    <3> DEFINE t == Len(e.buf)
    <3>1. t \in Nat /\ n \in Nat /\ ByteBits \in Nat
      BY <1>3, <1>5, <1>7
    <3> HIDE DEF t
    <3>2. ByteBits * (t + n) = ByteBits * t + n * ByteBits
      BY <3>1
    <3> QED BY <3>2 DEF t, b
  <2> DEFINE m == ByteBits * Len(e.buf)
  <2>3. /\ m \in Nat /\ b \in Nat /\ c \in Nat /\ d \in Nat /\ c + b = k
        /\ BitsOf(next) = (m + b) + (c + d) /\ BitsOf(e) = m + k
    <3>1. m \in Nat
      <4> DEFINE z == Len(e.buf)
      <4>1. z \in Nat /\ ByteBits \in Nat
        BY <1>3, <1>5
      <4> HIDE DEF z
      <4>2. ByteBits * z \in Nat
        BY <4>1
      <4> QED BY <4>2 DEF z
    <3>2. b \in Nat /\ c \in Nat /\ d \in Nat /\ c + b = k
      BY <1>1, <1>7, <1>8
    <3>3. BitsOf(next) = (m + b) + (c + d)
      BY <2>1, <2>2, <1>8
    <3>4. BitsOf(e) = m + k
      BY <1>3
    <3> QED BY <3>1, <3>2, <3>3, <3>4
  <2> HIDE DEF m, k
  <2> QED BY <2>3
<1>23. (F * P + x) * D <= 2 ^ (BitsOf(e) + d)
  <2>1. 2 ^ (BitsOf(e) + d) = 2 ^ BitsOf(e) * D
    BY <1>1, <1>3, PowerAdds DEF D
  <2> DEFINE u == F * P
             w == 2 ^ BitsOf(e)
  <2>2. u \in Nat /\ w \in Nat /\ u + (e.low + e.rng) <= w
    BY <1>3, <1>4, PowerPositive
  <2> HIDE DEF u, w
  <2>3. u + x \in Nat /\ u + x <= w
    BY <2>2, <1>4, <1>11
  <2> DEFINE z == u + x
  <2> HIDE DEF z
  <2>4. z * D <= w * D
    BY <2>2, <2>3, <1>2, ProductOrdered DEF z
  <2> QED BY <2>1, <2>4 DEF z, u, w
<1>24. EncOK(next, g)
  <2>1. TopOf(next, g) <= 2 ^ BitsOf(next)
    BY <1>21, <1>22, <1>23
  <2>2. next.low + next.rng <= 2 ^ (next.cnt + Room + 1)
    <3>1. next.low + next.rng = l + y
      BY <1>20
    <3>2. 2 ^ (next.cnt + Room + 1) = 2 * (C * D)
      BY <1>8, <1>17, <1>20
    <3> QED BY <3>1, <3>2, <1>16
  <2>3. /\ l \in Nat /\ y \in Nat /\ Top <= y /\ y < 2 ^ RBits
    BY <1>1, <1>16 DEF D
  <2>4. /\ c + d - Room \in Int /\ -(ByteBits + 1) <= c + d - Room
        /\ c + d - Room < Window - Room
    <3> DEFINE t == c + d - Room
    <3>1. t = r - ByteBits
      BY <1>8
    <3> HIDE DEF t
    <3>2. t \in Int /\ -(ByteBits + 1) <= t /\ t < Window - Room
      BY <3>1, <1>5, <1>7
    <3> QED BY <3>2 DEF t
  <2> HIDE DEF l, y
  <2>5. next.low \in Nat /\ next.rng \in Nat /\ Top <= next.rng /\ next.rng < 2 ^ RBits
    BY <2>3, <1>20
  <2>6. /\ next.cnt \in Int /\ -(ByteBits + 1) <= next.cnt
        /\ next.cnt < Window - Room
    BY <2>4, <1>20
  <2>7. next.buf \in Seq(Byte) /\ Prefixes(next.buf, g)
    BY <1>14, <1>15, <1>20
  <2>8. next = [buf |-> next.buf, low |-> next.low, rng |-> next.rng, cnt |-> next.cnt]
    BY <1>20
  <2> QED BY <2>1, <2>2, <2>5, <2>6, <2>7, <2>8 DEF EncOK
<1>25. \E h : EncOK(next, h) /\ TopOf(next, h) = (F * P + x) * D
  BY <1>21, <1>24
<1> QED
  BY <1>13, <1>22, <1>25 DEF next, buf, F, P, x, D, q, o, c, s, d, n, b, Kept

(* x is what normalize makes of an encoder e whose number now ends at T, with
   the range rng: the number as a whole shifts until the range is full. *)
Settles(x, e, T, rng) ==
  /\ x.lost = FALSE
  /\ x.next.rng = rng * 2 ^ Deficit(rng)
  /\ BitsOf(x.next) = BitsOf(e) + Deficit(rng)
  /\ \E g : EncOK(x.next, g) /\ TopOf(x.next, g) = T * 2 ^ Deficit(rng)

LEMMA NormalizedOK ==
  ASSUME NEW e, NEW f, EncOK(e, f), NEW low \in Nat, NEW rng \in Nat \ {0},
         rng < 2 ^ RBits, low + rng <= e.low + e.rng
  PROVE  Settles(Normalized(e, low, rng), e,
                 f[Len(e.buf)] * 2 ^ (e.cnt + Room) + (low + rng), rng)
<1> DEFINE d == Deficit(rng)
           n == (e.cnt + d) \div ByteBits + 1
           c == e.cnt + Room - n * ByteBits
           output == Half(low, c)
           in == [buf |-> e.buf, low |-> Wrap(low * 2 ^ d), rng |-> rng * 2 ^ d,
                  cnt |-> e.cnt + d]
           out == [buf |-> Emitted(e.buf, output, n), low |-> Wrap(Kept(low, c) * 2 ^ d),
                   rng |-> rng * 2 ^ d, cnt |-> c + d - Room]
           x == Normalized(e, low, rng)
           t == f[Len(e.buf)] * 2 ^ (e.cnt + Room) + (low + rng)
           T == t * 2 ^ d
<1>1. x = IF e.cnt + d < Window - Room THEN [next |-> in, lost |-> FALSE]
          ELSE [next |-> out, lost |-> RunsOff(e.buf, output, n)]
  BY DEF Normalized, Room
<1>2. CASE e.cnt + d < Window - Room
  <2>1. EncOK(in, f) /\ TopOf(in, f) = T /\ BitsOf(in) = BitsOf(e) + d
    BY <1>2, ShiftedInside
  <2>2. in.rng = rng * 2 ^ d
    OBVIOUS
  <2> HIDE DEF in, x, T, d
  <2>3. x.next = in /\ x.lost = FALSE
    BY <1>1, <1>2
  <2> QED BY <2>1, <2>2, <2>3 DEF x, T, d, Settles
<1>3. CASE ~ (e.cnt + d < Window - Room)
  <2>1. /\ ~RunsOff(e.buf, output, n)
        /\ \E g : EncOK(out, g) /\ TopOf(out, g) = T
        /\ BitsOf(out) = BitsOf(e) + d
    BY <1>3, PutOut
  <2>2. out.rng = rng * 2 ^ d
    OBVIOUS
  <2> DEFINE off == RunsOff(e.buf, output, n)
  <2>3. off = FALSE
    <3>1. off \in BOOLEAN
      BY DEF RunsOff
    <3> QED BY <2>1, <3>1
  <2> HIDE DEF off, in, out, x, T, d
  <2>4. x.next = out /\ x.lost = FALSE
    BY <1>1, <1>3, <2>3 DEF off
  <2> QED BY <2>1, <2>2, <2>4 DEF x, T, d, Settles
<1> QED BY <1>2, <1>3

(* A symbol narrows the encoder's interval to the symbol's part, and makes it
   full again: what is above the part comes off the top. *)
LEMMA SymbolEncoded ==
  ASSUME NEW e, NEW f, EncOK(e, f), NEW cdf, Good(cdf), NEW s \in 0 .. cdf.n - 1
  PROVE  Settles(EncodedSymbol(e, cdf, s), e, TopOf(e, f) - Lower(e.rng, cdf, s),
                 Upper(e.rng, cdf, s) - Lower(e.rng, cdf, s))
<1> DEFINE v == Lower(e.rng, cdf, s)
           u == Upper(e.rng, cdf, s)
           w == u - v
           x == EncodedSymbol(e, cdf, s)
           F == f[Len(e.buf)] * 2 ^ (e.cnt + Room)
           n == cdf.n
<1>1. /\ e.low \in Nat /\ e.rng \in Nat /\ Top <= e.rng /\ e.rng < 2 ^ RBits
      /\ e.cnt \in Int /\ e.cnt < Window - Room
      /\ e.low + e.rng <= 2 ^ (e.cnt + Room + 1)
  BY DEF EncOK
<1>2. /\ v \in Nat /\ u \in Nat /\ v < u /\ u <= e.rng
  BY <1>1, EverySymbolHasRange
<1>3. n \in Nat \ {0} /\ s \in 0 .. n - 1
  BY GoodContext
<1>4. F \in Nat /\ TopOf(e, f) = F + (e.low + e.rng)
  <2>1. f[Len(e.buf)] \in Nat /\ e.cnt + Room \in Nat
    BY EncNumbers
  <2>2. 2 ^ (e.cnt + Room) \in Nat
    BY <2>1, PowerPositive
  <2> QED BY <2>1, <2>2 DEF TopOf
<1>5. e.low + e.rng <= 2 ^ Window
  <2>1. e.cnt + Room \in Nat /\ e.cnt + Room + 1 = (e.cnt + Room) + 1
    BY EncNumbers
  <2>2. (e.cnt + Room) + 1 \in Nat /\ (e.cnt + Room) + 1 <= Window /\ Window \in Nat
    BY <2>1, <1>1, RoomIs, Widths
  <2>3. 2 ^ ((e.cnt + Room) + 1) <= 2 ^ Window
    BY <2>2, PowerGrows
  <2>4. 2 ^ ((e.cnt + Room) + 1) \in Nat /\ 2 ^ Window \in Nat
    BY <2>2, PowerPositive
  <2> DEFINE p == 2 ^ ((e.cnt + Room) + 1)
             q == 2 ^ Window
  <2>5. p \in Nat /\ q \in Nat /\ p <= q /\ e.low + e.rng <= p
    BY <2>1, <2>3, <2>4, <1>1
  <2> HIDE DEF p, q
  <2>6. e.low + e.rng <= q
    BY <2>5, <1>1
  <2> QED BY <2>6 DEF q
<1> HIDE DEF u, v, F
<1>6. w \in Nat \ {0} /\ w < 2 ^ RBits
  <2>1. 2 ^ RBits \in Nat
    BY Widths, PowerPositive
  <2> QED BY <2>1, <1>1, <1>2
<1>7. \E l \in Nat : /\ x = Normalized(e, l, w)
                     /\ l + w = (e.low + e.rng) - v
  <2>1. CASE s = 0
    <3>1. u = e.rng
      BY <2>1 DEF u, Upper
    <3>2. x = Normalized(e, e.low, e.rng - v)
      <4>1. ~ (Top < Top)
        BY Widths
      <4>2. v = Split(e.rng, cdf.icdf[s], cdf.n - 1 - s)
        BY DEF v, Lower
      <4>3. ~ (s > 0)
        BY <2>1
      <4>4. x = Encoded(e, Top, cdf.icdf[s], s, cdf.n)
        BY <4>3 DEF EncodedSymbol
      <4> HIDE DEF x
      <4> QED BY <4>1, <4>2, <4>4 DEF Encoded
    <3>3. e.low + w = (e.low + e.rng) - v
      BY <3>1, <1>1, <1>2
    <3> QED BY <3>1, <3>2, <3>3, <1>1
  <2>2. CASE s # 0
    <3>1. s > 0 /\ s - 1 \in 0 .. n - 1 /\ n - 1 - (s - 1) = n - s
      BY <2>2, <1>3
    <3>2. cdf.icdf[s - 1] \in Nat /\ cdf.icdf[s - 1] < Top
      BY <3>1, GoodContext
    <3>3. u = Split(e.rng, cdf.icdf[s - 1], n - s)
      BY <2>2, <3>1 DEF u, Upper, Lower
    <3>4. v = Split(e.rng, cdf.icdf[s], cdf.n - 1 - s)
      BY DEF v, Lower
    <3>5. x = Encoded(e, cdf.icdf[s - 1], cdf.icdf[s], s, cdf.n)
      BY <3>1 DEF EncodedSymbol
    <3>6. x = Normalized(e, Wrap(e.low + e.rng - u), w)
      <4> HIDE DEF x
      <4> QED BY <3>2, <3>3, <3>4, <3>5 DEF Encoded
    <3> DEFINE l == (e.low + e.rng) - u
    <3>7. e.low + e.rng - u = l /\ l \in Nat /\ l < 2 ^ Window /\ l + w = (e.low + e.rng) - v
      <4> DEFINE q == 2 ^ Window
                 a == e.low
                 b == e.rng
      <4>1. a \in Nat /\ b \in Nat /\ u \in Nat /\ v \in Nat /\ v < u /\ u <= b
            /\ a + b <= q /\ q \in Nat
        BY <1>1, <1>2, <1>5, Widths, PowerPositive
      <4> HIDE DEF a, b, q
      <4>2. a + b - u = (a + b) - u /\ (a + b) - u \in Nat /\ (a + b) - u < q
            /\ ((a + b) - u) + (u - v) = (a + b) - v
        BY <4>1
      <4> QED BY <4>2 DEF a, b, q
    <3> HIDE DEF l
    <3>8. Wrap(l) = l
      BY <3>7, WrapFits
    <3>9. x = Normalized(e, l, w)
      BY <3>6, <3>7, <3>8
    <3> QED BY <3>7, <3>9
  <2> QED BY <2>1, <2>2
<1> HIDE DEF x, w
<1>8. PICK l \in Nat : x = Normalized(e, l, w) /\ l + w = (e.low + e.rng) - v
  BY <1>7
<1>9. l + w <= e.low + e.rng
  BY <1>1, <1>2, <1>8
<1>10. Settles(Normalized(e, l, w), e, F + (l + w), w)
  BY <1>6, <1>9, NormalizedOK DEF F
<1>11. F + (l + w) = TopOf(e, f) - v
  BY <1>1, <1>2, <1>4, <1>8
<1> QED BY <1>8, <1>10, <1>11 DEF x, w, u, v

(* The flush takes a multiple of a quarter of the full range that lies in the
   encoder's interval. *)
LEMMA FlushInside ==
  ASSUME NEW low \in Nat
  PROVE  /\ FlushValue(low) \in Nat /\ low <= FlushValue(low) /\ FlushValue(low) < low + Top
         /\ \E k \in Nat : FlushValue(low) = k * 2 ^ (RBits - 2)
<1> DEFINE m == 2 ^ (RBits - 2)
           h == (low + m - 1) \div m
           up == h * m
<1>1. RBits - 2 \in Nat /\ (RBits - 2) + 1 = RBits - 1 /\ Top = 2 ^ (RBits - 1)
  BY Widths
<1>2. m \in Nat \ {0}
  BY <1>1, PowerPositive
<1>3. Top = 2 * m
  <2>1. 2 ^ ((RBits - 2) + 1) = 2 * 2 ^ (RBits - 2)
    BY <1>1, PowerDoubles
  <2> QED BY <2>1, <1>1
<1> HIDE DEF m
<1>4. low + m - 1 \in Nat
  BY <1>2
<1>5. /\ h \in Nat /\ (low + m - 1) % m \in Nat /\ (low + m - 1) % m < m
      /\ low + m - 1 = h * m + ((low + m - 1) % m)
  <2> DEFINE y == low + m - 1
  <2>1. y \in Nat
    BY <1>4
  <2> HIDE DEF y
  <2>2. y \div m \in Nat /\ y % m \in Nat /\ y % m < m /\ y = (y \div m) * m + (y % m)
    BY <2>1, <1>2, Remainder
  <2> QED BY <2>2 DEF y
<1> DEFINE r == (low + m - 1) % m
<1> HIDE DEF h, r
<1>6. up \in Nat /\ low <= up /\ up < low + m
  <2>1. up \in Nat
    BY <1>2, <1>5
  <2>2. r \in Nat /\ r < m /\ low + m - 1 = up + r
    BY <1>5 DEF r
  <2> HIDE DEF up
  <2> QED BY <1>2, <2>1, <2>2
<1>7. FlushValue(low) = IF (up \div m) % 2 = 1 THEN up ELSE up + m
  BY DEF FlushValue, m, h
<1>8. (h + 1) * m = up + m
  BY <1>2, <1>5
<1>9. h + 1 \in Nat
  BY <1>5
<1> DEFINE F == FlushValue(low)
<1>10. (F = up /\ F = h * m) \/ (F = up + m /\ F = (h + 1) * m)
  BY <1>7, <1>8
<1>11. \E k \in Nat : F = k * m
  BY <1>5, <1>9, <1>10
<1>12. F \in Nat /\ low <= F /\ F < low + 2 * m
  <2> HIDE DEF F, up
  <2> QED BY <1>2, <1>6, <1>10
<1> QED BY <1>3, <1>11, <1>12 DEF m

(* The whole buffer, as a number, lies in the encoder's last interval; C is
   the number, bits and M the lengths of the two. *)
Within(C, M, top, rng, bits) ==
  /\ (top - rng) * 2 ^ M <= C * 2 ^ bits
  /\ C * 2 ^ bits < top * 2 ^ M

LEMMA Flushed ==
  ASSUME NEW e, NEW f, EncOK(e, f)
  PROVE  LET output == FlushOutput(e)
             n == FlushBytes(e)
             buf == Emitted(e.buf, output, n)
         IN /\ ~RunsOff(e.buf, output, n)
            /\ buf \in Seq(Byte)
            /\ \E g : /\ Prefixes(buf, g)
                      /\ Within(g[Len(buf)], ByteBits * Len(buf), TopOf(e, f), e.rng, BitsOf(e))
<1> DEFINE k == e.cnt + Room
           P == 2 ^ k
           V == f[Len(e.buf)]
           F == FlushValue(e.low)
           n == FlushBytes(e)
           b == n * ByteBits
           c == k - b
           o == Half(F, c)
           X == 2 ^ c
           N == 2 ^ b
           x == e.low + e.rng
           buf == Emitted(e.buf, o, n)
<1>1. /\ k \in Nat /\ V \in Nat /\ P \in Nat \ {0} /\ BitsOf(e) \in Nat
      /\ TopOf(e, f) = V * P + x /\ BitsOf(e) = ByteBits * Len(e.buf) + k
      /\ 2 ^ (e.cnt + Room + 1) = 2 * P /\ Len(e.buf) \in Nat
      /\ Len(e.buf) * ByteBits \in Nat
  BY EncNumbers, PowerPositive DEF TopOf
<1>2. /\ e.buf \in Seq(Byte) /\ Prefixes(e.buf, f) /\ e.low \in Nat /\ e.rng \in Nat
      /\ e.cnt \in Int /\ -(ByteBits + 1) <= e.cnt /\ x <= 2 * P
      /\ TopOf(e, f) <= 2 ^ BitsOf(e) /\ Top <= e.rng
  BY <1>1 DEF EncOK
<1>3. /\ Room \in Nat /\ ByteBits \in Nat \ {0} /\ RBits \in Nat
      /\ Room = RBits + ByteBits /\ RBits > ByteBits + 1 /\ Top \in Nat \ {0}
  BY RoomIs, Widths
<1>20. e.cnt \in Int /\ -(ByteBits + 1) <= e.cnt /\ ByteBits \in Nat \ {0}
  BY <1>2, <1>3
<1>21. e.low \in Nat /\ e.rng \in Nat /\ Top <= e.rng /\ Top \in Nat
  BY <1>2, <1>3
<1>4. /\ n \in Nat /\ b \in Nat /\ e.cnt + ByteBits + 2 <= b /\ b <= e.cnt + 2 * ByteBits + 1
  <2> DEFINE y == e.cnt + ByteBits + 2 + ByteBits - 1
             r == y % ByteBits
  <2>1. y \in Nat /\ y = e.cnt + 2 * ByteBits + 1
    BY <1>20
  <2>2. n = y \div ByteBits
    BY DEF FlushBytes
  <2> HIDE DEF y
  <2>3. n \in Nat /\ r \in Nat /\ r < ByteBits /\ y = n * ByteBits + r
    BY <2>1, <2>2, <1>3, Remainder
  <2>4. n * ByteBits \in Nat
    BY <2>3, <1>3
  <2> HIDE DEF n, r
  <2>5. e.cnt + ByteBits + 2 <= b /\ b <= e.cnt + 2 * ByteBits + 1
    <3>1. b \in Nat /\ y = b + r /\ r \in Nat /\ r < ByteBits
      BY <2>3, <2>4
    <3> HIDE DEF b
    <3> QED BY <3>1, <2>1, <1>20
  <2> QED BY <2>3, <2>4, <2>5
<1> HIDE DEF n
<1>5. /\ c \in Nat /\ c <= RBits - 2 /\ RBits - 2 \in Nat /\ c + b = k
      /\ RBits - 2 - c \in Nat /\ (RBits - 2 - c) + c = RBits - 2
      /\ e.cnt + RBits - (n - 1) * ByteBits = c
  <2>1. (n - 1) * ByteBits = b - ByteBits
    BY <1>3, <1>4
  <2>2. e.cnt \in Int /\ b \in Nat /\ e.cnt + ByteBits + 2 <= b /\ b <= e.cnt + 2 * ByteBits + 1
    BY <1>2, <1>4
  <2> HIDE DEF b
  <2> QED BY <2>1, <2>2, <1>3
<1> HIDE DEF b
<1>6. FlushOutput(e) = o
  BY <1>5 DEF FlushOutput, n
<1> HIDE DEF c
<1>7. /\ F \in Nat /\ e.low <= F /\ F < e.low + Top /\ \E j \in Nat : F = j * 2 ^ (RBits - 2)
  BY <1>2, FlushInside
<1>8. F < x /\ x \in Nat
  <2>1. F \in Nat /\ F < e.low + Top
    BY <1>7
  <2> HIDE DEF F
  <2> QED BY <2>1, <1>21
<1>9. P = N * X /\ X \in Nat \ {0} /\ N \in Nat \ {0}
  <2>1. 2 ^ (b + c) = N * X
    BY <1>4, <1>5, PowerAdds
  <2>2. b + c = k
    <3> HIDE DEF k
    <3> QED BY <1>4, <1>5
  <2>3. X \in Nat \ {0} /\ N \in Nat \ {0}
    BY <1>4, <1>5, PowerPositive
  <2> QED BY <2>1, <2>2, <2>3
<1>10. F = o * X /\ o \in Nat
  <2>1. PICK j \in Nat : F = j * 2 ^ (RBits - 2)
    BY <1>7
  <2> DEFINE t == RBits - 2 - c
             Z == 2 ^ t
             y == j * Z
  <2>2. 2 ^ (t + c) = Z * X
    BY <1>5, PowerAdds
  <2>3. Z \in Nat
    BY <1>5, PowerPositive
  <2>4. 2 ^ (RBits - 2) = Z * X
    BY <2>2, <1>5
  <2> HIDE DEF Z, X, F
  <2>5. y \in Nat /\ F = y * X
    BY <2>1, <2>3, <2>4, <1>9
  <2> HIDE DEF y
  <2>6. 0 < 2 ^ c /\ 0 \in Nat
    BY <1>9 DEF X
  <2>7. Half(y * 2 ^ c + 0, c) = y
    BY <2>5, <2>6, <1>5, HalvedIs
  <2>8. y * 2 ^ c + 0 = F
    BY <2>5, <1>7 DEF X
  <2> QED BY <2>5, <2>7, <2>8
<1>11. o < 2 * N
  <2> DEFINE v == 2 * N
  <2>1. v \in Nat /\ v * X = 2 * P
    <3> HIDE DEF N, X, P
    <3>1. (2 * N) * X = 2 * (N * X)
      BY <1>9
    <3> QED BY <3>1, <1>9
  <2> HIDE DEF v
  <2>2. o >= v <=> F >= v * X
    BY <2>1, <1>5, <1>7, HalfReaches
  <2>3. ~ (F >= 2 * P)
    <3> HIDE DEF P, F, x
    <3> QED BY <1>1, <1>2, <1>7, <1>8
  <2>4. ~ (o >= v)
    BY <2>1, <2>2, <2>3
  <2> HIDE DEF o, N
  <2>5. o < v
    BY <2>1, <2>4, <1>10
  <2> QED BY <2>5 DEF v
<1>12. ~RunsOff(e.buf, o, n)
  <2>1. f[Len(e.buf)] * 2 ^ (e.cnt + Room) + x <= 2 ^ BitsOf(e)
    BY <1>1, <1>2
  <2>2. c + n * ByteBits = e.cnt + Room
    BY <1>5 DEF b
  <2> HIDE DEF x, F
  <2>3. ~RunsOff(e.buf, Half(F, c), n)
    BY <2>1, <2>2, <1>4, <1>5, <1>7, <1>8, NeverRunsOff
  <2> QED BY <2>3
<1>13. /\ buf \in Seq(Byte) /\ Len(buf) = Len(e.buf) + n
       /\ \E g : Prefixes(buf, g) /\ g[Len(buf)] = V * N + o
  <2> HIDE DEF o
  <2> DEFINE eb == e.buf
  <2>1. /\ eb \in Seq(Byte) /\ Prefixes(eb, f) /\ n \in Nat /\ o \in Nat
        /\ o < 2 * 2 ^ (n * ByteBits) /\ ~RunsOff(eb, o, n)
    BY <1>2, <1>4, <1>10, <1>11, <1>12 DEF b
  <2> HIDE DEF eb
  <2>2. /\ Emitted(eb, o, n) \in Seq(Byte) /\ Len(Emitted(eb, o, n)) = Len(eb) + n
        /\ \E g : /\ Prefixes(Emitted(eb, o, n), g)
                  /\ g[Len(eb) + n] = f[Len(eb)] * 2 ^ (n * ByteBits) + o
    BY <2>1, EmittedNumber
  <2> QED BY <2>2 DEF eb, b
<1> HIDE DEF buf
<1>14. PICK g : Prefixes(buf, g) /\ g[Len(buf)] = V * N + o
  BY <1>13
<1> DEFINE C == V * N + o
           M == ByteBits * Len(buf)
           bits == BitsOf(e)
           L == 2 ^ (Len(e.buf) * ByteBits)
<1> HIDE DEF P, V, N, X, o, F, x
<1>15. 2 ^ M = L * N /\ 2 ^ bits = L * P /\ L \in Nat \ {0} /\ 2 ^ M \in Nat \ {0}
  <2> DEFINE a == Len(e.buf) * ByteBits
             z == Len(e.buf)
  <2>1. M = a + b
    <3>1. z \in Nat /\ n \in Nat /\ ByteBits \in Nat /\ M = ByteBits * (z + n)
      BY <1>1, <1>3, <1>4, <1>13
    <3> HIDE DEF z, M
    <3>2. ByteBits * (z + n) = z * ByteBits + n * ByteBits
      BY <3>1
    <3> QED BY <3>1, <3>2 DEF z, b
  <2>2. a \in Nat /\ a + b \in Nat
    <3>1. a \in Nat /\ b \in Nat
      BY <1>1, <1>4
    <3> HIDE DEF a
    <3> QED BY <3>1
  <2> HIDE DEF a
  <2>3. 2 ^ (a + b) = 2 ^ a * 2 ^ b
    BY <2>2, <1>4, PowerAdds
  <2>4. 2 ^ bits = 2 ^ a * P
    BY EncNumbers DEF a, P
  <2>5. 2 ^ a \in Nat \ {0} /\ 2 ^ (a + b) \in Nat \ {0}
    BY <2>2, PowerPositive
  <2> QED BY <2>1, <2>3, <2>4, <2>5 DEF a, N
<1> HIDE DEF L
<1>16. C * 2 ^ bits = (V * P + F) * 2 ^ M
  <2>1. C * (L * (N * X)) = (V * (N * X) + o * X) * (L * N)
    BY <1>1, <1>9, <1>10, <1>15
  <2> QED BY <2>1, <1>9, <1>10, <1>15
<1>17. (TopOf(e, f) - e.rng) * 2 ^ M <= (V * P + F) * 2 ^ M
  <2> DEFINE u == V * P
  <2>1. u \in Nat
    BY <1>1
  <2>2. TopOf(e, f) = u + (e.low + e.rng)
    BY <1>1 DEF x
  <2> HIDE DEF u
  <2>3. TopOf(e, f) - e.rng = u + e.low /\ u + e.low <= u + F /\ u + e.low \in Nat /\ u + F \in Nat
    <3>1. F \in Nat /\ e.low <= F
      BY <1>7
    <3> QED BY <3>1, <2>1, <2>2, <1>21
  <2> DEFINE p == u + e.low
             q == u + F
             w == 2 ^ M
  <2>4. p \in Nat /\ q \in Nat /\ p <= q /\ w \in Nat
    BY <2>3, <1>15
  <2> HIDE DEF p, q, w
  <2>5. p * w <= q * w
    BY <2>4, ProductOrdered
  <2> QED BY <2>3, <2>5 DEF p, q, w, u
<1>18. (V * P + F) * 2 ^ M < TopOf(e, f) * 2 ^ M
  <2> DEFINE u == V * P
             w == 2 ^ M
             p == u + F
             q == u + x
  <2>1. u \in Nat /\ w \in Nat \ {0} /\ TopOf(e, f) = q
    BY <1>1, <1>15
  <2> HIDE DEF u, w
  <2>2. p \in Nat /\ q \in Nat /\ p < q
    BY <2>1, <1>7, <1>8
  <2> HIDE DEF p, q
  <2>3. p * w < q * w
    BY <2>1, <2>2, ProductStrict
  <2> QED BY <2>1, <2>3 DEF p, q, w, u
<1>19. Within(g[Len(buf)], M, TopOf(e, f), e.rng, bits)
  BY <1>14, <1>16, <1>17, <1>18 DEF Within
<1> HIDE DEF M, bits, n
<1> QED BY <1>6, <1>12, <1>13, <1>14, <1>19 DEF buf, M, bits, n

-----------------------------------------------------------------------------
(* The exclusive or, over ones                                             *)

(* The lowest k + 1 bits are bit k and the lowest k. *)
LEMMA NextBit ==
  ASSUME NEW x \in Nat, NEW k \in Nat
  PROVE  /\ Half(x, k) % 2 \in {0, 1}
         /\ x % 2 ^ (k + 1) = (Half(x, k) % 2) * 2 ^ k + (x % 2 ^ k)
<1>1. x % 2 ^ (1 + k) = (Half(x, k) % 2 ^ 1) * 2 ^ k + (x % 2 ^ k)
  BY CutTwice
<1>2. 2 ^ 1 = 2 /\ 1 + k = k + 1
  <2>1. 2 ^ (0 + 1) = 2 * 2 ^ 0 /\ 2 ^ 0 = 1 /\ 0 + 1 = 1
    BY PowerDoubles
  <2> QED BY <2>1
<1>3. Half(x, k) % 2 \in {0, 1}
  <2>1. Half(x, k) \in Nat
    BY Halved
  <2> QED BY <2>1
<1> QED BY <1>1, <1>2, <1>3

(* A number that is one short of a multiple of 2^m has ones below bit m. *)
LEMMA OnesBelow ==
  ASSUME NEW x \in Nat, NEW m \in Nat, NEW q \in Nat, x + 1 = q * 2 ^ m,
         NEW k \in Nat, k < m
  PROVE  Half(x, k) % 2 = 1
<1> DEFINE t == m - k - 1
           T == 2 ^ t
           K == 2 ^ k
           z == q * T
<1>1. t \in Nat /\ t + (k + 1) = m /\ k + 1 \in Nat
  OBVIOUS
<1>2. 2 ^ m = T * (2 * K) /\ T \in Nat /\ K \in Nat \ {0}
  <2> HIDE DEF t
  <2>1. 2 ^ (t + (k + 1)) = 2 ^ t * 2 ^ (k + 1)
    BY <1>1, PowerAdds
  <2>2. 2 ^ (k + 1) = 2 * 2 ^ k
    BY PowerDoubles
  <2>3. 2 ^ t \in Nat /\ 2 ^ k \in Nat \ {0}
    BY <1>1, PowerPositive
  <2> QED BY <1>1, <2>1, <2>2, <2>3
<1> HIDE DEF T, K, t
<1>3. x + 1 = z * (2 * K) /\ z \in Nat
  BY <1>2
<1>4. z # 0
  BY <1>3, <1>2
<1> HIDE DEF z
<1> DEFINE h == 2 * (z - 1) + 1
<1>5. h \in Nat /\ h % 2 = 1
  BY <1>3, <1>4
<1>6. h * K + (K - 1) = x
  <2>1. h * K = z * (2 * K) - K
    BY <1>2, <1>3
  <2>2. z * (2 * K) \in Nat
    BY <1>2, <1>3
  <2> DEFINE w == z * (2 * K)
             v == h * K
  <2>3. w \in Nat /\ v = w - K /\ x + 1 = w
    BY <1>3, <2>1, <2>2
  <2> HIDE DEF w, v
  <2>4. v + (K - 1) = x
    BY <2>3, <1>2
  <2> QED BY <2>4 DEF v
<1> HIDE DEF h
<1>7. K - 1 \in Nat /\ K - 1 < 2 ^ k
  BY <1>2 DEF K
<1>8. Half(h * 2 ^ k + (K - 1), k) = h
  BY <1>5, <1>7, HalvedIs
<1>9. h * 2 ^ k + (K - 1) = x
  BY <1>6 DEF K
<1> QED BY <1>5, <1>8, <1>9

LEMMA NothingAbove ==
  ASSUME NEW y \in Nat, NEW k \in Nat, y < 2 ^ k
  PROVE  Half(y, k) = 0 /\ y % 2 ^ k = y
<1>1. 0 \in Nat /\ 0 * 2 ^ k + y = y
  BY PowerPositive
<1>2. Half(0 * 2 ^ k + y, k) = 0 /\ (0 * 2 ^ k + y) % 2 ^ k = y
  BY <1>1, HalvedIs
<1> QED BY <1>1, <1>2

(* Over ones, an exclusive or takes away. *)
LEMMA XorTakesAway ==
  ASSUME NEW x \in Nat, x < 2 ^ Window, NEW m \in Nat, m <= Window,
         NEW y \in Nat, y < 2 ^ m, NEW q \in Nat, x + 1 = q * 2 ^ m
  PROVE  Xor(x, y) = x - y /\ x - y \in Nat
<1> DEFINE a(k) == Half(x, k) % 2
           b(k) == Half(y, k) % 2
           Eq(h) == h = [k \in 0 .. Window |->
                           IF k = 0 THEN 0
                           ELSE h[k - 1] + 2 ^ (k - 1) * ((a(k - 1) + b(k - 1)) % 2)]
           low == CHOOSE h : Eq(h)
           G(k) == (x % 2 ^ k) - (y % 2 ^ k)
<1>1. Window \in Nat
  BY Widths
<1>2. Xor(x, y) = low[Window]
  BY DEF Xor
<1>3. G(0) = 0
  <2>1. 2 ^ 0 = 1 /\ x % 1 = 0 /\ y % 1 = 0
    OBVIOUS
  <2> QED BY <2>1
<1>4. \A k \in Nat : a(k) \in {0, 1} /\ b(k) \in {0, 1} /\ (a(k) + b(k)) % 2 = a(k) - b(k)
  <2> SUFFICES ASSUME NEW k \in Nat
               PROVE  a(k) \in {0, 1} /\ b(k) \in {0, 1} /\ (a(k) + b(k)) % 2 = a(k) - b(k)
    OBVIOUS
  <2>1. a(k) \in {0, 1} /\ b(k) \in {0, 1}
    BY NextBit
  <2>2. a(k) = 1 \/ b(k) = 0
    <3>1. CASE k < m
      BY <3>1, OnesBelow
    <3>2. CASE ~ (k < m)
      <4>1. 2 ^ m <= 2 ^ k /\ 2 ^ m \in Nat /\ 2 ^ k \in Nat
        BY <3>2, PowerGrows, PowerPositive
      <4>2. y < 2 ^ k
        BY <4>1
      <4>3. Half(y, k) = 0 /\ 0 % 2 = 0
        BY <4>2, NothingAbove
      <4> QED BY <4>3
    <3> QED BY <3>1, <3>2
  <2> DEFINE u == a(k)
             v == b(k)
  <2>3. u \in {0, 1} /\ v \in {0, 1} /\ (u = 1 \/ v = 0)
    BY <2>1, <2>2
  <2> HIDE DEF u, v
  <2>4. (u + v) % 2 = u - v
    <3>1. 0 % 2 = 0 /\ 1 % 2 = 1 /\ 2 % 2 = 0
      OBVIOUS
    <3>2. (u = 0 /\ v = 0) \/ (u = 1 /\ v = 0) \/ (u = 1 /\ v = 1)
      BY <2>3
    <3> QED BY <3>1, <3>2
  <2> QED BY <2>1, <2>4 DEF u, v
<1>5. \A k \in Nat : G(k) \in Int /\ G(k + 1) = G(k) + 2 ^ k * ((a(k) + b(k)) % 2)
  <2> SUFFICES ASSUME NEW k \in Nat
               PROVE  G(k) \in Int /\ G(k + 1) = G(k) + 2 ^ k * ((a(k) + b(k)) % 2)
    OBVIOUS
  <2> DEFINE u == a(k)
             v == b(k)
             K == 2 ^ k
             s == x % 2 ^ k
             t == y % 2 ^ k
             w == (a(k) + b(k)) % 2
  <2>1. /\ x % 2 ^ (k + 1) = u * K + s /\ y % 2 ^ (k + 1) = v * K + t
        /\ u \in {0, 1} /\ v \in {0, 1}
    BY NextBit
  <2>2. K \in Nat /\ s \in Nat /\ t \in Nat
    BY PowerPositive, Halved
  <2>3. w = u - v
    BY <1>4
  <2>4. G(k) = s - t /\ G(k + 1) = (u * K + s) - (v * K + t)
    BY <2>1
  <2> HIDE DEF u, v, K, s, t, w, a, b, G
  <2>5. (u * K + s) - (v * K + t) = (s - t) + K * (u - v) /\ s - t \in Int
    BY <2>1, <2>2
  <2>6. G(k) \in Int /\ G(k + 1) = G(k) + K * w
    BY <2>3, <2>4, <2>5
  <2> QED BY <2>6 DEF K, w, u, v
<1> HIDE DEF G, a, b
<1>6. Eq(low)
  <2> DEFINE g == [k \in 0 .. Window |-> G(k)]
  <2>1. \A k \in 0 .. Window :
           g[k] = IF k = 0 THEN 0
                  ELSE g[k - 1] + 2 ^ (k - 1) * ((a(k - 1) + b(k - 1)) % 2)
    <3> SUFFICES ASSUME NEW k \in 0 .. Window
                 PROVE  g[k] = IF k = 0 THEN 0
                               ELSE g[k - 1] + 2 ^ (k - 1) * ((a(k - 1) + b(k - 1)) % 2)
      OBVIOUS
    <3>1. CASE k = 0
      BY <3>1, <1>3
    <3>2. CASE k # 0
      <4>1. k - 1 \in Nat /\ k - 1 \in 0 .. Window /\ (k - 1) + 1 = k
        BY <3>2, <1>1
      <4>2. G((k - 1) + 1) = G(k - 1) + 2 ^ (k - 1) * ((a(k - 1) + b(k - 1)) % 2)
        BY <4>1, <1>5
      <4>3. g[k] = G(k) /\ g[k - 1] = G(k - 1)
        BY <4>1
      <4> HIDE DEF g
      <4> QED BY <4>1, <4>2, <4>3, <3>2
    <3> QED BY <3>1, <3>2
  <2>2. Eq(g)
    <3> DEFINE e == [k \in 0 .. Window |->
                       IF k = 0 THEN 0
                       ELSE g[k - 1] + 2 ^ (k - 1) * ((a(k - 1) + b(k - 1)) % 2)]
    <3>1. \A k \in 0 .. Window : g[k] = e[k]
      BY <2>1
    <3>2. g = [k \in 0 .. Window |-> g[k]] /\ e = [k \in 0 .. Window |-> e[k]]
      OBVIOUS
    <3> HIDE DEF g, e
    <3>3. g = e
      BY <3>1, <3>2
    <3> QED BY <3>3 DEF e
  <2> HIDE DEF g, Eq
  <2>3. \E h : Eq(h)
    BY <2>2
  <2> QED BY <2>3, Zenon
<1> HIDE DEF low
<1>7. \A k \in 0 .. Window :
         low[k] = IF k = 0 THEN 0
                  ELSE low[k - 1] + 2 ^ (k - 1) * ((a(k - 1) + b(k - 1)) % 2)
  BY <1>6
<1> DEFINE S == {k \in Nat : k <= Window => low[k] = G(k)}
<1>8. 0 \in S
  BY <1>1, <1>3, <1>7
<1>9. \A k \in Nat : k \in S => k + 1 \in S
  <2> SUFFICES ASSUME NEW k \in Nat, k \in S, k + 1 <= Window PROVE low[k + 1] = G(k + 1)
    OBVIOUS
  <2>1. k + 1 \in 0 .. Window /\ k + 1 # 0 /\ (k + 1) - 1 = k /\ k <= Window
    BY <1>1
  <2>2. low[k] = G(k)
    BY <2>1
  <2>3. low[k + 1] = low[k] + 2 ^ k * ((a(k) + b(k)) % 2)
    BY <2>1, <1>7
  <2> QED BY <2>2, <2>3, <1>5
<1> HIDE DEF S
<1>10. Window \in S
  BY <1>1, <1>8, <1>9, SetInduction
<1>11. low[Window] = G(Window)
  BY <1>1, <1>10 DEF S
<1>12. y < 2 ^ Window /\ y <= x
  <2>1. 2 ^ m <= 2 ^ Window /\ 2 ^ m \in Nat \ {0} /\ 2 ^ Window \in Nat
    BY <1>1, PowerGrows, PowerPositive
  <2>2. q # 0
    <3>1. 0 * 2 ^ m = 0
      BY <2>1
    <3> QED BY <3>1
  <2>3. 1 * 2 ^ m <= q * 2 ^ m
    BY <2>1, <2>2, ProductOrdered
  <2> DEFINE M == 2 ^ m
             w == q * 2 ^ m
  <2>4. M \in Nat /\ M <= w /\ x + 1 = w /\ y < M
    BY <2>1, <2>3
  <2> HIDE DEF M, w
  <2>5. y <= x
    BY <2>4
  <2>6. y < 2 ^ Window
    BY <2>1
  <2> QED BY <2>5, <2>6
<1>13. G(Window) = x - y
  BY <1>1, <1>12, NothingAbove DEF G
<1> QED BY <1>2, <1>11, <1>12, <1>13

-----------------------------------------------------------------------------
(* The trace of a tile: the interval before and after every item           *)

LEMMA HalfProbGood ==
  Good(HalfProb) /\ HalfProb.n = 2
<1> DEFINE g == [i \in 0 .. 1 |-> IF i = 0 THEN Top \div 2 ELSE 0]
           c == HalfProb
<1>1. Top \in Nat \ {0} /\ MinProb \in Nat \ {0} /\ MinProb < 2 ^ ProbShift
  BY Widths, CoderAssumption
<1>2. Top \div 2 \in Nat /\ Top \div 2 < Top
  BY <1>1
<1>3. c = [icdf |-> g, n |-> 2, count |-> 0]
  BY DEF HalfProb
<1>4. c.icdf = g /\ c.n = 2 /\ c.count = 0 /\ 2 - 1 = 1
  BY <1>3
<1>5. g[0] = Top \div 2 /\ g[1] = 0
  OBVIOUS
<1> HIDE DEF c
<1>6. g = [i \in 0 .. 1 |-> g[i]]
  OBVIOUS
<1> HIDE DEF g
<1>7. Stored(c)
  <2>1. c.n \in Nat \ {0} /\ c.count \in 0 .. 32
    BY <1>4
  <2>2. c = [icdf |-> [i \in 0 .. c.n - 1 |-> c.icdf[i]], n |-> c.n, count |-> c.count]
    BY <1>3, <1>4, <1>6
  <2> QED BY <2>1, <2>2 DEF Stored
<1>8. Legal(c)
  <2>1. c.icdf[c.n - 1] = 0
    BY <1>4, <1>5
  <2>2. \A i \in 0 .. c.n - 1 : c.icdf[i] \in 0 .. Top - 1
    <3> TAKE i \in 0 .. c.n - 1
    <3>1. i = 0 \/ i = 1
      BY <1>4
    <3> QED BY <3>1, <1>1, <1>2, <1>4, <1>5
  <2>3. \A i \in 1 .. c.n - 1 : c.icdf[i] <= c.icdf[i - 1]
    <3> TAKE i \in 1 .. c.n - 1
    <3>1. i = 1 /\ 1 - 1 = 0
      BY <1>4
    <3> QED BY <3>1, <1>1, <1>2, <1>4, <1>5
  <2> QED BY <2>1, <2>2, <2>3 DEF Legal
<1>9. MinProb * (c.n - 1) < 2 ^ ProbShift
  <2>1. MinProb * (c.n - 1) = MinProb
    BY <1>1, <1>4
  <2> QED BY <2>1, <1>1
<1> QED BY <1>4, <1>7, <1>8, <1>9 DEF Good, c

(* A mark is where the coder stands between two items: the end of the interval
   and its length, as a number of so many bits, and the context. *)
MarkOK(m) ==
  /\ m.top \in Nat /\ m.rng \in Nat /\ m.bits \in Nat
  /\ Top <= m.rng /\ m.rng < 2 ^ RBits /\ m.rng <= m.top
  /\ Good(m.ctx)

ItemCdf(m, item) == IF item.kind = "symbol" THEN m.ctx ELSE HalfProb
LowOf(m, item) == Lower(m.rng, ItemCdf(m, item), item.val)
HighOf(m, item) == Upper(m.rng, ItemCdf(m, item), item.val)
DefOf(m, item) == Deficit(HighOf(m, item) - LowOf(m, item))

(* The mark after an item. *)
Follows(a, b, item, ad) ==
  /\ item.val \in 0 .. ItemCdf(a, item).n - 1
  /\ b.top = (a.top - LowOf(a, item)) * 2 ^ DefOf(a, item)
  /\ b.rng = (HighOf(a, item) - LowOf(a, item)) * 2 ^ DefOf(a, item)
  /\ b.bits = a.bits + DefOf(a, item)
  /\ b.ctx = IF item.kind = "symbol" /\ ad THEN UpdateCdf(a.ctx, item.val) ELSE a.ctx

FirstMark(ctx) ==
  [top |-> 2 ^ (RBits - 1), rng |-> 2 ^ (RBits - 1), bits |-> RBits - 1, ctx |-> ctx]

(* h holds the marks of these items, from the first context on. *)
Trace(h, its, ad, ctx) ==
  /\ h[0] = FirstMark(ctx)
  /\ \A i \in 0 .. Len(its) : MarkOK(h[i])
  /\ \A i \in 0 .. Len(its) - 1 : Follows(h[i], h[i + 1], its[i + 1], ad)

LEMMA ItemPart ==
  ASSUME NEW a, MarkOK(a), NEW item, item.val \in 0 .. ItemCdf(a, item).n - 1
  PROVE  /\ Good(ItemCdf(a, item))
         /\ LowOf(a, item) \in Nat /\ HighOf(a, item) \in Nat
         /\ LowOf(a, item) < HighOf(a, item) /\ HighOf(a, item) <= a.rng
         /\ HighOf(a, item) - LowOf(a, item) \in Nat \ {0}
         /\ HighOf(a, item) - LowOf(a, item) < 2 ^ RBits
         /\ DefOf(a, item) \in Nat /\ DefOf(a, item) <= RBits - 1
         /\ 2 ^ DefOf(a, item) \in Nat \ {0}
         /\ Top <= (HighOf(a, item) - LowOf(a, item)) * 2 ^ DefOf(a, item)
         /\ (HighOf(a, item) - LowOf(a, item)) * 2 ^ DefOf(a, item) < 2 ^ RBits
<1> DEFINE cdf == ItemCdf(a, item)
           v == LowOf(a, item)
           u == HighOf(a, item)
           w == u - v
           d == DefOf(a, item)
<1>1. Good(cdf)
  BY HalfProbGood DEF ItemCdf, MarkOK
<1>2. a.rng \in Nat /\ Top <= a.rng /\ a.rng < 2 ^ RBits
  BY DEF MarkOK
<1>3. v \in Nat /\ u \in Nat /\ v < u /\ u <= a.rng
  BY <1>1, <1>2, EverySymbolHasRange DEF LowOf, HighOf
<1> HIDE DEF u, v
<1>4. w \in Nat \ {0} /\ w < 2 ^ RBits
  <2>1. 2 ^ RBits \in Nat
    BY Widths, PowerPositive
  <2> QED BY <2>1, <1>2, <1>3
<1>5. d = Deficit(w)
  BY DEF DefOf, u, v
<1> HIDE DEF w, d
<1>6. d \in Nat /\ d <= RBits - 1 /\ Top <= w * 2 ^ d /\ w * 2 ^ d < 2 ^ RBits
  BY <1>4, <1>5, RangeFilled
<1>7. 2 ^ d \in Nat \ {0}
  BY <1>6, PowerPositive
<1> QED BY <1>1, <1>3, <1>4, <1>6, <1>7 DEF w, u, v, d

(* What follows a mark is a mark. *)
LEMMA NextMark ==
  ASSUME NEW a, MarkOK(a), NEW b, NEW item, NEW ad, Follows(a, b, item, ad)
  PROVE  MarkOK(b)
<1> DEFINE v == LowOf(a, item)
           u == HighOf(a, item)
           w == u - v
           D == 2 ^ DefOf(a, item)
<1>1. /\ v \in Nat /\ u \in Nat /\ v < u /\ u <= a.rng /\ w \in Nat /\ D \in Nat \ {0}
      /\ Top <= w * D /\ w * D < 2 ^ RBits /\ DefOf(a, item) \in Nat
  BY ItemPart DEF Follows
<1>2. a.top \in Nat /\ a.rng <= a.top /\ a.rng \in Nat /\ a.bits \in Nat
  BY DEF MarkOK
<1>3. b.top = (a.top - v) * D /\ b.rng = w * D /\ b.bits = a.bits + DefOf(a, item)
  BY DEF Follows
<1>4. Good(b.ctx)
  <2>1. CASE item.kind = "symbol" /\ ad
    <3>1. b.ctx = UpdateCdf(a.ctx, item.val) /\ item.val \in 0 .. a.ctx.n - 1
      BY <2>1 DEF Follows, ItemCdf
    <3>2. Good(a.ctx)
      BY DEF MarkOK
    <3> QED BY <3>1, <3>2, AdaptationKeepsLegal
  <2>2. CASE ~ (item.kind = "symbol" /\ ad)
    BY <2>2 DEF Follows, MarkOK
  <2> QED BY <2>1, <2>2
<1> HIDE DEF u, v, D
<1>5. a.top - v \in Nat /\ w <= a.top - v
  BY <1>1, <1>2
<1> HIDE DEF w
<1>6. w * D <= (a.top - v) * D
  BY <1>1, <1>5, ProductOrdered
<1>7. (a.top - v) * D \in Nat /\ w * D \in Nat
  BY <1>1, <1>5
<1>8. a.bits + DefOf(a, item) \in Nat
  BY <1>1, <1>2
<1> QED BY <1>1, <1>3, <1>4, <1>6, <1>7, <1>8 DEF MarkOK

(* The number C of M bits lies below v from the end of the interval. *)
Below(C, M, m, v) == C * 2 ^ m.bits < (m.top - v) * 2 ^ M

(* If the number lies in what an item leaves of the interval, it lies in the
   item's part of the whole one. *)
LEMMA StepBack ==
  ASSUME NEW a, MarkOK(a), NEW b, NEW item, NEW ad, Follows(a, b, item, ad),
         NEW C \in Nat, NEW M \in Nat, Within(C, M, b.top, b.rng, b.bits)
  PROVE  /\ Below(C, M, a, LowOf(a, item)) /\ ~Below(C, M, a, HighOf(a, item))
         /\ Within(C, M, a.top, a.rng, a.bits)
<1> DEFINE v == LowOf(a, item)
           u == HighOf(a, item)
           d == DefOf(a, item)
           D == 2 ^ d
           K == 2 ^ M
           E == 2 ^ a.bits
<1>1. /\ v \in Nat /\ u \in Nat /\ v < u /\ u <= a.rng /\ D \in Nat \ {0} /\ d \in Nat
  BY ItemPart DEF Follows
<1>2. a.top \in Nat /\ a.rng <= a.top /\ a.rng \in Nat /\ a.bits \in Nat
  BY DEF MarkOK
<1>3. b.top = (a.top - v) * D /\ b.rng = (u - v) * D /\ b.bits = a.bits + d
  BY DEF Follows
<1>4. 2 ^ b.bits = E * D /\ E \in Nat \ {0} /\ K \in Nat \ {0}
  BY <1>1, <1>2, <1>3, PowerAdds, PowerPositive
<1>5. (b.top - b.rng) * K <= C * (E * D) /\ C * (E * D) < b.top * K
  BY <1>4 DEF Within
<1> HIDE DEF u, v, d, D, K, E
<1> DEFINE p == a.top - u
           q == a.top - v
           r == a.top - a.rng
           X == C * E
<1>6. /\ p \in Nat /\ q \in Nat /\ r \in Nat /\ r <= p /\ q <= a.top /\ X \in Nat
      /\ q - (u - v) = p
  BY <1>1, <1>2, <1>4
<1>7. C * (E * D) = X * D
  BY <1>1, <1>4
<1>8. b.top - b.rng = p * D
  <2>1. q * D - (u - v) * D = (q - (u - v)) * D
    <3> HIDE DEF q
    <3> QED BY <1>1, <1>6
  <2> HIDE DEF p
  <2> QED BY <2>1, <1>3, <1>6
<1>9. (p * K) * D <= X * D /\ X * D < (q * K) * D
  <2> HIDE DEF p, q, X
  <2>1. (p * D) * K = (p * K) * D /\ (q * D) * K = (q * K) * D
    BY <1>1, <1>4, <1>6
  <2> QED BY <2>1, <1>3, <1>5, <1>7, <1>8 DEF q
<1> HIDE DEF p, q, X, r
<1>10. p * K \in Nat /\ q * K \in Nat /\ r * K \in Nat /\ a.top * K \in Nat
  BY <1>2, <1>4, <1>6
<1>11. X < q * K
  <2> DEFINE y == q * K
  <2>1. y \in Nat /\ X * D < y * D
    BY <1>9, <1>10
  <2> HIDE DEF y
  <2>2. X < y
    BY <2>1, <1>1, <1>6, ProductStrict
  <2> QED BY <2>2 DEF y
<1>12. p * K <= X
  <2> DEFINE y == p * K
  <2>1. y \in Nat /\ y * D <= X * D
    BY <1>9, <1>10
  <2> HIDE DEF y
  <2>2. X < y <=> X * D < y * D
    BY <2>1, <1>1, <1>6, ProductStrict
  <2>3. X * D \in Nat /\ y * D \in Nat
    BY <2>1, <1>1, <1>6
  <2>4. ~ (X < y)
    BY <2>1, <2>2, <2>3
  <2>5. y <= X
    BY <2>1, <2>4, <1>6
  <2> QED BY <2>5 DEF y
<1>13. r * K <= p * K /\ q * K <= a.top * K
  BY <1>2, <1>4, <1>6, ProductOrdered
<1>14. Below(C, M, a, v)
  BY <1>11 DEF Below, X, E, K, q
<1>15. ~Below(C, M, a, u)
  <2>1. ~ (X < p * K)
    BY <1>6, <1>10, <1>12
  <2> QED BY <2>1 DEF Below, X, E, K, p
<1>16. r * K <= X /\ X < a.top * K
  BY <1>6, <1>10, <1>11, <1>12, <1>13
<1>17. Within(C, M, a.top, a.rng, a.bits)
  BY <1>16 DEF Within, X, E, K, r
<1> QED BY <1>14, <1>15, <1>17 DEF u, v

(* The number of the whole tile lies in the interval of every mark. *)
LEMMA AllWithin ==
  ASSUME NEW its, Len(its) \in Nat, NEW h, NEW ad, NEW ctx, Trace(h, its, ad, ctx),
         NEW C \in Nat, NEW M \in Nat,
         Within(C, M, h[Len(its)].top, h[Len(its)].rng, h[Len(its)].bits)
  PROVE  \A i \in 0 .. Len(its) : Within(C, M, h[i].top, h[i].rng, h[i].bits)
<1> DEFINE n == Len(its)
           W(i) == Within(C, M, h[i].top, h[i].rng, h[i].bits)
           S == {k \in Nat : k <= n => W(n - k)}
<1>1. 0 \in S
  <2>1. n - 0 = n
    OBVIOUS
  <2> QED BY <2>1
<1>2. \A k \in Nat : k \in S => k + 1 \in S
  <2> SUFFICES ASSUME NEW k \in Nat, k \in S, k + 1 <= n PROVE W(n - (k + 1))
    OBVIOUS
  <2> DEFINE i == n - (k + 1)
  <2>1. i \in 0 .. n - 1 /\ i \in 0 .. n /\ i + 1 = n - k /\ k <= n
    OBVIOUS
  <2>2. W(i + 1)
    BY <2>1
  <2>3. MarkOK(h[i]) /\ Follows(h[i], h[i + 1], its[i + 1], ad)
    BY <2>1 DEF Trace
  <2> HIDE DEF i
  <2>4. W(i)
    BY <2>2, <2>3, StepBack
  <2> QED BY <2>4 DEF i
<1> HIDE DEF S
<1>3. Nat \subseteq S
  BY <1>1, <1>2, SetInduction
<1> SUFFICES ASSUME NEW i \in 0 .. n PROVE W(i)
  OBVIOUS
<1>4. n - i \in S /\ n - i <= n /\ n - (n - i) = i
  BY <1>3
<1>5. W(n - (n - i))
  BY <1>4 DEF S
<1> QED BY <1>4, <1>5

-----------------------------------------------------------------------------
(* The decoder                                                             *)

LEMMA ByteShift ==
  ASSUME NEW k \in Nat
  PROVE  /\ k * ByteBits \in Nat /\ (k + 1) * ByteBits = k * ByteBits + ByteBits
         /\ 2 ^ (k * ByteBits) \in Nat \ {0} /\ 2 ^ ByteBits \in Nat \ {0}
         /\ 2 ^ ((k + 1) * ByteBits) = 2 ^ (k * ByteBits) * 2 ^ ByteBits
<1>1. ByteBits \in Nat
  BY Widths
<1>2. k * ByteBits \in Nat /\ (k + 1) * ByteBits = k * ByteBits + ByteBits
  BY <1>1
<1> DEFINE b == k * ByteBits
<1> HIDE DEF b
<1>3. b \in Nat
  BY <1>2 DEF b
<1>4. 2 ^ (b + ByteBits) = 2 ^ b * 2 ^ ByteBits /\ 2 ^ b \in Nat \ {0} /\ 2 ^ ByteBits \in Nat \ {0}
  BY <1>1, <1>3, PowerAdds, PowerPositive
<1> QED BY <1>2, <1>4 DEF b

(* The numbers of two prefixes differ by the bytes between them. *)
LEMMA PrefixTail ==
  ASSUME NEW buf \in Seq(Byte), NEW f, Prefixes(buf, f), NEW i \in 0 .. Len(buf),
         NEW k \in Nat, i + k <= Len(buf)
  PROVE  /\ f[i] \in Nat /\ f[i + k] \in Nat
         /\ \E t \in Nat : t < 2 ^ (k * ByteBits) /\ f[i + k] = f[i] * 2 ^ (k * ByteBits) + t
<1> DEFINE Q(j) == \E t \in Nat : /\ t < 2 ^ (j * ByteBits)
                                  /\ f[i + j] = f[i] * 2 ^ (j * ByteBits) + t
           S == {j \in Nat : i + j <= Len(buf) => Q(j)}
           B == 2 ^ ByteBits
<1>1. /\ Len(buf) \in Nat /\ i \in Nat /\ f \in [0 .. Len(buf) -> Nat]
      /\ \A j \in 1 .. Len(buf) : f[j] = f[j - 1] * B + buf[j] /\ buf[j] \in Byte
  BY DEF Prefixes
<1>2. f[i] \in Nat /\ i + 0 = i
  BY <1>1
<1>3. B \in Nat \ {0} /\ ByteBits \in Nat /\ \A b \in Byte : b \in Nat /\ b < B
  BY ByteIs, Widths
<1>4. 0 \in S
  <2>1. 0 * ByteBits = 0 /\ 2 ^ 0 = 1
    BY <1>3
  <2>2. 2 ^ (0 * ByteBits) = 1
    BY <2>1, Zenon
  <2>3. 0 \in Nat /\ 0 < 1 /\ f[i] = f[i] * 1 + 0
    BY <1>2
  <2>4. 0 < 2 ^ (0 * ByteBits) /\ f[i + 0] = f[i] * 2 ^ (0 * ByteBits) + 0
    BY <2>2, <2>3, <1>2
  <2> QED BY <2>4
<1>5. \A j \in Nat : j \in S => j + 1 \in S
  <2> SUFFICES ASSUME NEW j \in Nat, j \in S, i + (j + 1) <= Len(buf) PROVE Q(j + 1)
    OBVIOUS
  <2> DEFINE P == 2 ^ (j * ByteBits)
             R == 2 ^ ((j + 1) * ByteBits)
             F == f[i]
  <2>1. i + j <= Len(buf) /\ i + (j + 1) \in 1 .. Len(buf) /\ (i + (j + 1)) - 1 = i + j
    BY <1>1
  <2>2. PICK t \in Nat : t < P /\ f[i + j] = F * P + t
    BY <2>1
  <2> DEFINE b == buf[i + (j + 1)]
  <2>3. b \in Nat /\ b < B /\ f[i + (j + 1)] = f[i + j] * B + b
    BY <2>1, <1>1, <1>3
  <2>4. P \in Nat \ {0} /\ R = P * B
    BY ByteShift
  <2> HIDE DEF P, R, F, B, b
  <2>5. F \in Nat
    BY <1>2 DEF F
  <2> DEFINE r == t * B + b
  <2>6. f[i + (j + 1)] = F * R + r
    <3>1. (F * P + t) * B + b = F * (P * B) + (t * B + b)
      BY <1>3, <2>3, <2>4, <2>5
    <3> QED BY <3>1, <2>2, <2>3, <2>4
  <2>7. r \in Nat /\ r < R
    <3>1. (t + 1) * B <= P * B
      BY <1>3, <2>2, <2>4, ProductOrdered
    <3>2. (t + 1) * B = t * B + B /\ t * B \in Nat /\ P * B \in Nat
      BY <1>3, <2>4
    <3> DEFINE y == t * B
               z == P * B
    <3>3. y \in Nat /\ z \in Nat /\ y + B <= z /\ r = y + b /\ R = z
      BY <3>1, <3>2, <2>4
    <3> HIDE DEF y, z, r
    <3> QED BY <3>3, <1>3, <2>3
  <2> HIDE DEF r
  <2> QED BY <2>6, <2>7 DEF R, F
<1> HIDE DEF S
<1>6. k \in S
  BY <1>4, <1>5, SetInduction
<1>7. Q(k)
  BY <1>6 DEF S
<1>8. i + k \in 0 .. Len(buf)
  BY <1>1
<1> QED BY <1>1, <1>2, <1>7, <1>8

Margin == Window - RBits

(* How far the next byte of the buffer is from the bottom of dif. *)
Pad(d, m) == (m.bits + Margin) - d.pos * ByteBits

(* dif is one less than the distance from the number read so far, as if zeros
   followed it, to the end of the interval; where bytes remain, the bits of dif
   below those read are ones. *)
DecMid(d, buf, f, m) ==
  /\ d.pos \in 0 .. Len(buf) /\ d.rng = m.rng
  /\ Pad(d, m) \in Nat
  /\ d.dif \in Nat /\ d.dif < 2 ^ Window /\ d.cnt \in Int
  /\ d.dif + 1 + f[d.pos] * 2 ^ Pad(d, m) = m.top * 2 ^ Margin
  /\ d.pos < Len(buf) =>
       /\ d.cnt = d.pos * ByteBits - m.bits /\ -(RBits - 1) <= d.cnt
       /\ \E q \in Nat : d.dif + 1 = q * 2 ^ Pad(d, m)

(* Between two items the window has all the bits the next item looks at. *)
DecOK(d, buf, f, m) ==
  /\ DecMid(d, buf, f, m)
  /\ d.pos < Len(buf) => m.bits <= d.pos * ByteBits

LEMMA FloorLess ==
  ASSUME NEW x \in Nat, NEW z \in Nat, NEW n \in Nat \ {0}, NEW t \in Nat, t < n
  PROVE  x < z <=> x * n + t < z * n
<1>1. x * n \in Nat /\ z * n \in Nat
  OBVIOUS
<1>2. ASSUME x < z PROVE x * n + t < z * n
  <2>1. (x + 1) * n <= z * n
    BY <1>2, ProductOrdered
  <2>2. (x + 1) * n = x * n + n
    OBVIOUS
  <2> QED BY <1>1, <2>1, <2>2
<1>3. ASSUME z <= x PROVE z * n <= x * n
  BY <1>3, ProductOrdered
<1> QED BY <1>1, <1>2, <1>3

(* Comparing dif with a split compares the whole number with it. *)
LEMMA BelowInDif ==
  ASSUME NEW buf \in Seq(Byte), NEW f, Prefixes(buf, f), NEW m, MarkOK(m),
         NEW d, DecOK(d, buf, f, m), NEW v \in Nat, v <= m.rng
  PROVE  Below(f[Len(buf)], ByteBits * Len(buf), m, v) <=> v * 2 ^ Margin <= d.dif
<1> DEFINE n == Len(buf)
           p == d.pos
           C == f[n]
           M == ByteBits * n
           F == f[p]
           j == Pad(d, m)
           J == 2 ^ j
           G == 2 ^ Margin
           E == 2 ^ m.bits
           K == 2 ^ M
           X == m.top - v
<1>1. n \in Nat /\ p \in 0 .. n /\ p \in Nat /\ p <= n /\ f \in [0 .. n -> Nat]
  BY DEF DecOK, DecMid, Prefixes
<1>2. F \in Nat /\ C \in Nat
  BY <1>1
<1>3. m.top \in Nat /\ m.bits \in Nat /\ m.rng \in Nat /\ m.rng <= m.top
  BY DEF MarkOK
<1>4. X \in Nat /\ m.top = X + v
  BY <1>3
<1>5. /\ ByteBits \in Nat /\ Margin \in Nat /\ M \in Nat
      /\ G \in Nat \ {0} /\ E \in Nat \ {0} /\ K \in Nat \ {0}
  <2>1. ByteBits \in Nat /\ Margin \in Nat
    BY Widths DEF Margin
  <2>2. M \in Nat
    BY <2>1, <1>1
  <2> QED BY <2>1, <2>2, <1>3, PowerPositive
<1>6. j \in Nat /\ J \in Nat \ {0} /\ j = (m.bits + Margin) - p * ByteBits
  BY PowerPositive DEF DecOK, DecMid, Pad
<1>7. d.dif \in Nat /\ d.dif + 1 + F * J = m.top * G
  BY DEF DecOK, DecMid
<1>8. p < n => m.bits <= p * ByteBits
  BY DEF DecOK
<1>9. p * ByteBits \in Nat
  BY <1>1, <1>5
<1> HIDE DEF n, p, C, M, F, j, J, G, E, K, X
<1>13. m.bits \in Nat /\ Margin \in Nat /\ j \in Nat /\ M \in Nat /\ d.dif \in Nat
  BY <1>3, <1>5, <1>6, <1>7
<1>10. v * G <= d.dif <=> F * J < X * G
  <2> DEFINE Y == F * J
             V == v * G
             W == X * G
  <2>1. Y \in Nat /\ V \in Nat /\ W \in Nat
    BY <1>2, <1>4, <1>5, <1>6
  <2>2. m.top * G = W + V
    <3>1. (X + v) * G = X * G + v * G
      BY <1>4, <1>5
    <3> QED BY <3>1, <1>4
  <2>3. d.dif + 1 + Y = W + V
    BY <2>2, <1>7
  <2> HIDE DEF Y, V, W
  <2>4. V <= d.dif <=> Y < W
    <3> DEFINE x == d.dif
    <3>1. x \in Nat /\ x + 1 + Y = W + V
      BY <2>3, <1>13
    <3> HIDE DEF x
    <3>2. V <= x <=> Y < W
      BY <2>1, <3>1
    <3> QED BY <3>2 DEF x
  <2> QED BY <2>4 DEF Y, V, W
<1>11. CASE p = n
  <2>1. J * K = E * G
    <3>1. j + M = m.bits + Margin
      <4>1. M = p * ByteBits
        BY <1>11, <1>1, <1>5 DEF M
      <4> DEFINE z == p * ByteBits
      <4> HIDE DEF z
      <4>2. M = z /\ j = (m.bits + Margin) - z
        BY <4>1, <1>6 DEF z
      <4> DEFINE a == m.bits
      <4>3. a \in Nat /\ M = z /\ j = (a + Margin) - z /\ Margin \in Nat /\ j \in Nat /\ M \in Nat
        BY <4>2, <1>13
      <4> HIDE DEF a
      <4>4. j + M = a + Margin
        BY <4>3
      <4> QED BY <4>4 DEF a
    <3>2. 2 ^ (j + M) = J * K
      BY <1>5, <1>6, PowerAdds DEF J, K
    <3>3. 2 ^ (m.bits + Margin) = E * G
      BY <1>3, <1>5, PowerAdds DEF E, G
    <3> QED BY <3>1, <3>2, <3>3
  <2>2. F = C
    BY <1>11 DEF F, C
  <2>3. (C * J) * K = (C * E) * G
    <3>1. (C * J) * K = C * (J * K) /\ (C * E) * G = C * (E * G)
      BY <1>2, <1>5, <1>6
    <3> QED BY <3>1, <2>1
  <2>4. (X * G) * K = (X * K) * G
    BY <1>4, <1>5
  <2>5. C * J \in Nat /\ X * G \in Nat /\ C * E \in Nat /\ X * K \in Nat
    BY <1>2, <1>4, <1>5, <1>6
  <2> DEFINE a == C * J
             b == X * G
             aa == C * E
             bb == X * K
  <2>6. a \in Nat /\ b \in Nat /\ aa \in Nat /\ bb \in Nat /\ a * K = aa * G /\ b * K = bb * G
    BY <2>3, <2>4, <2>5
  <2> HIDE DEF a, b, aa, bb
  <2>7. a < b <=> a * K < b * K
    BY <2>6, <1>5, ProductStrict
  <2>8. aa < bb <=> aa * G < bb * G
    BY <2>6, <1>5, ProductStrict
  <2>9. a < b <=> aa < bb
    BY <2>6, <2>7, <2>8
  <2> QED BY <2>2, <2>9, <1>10 DEF a, b, aa, bb, Below, C, M, E, K, X, G, n
<1>12. CASE p < n
  <2> DEFINE t == p * ByteBits - m.bits
             r == (n - p) * ByteBits
             T == 2 ^ t
             R == 2 ^ r
             Z == X * T
  <2>1. t \in Nat /\ j + t = Margin /\ m.bits + t = p * ByteBits
    <3> DEFINE z == p * ByteBits
    <3> HIDE DEF z
    <3>1. z \in Nat /\ m.bits <= z /\ j = (m.bits + Margin) - z /\ t = z - m.bits
      BY <1>6, <1>8, <1>9, <1>12 DEF z
    <3> HIDE DEF t
    <3> DEFINE a == m.bits
    <3>2. /\ z \in Nat /\ a <= z /\ j = (a + Margin) - z /\ t = z - a
          /\ a \in Nat /\ Margin \in Nat
      BY <3>1, <1>13
    <3> HIDE DEF a
    <3>3. t \in Nat /\ j + t = Margin /\ a + t = z
      BY <3>2
    <3> QED BY <3>3 DEF z, a
  <2>2. r \in Nat /\ n - p \in Nat /\ p + (n - p) = n /\ M = p * ByteBits + r
    <3>1. n - p \in Nat /\ p + (n - p) = n
      BY <1>1
    <3>2. ByteBits * n = p * ByteBits + (n - p) * ByteBits
      BY <1>1, <1>5
    <3>3. (n - p) * ByteBits \in Nat
      BY <3>1, <1>5
    <3> QED BY <3>1, <3>2, <3>3 DEF M
  <2> HIDE DEF t, r
  <2>3. G = T * J /\ T \in Nat \ {0} /\ R \in Nat \ {0}
    <3>1. 2 ^ (j + t) = J * T
      BY <2>1, <1>6, PowerAdds DEF J
    <3>2. T \in Nat \ {0} /\ R \in Nat \ {0}
      BY <2>1, <2>2, PowerPositive
    <3>3. J * T = T * J
      BY <3>2, <1>6
    <3> QED BY <3>1, <3>2, <3>3, <2>1 DEF G
  <2>4. K = (E * T) * R
    <3>1. 2 ^ (m.bits + t) = E * T
      BY <2>1, <1>3, PowerAdds DEF E
    <3>2. (m.bits + t) \in Nat /\ M = (m.bits + t) + r
      <4>1. t \in Nat /\ m.bits + t = p * ByteBits /\ M = p * ByteBits + r
        BY <2>1, <2>2
      <4> QED BY <4>1, <1>13
    <3> DEFINE s == m.bits + t
    <3> HIDE DEF s
    <3>3. 2 ^ (s + r) = 2 ^ s * R
      BY <3>2, <2>2, PowerAdds DEF s
    <3> QED BY <3>1, <3>2, <3>3 DEF s, K
  <2>5. PICK tail \in Nat : tail < R /\ C = F * R + tail
    <3>1. p + (n - p) <= Len(buf) /\ p \in 0 .. Len(buf)
      BY <2>2, <1>1 DEF n
    <3> DEFINE k == n - p
    <3>2. k \in Nat /\ p + k <= Len(buf) /\ p + k = n
      BY <3>1, <2>2 DEF n
    <3> HIDE DEF k
    <3>3. \E x \in Nat : x < 2 ^ (k * ByteBits) /\ f[p + k] = f[p] * 2 ^ (k * ByteBits) + x
      <4> HIDE DEF p
      <4>1. p \in 0 .. Len(buf) /\ k \in Nat /\ p + k <= Len(buf)
        BY <3>1, <3>2
      <4> QED BY <4>1, PrefixTail
    <3> QED BY <3>2, <3>3 DEF k, C, F, R, r
  <2> HIDE DEF T, R
  <2>6. Z \in Nat
    BY <2>3, <1>4
  <2>7. X * G = Z * J
    <3>1. X * (T * J) = (X * T) * J
      BY <2>3, <1>4, <1>6
    <3> QED BY <3>1, <2>3
  <2>8. X * K = (Z * R) * E
    <3>1. X * ((E * T) * R) = ((X * T) * R) * E
      BY <2>3, <1>4, <1>5
    <3> QED BY <3>1, <2>4
  <2> HIDE DEF Z
  <2>9. F < Z <=> F * J < Z * J
    BY <2>6, <1>2, <1>6, ProductStrict
  <2>10. F < Z <=> F * R + tail < Z * R
    BY <2>3, <2>5, <2>6, <1>2, FloorLess
  <2> DEFINE y == Z * R
  <2>11. y \in Nat
    BY <2>3, <2>6
  <2>12. C < y <=> C * E < y * E
    <3> HIDE DEF y
    <3> QED BY <2>11, <1>2, <1>5, ProductStrict
  <2>13. F * J < X * G <=> C * E < X * K
    BY <2>5, <2>7, <2>8, <2>9, <2>10, <2>12
  <2> QED BY <2>13, <1>10 DEF Below, C, M, E, K, X, G, n
<1> QED BY <1>1, <1>11, <1>12

LEMMA MarginIs ==
  /\ Margin \in Nat /\ 2 ^ Margin \in Nat \ {0} /\ Margin = Window - RBits
  /\ 2 ^ Window = 2 ^ RBits * 2 ^ Margin /\ 2 ^ RBits \in Nat \ {0} /\ 2 ^ Window \in Nat \ {0}
<1>1. Margin \in Nat /\ RBits \in Nat /\ RBits + Margin = Window /\ Margin = Window - RBits
  BY Widths DEF Margin
<1>2. 2 ^ (RBits + Margin) = 2 ^ RBits * 2 ^ Margin
  BY <1>1, PowerAdds
<1>3. Window \in Nat
  BY Widths
<1> QED BY <1>1, <1>2, <1>3, PowerPositive

(* The scan stops at the symbol that was written. *)
LEMMA ScanFinds ==
  ASSUME NEW buf \in Seq(Byte), NEW f, Prefixes(buf, f), NEW m, MarkOK(m),
         NEW d, DecOK(d, buf, f, m), NEW b, NEW item, NEW ad, Follows(m, b, item, ad),
         Within(f[Len(buf)], ByteBits * Len(buf), b.top, b.rng, b.bits)
  PROVE  /\ Scanned(d, ItemCdf(m, item)) = item.val
         /\ LowOf(m, item) * 2 ^ Margin <= d.dif
         /\ d.dif < HighOf(m, item) * 2 ^ Margin
<1> DEFINE cdf == ItemCdf(m, item)
           v == LowOf(m, item)
           u == HighOf(m, item)
           G == 2 ^ Margin
           n == cdf.n
           val == item.val
           C == f[Len(buf)]
           M == ByteBits * Len(buf)
           c == Half(d.dif, Window - RBits)
           K == {s \in 0 .. n - 1 : c >= Lower(d.rng, cdf, s)}
<1>1. /\ v \in Nat /\ u \in Nat /\ v < u /\ u <= m.rng /\ Good(cdf)
  BY ItemPart DEF Follows
<1>2. m.rng \in Nat /\ Top <= m.rng
  BY DEF MarkOK
<1>3. n \in Nat \ {0} /\ val \in 0 .. n - 1
  BY <1>1, GoodContext DEF Follows
<1>4. G \in Nat \ {0} /\ Margin \in Nat /\ Margin = Window - RBits
  BY MarginIs
<1>5. d.dif \in Nat /\ d.rng = m.rng
  BY DEF DecOK, DecMid
<1>6. C \in Nat /\ M \in Nat
  BY Widths DEF Prefixes
<1>7. Below(C, M, m, v) /\ ~Below(C, M, m, u)
  <2> HIDE DEF C, M
  <2>1. Within(C, M, b.top, b.rng, b.bits)
    BY DEF C, M
  <2> QED BY <2>1, <1>6, StepBack
<1>8. v * G <= d.dif /\ ~ (u * G <= d.dif)
  <2> HIDE DEF v, u
  <2>1. Below(C, M, m, v) <=> v * G <= d.dif
    <3>1. v \in Nat /\ v <= m.rng
      BY <1>1, <1>2
    <3> QED BY <3>1, BelowInDif
  <2>2. Below(C, M, m, u) <=> u * G <= d.dif
    BY <1>1, BelowInDif
  <2> QED BY <2>1, <2>2, <1>7
<1>9. d.dif < u * G
  <2> DEFINE y == u * G
  <2>1. y \in Nat
    BY <1>1, <1>4
  <2> HIDE DEF y
  <2>2. d.dif < y
    BY <2>1, <1>5, <1>8 DEF y
  <2> QED BY <2>2 DEF y
<1>10. \A s \in 0 .. n - 1 : /\ Lower(m.rng, cdf, s) \in Nat
                             /\ s < val => u <= Lower(m.rng, cdf, s)
  BY <1>1, <1>2, <1>3, EverySymbolHasRange DEF HighOf
<1>11. v = Lower(m.rng, cdf, val)
  BY DEF LowOf
<1> HIDE DEF cdf, v, u, G, val, C, M
<1>12. \A s \in 0 .. n - 1 : s \in K <=> Lower(m.rng, cdf, s) * G <= d.dif
  <2> SUFFICES ASSUME NEW s \in 0 .. n - 1
               PROVE  s \in K <=> Lower(m.rng, cdf, s) * G <= d.dif
    OBVIOUS
  <2> DEFINE L == Lower(m.rng, cdf, s)
  <2>1. L \in Nat
    BY <1>10
  <2>2. s \in K <=> c >= L
    BY <1>5
  <2> HIDE DEF L, K
  <2>3. Half(d.dif, Margin) >= L <=> d.dif >= L * 2 ^ Margin
    BY <2>1, <1>4, <1>5, HalfReaches
  <2>4. c >= L <=> d.dif >= L * G
    BY <2>3, <1>4 DEF G
  <2>5. L * G \in Nat
    BY <2>1, <1>4
  <2>6. d.dif >= L * G <=> L * G <= d.dif
    BY <2>5, <1>5
  <2> QED BY <2>2, <2>4, <2>6 DEF L
<1>13. val \in K
  BY <1>3, <1>8, <1>11, <1>12
<1>14. \A s \in K : val <= s
  <2> SUFFICES ASSUME NEW s \in K, s < val PROVE FALSE
    BY <1>3
  <2> DEFINE L == Lower(m.rng, cdf, s)
  <2>1. s \in 0 .. n - 1 /\ L \in Nat /\ u <= L
    BY <1>10
  <2>2. L * G <= d.dif
    BY <2>1, <1>12
  <2> HIDE DEF L, K
  <2>3. u * G <= L * G /\ u * G \in Nat /\ L * G \in Nat
    BY <2>1, <1>1, <1>4, ProductOrdered
  <2>4. u * G <= d.dif
    <3> DEFINE y == u * G
               z == L * G
    <3>1. y \in Nat /\ z \in Nat /\ y <= z /\ z <= d.dif
      BY <2>2, <2>3
    <3> HIDE DEF y, z
    <3>2. y <= d.dif
      BY <3>1, <1>5
    <3> QED BY <3>2 DEF y
  <2> QED BY <2>4, <1>8
<1>15. Min(K) = val
  <2>1. K \subseteq Nat /\ K # {} /\ val \in Nat
    BY <1>3, <1>13
  <2> HIDE DEF K
  <2>2. Min(K) \in K /\ \A y \in K : Min(K) <= y
    BY <2>1, MinIs
  <2>3. Min(K) <= val /\ val <= Min(K) /\ Min(K) \in Nat
    BY <2>1, <2>2, <1>13, <1>14
  <2> QED BY <2>1, <2>3
<1>16. Scanned(d, cdf) = Min(K)
  BY DEF Scanned
<1> QED BY <1>8, <1>9, <1>15, <1>16 DEF v, u, G, cdf, val

(* Taking the symbol's part moves dif to the next mark. *)
LEMMA PartTaken ==
  ASSUME NEW buf, Len(buf) \in Nat, NEW f, f \in [0 .. Len(buf) -> Nat],
         NEW m, MarkOK(m), NEW d, DecOK(d, buf, f, m),
         NEW b, NEW item, NEW ad, Follows(m, b, item, ad),
         LowOf(m, item) * 2 ^ Margin <= d.dif, d.dif < HighOf(m, item) * 2 ^ Margin
  PROVE  DecMid(Shifted(d, d.dif - LowOf(m, item) * 2 ^ Margin,
                        HighOf(m, item) - LowOf(m, item)), buf, f, b)
<1> DEFINE v == LowOf(m, item)
           u == HighOf(m, item)
           w == u - v
           k == DefOf(m, item)
           D == 2 ^ k
           G == 2 ^ Margin
           j == Pad(d, m)
           J == 2 ^ j
           p == d.pos
           F == f[p]
           x == d.dif - v * G
           y == (x + 1) * D
           new == Shifted(d, x, w)
<1>1. /\ v \in Nat /\ u \in Nat /\ v < u /\ u <= m.rng /\ w \in Nat
      /\ k \in Nat /\ k <= RBits - 1 /\ D \in Nat \ {0} /\ w * D < 2 ^ RBits
  BY ItemPart DEF Follows
<1>2. m.top \in Nat /\ m.bits \in Nat /\ m.rng \in Nat /\ m.rng <= m.top
  BY DEF MarkOK
<1>3. b.top = (m.top - v) * D /\ b.rng = w * D /\ b.bits = m.bits + k
  BY DEF Follows
<1>4. /\ Margin \in Nat /\ G \in Nat \ {0} /\ 2 ^ Window = 2 ^ RBits * G
      /\ 2 ^ RBits \in Nat \ {0} /\ 2 ^ Window \in Nat \ {0} /\ ByteBits \in Nat /\ RBits \in Nat
  BY MarginIs, Widths
<1>5. /\ p \in 0 .. Len(buf) /\ d.rng = m.rng /\ j \in Nat /\ d.dif \in Nat /\ d.cnt \in Int
      /\ d.dif + 1 + F * J = m.top * G /\ J \in Nat \ {0} /\ F \in Nat
  BY PowerPositive DEF DecOK, DecMid
<1>6. p < Len(buf) => /\ m.bits <= p * ByteBits
                      /\ d.cnt = p * ByteBits - m.bits
                      /\ \E q \in Nat : d.dif + 1 = q * J
  BY DEF DecOK, DecMid
<1>7. p \in Nat /\ p * ByteBits \in Nat /\ j = (m.bits + Margin) - p * ByteBits
  BY <1>4, <1>5 DEF Pad
<1> DEFINE a == p * ByteBits
<1> HIDE DEF v, u, k, D, G, j, J, F, a
<1>8. w = u - v
  OBVIOUS
<1>21. d.dif \in Nat /\ j \in Nat /\ Margin \in Nat
  BY <1>4, <1>5
<1>22. F \in Nat /\ J \in Nat /\ G \in Nat /\ v \in Nat /\ m.top \in Nat
  BY <1>1, <1>2, <1>4, <1>5
<1>9. x \in Nat /\ x + 1 <= w * G
  <2> DEFINE vG == v * G
             uG == u * G
             wG == w * G
  <2>1. vG \in Nat /\ uG \in Nat /\ wG \in Nat /\ wG = uG - vG
    BY <1>1, <1>4
  <2>2. vG <= d.dif /\ d.dif < uG
    BY DEF v, u, G
  <2>3. x = d.dif - vG
    OBVIOUS
  <2> HIDE DEF vG, uG, wG, x
  <2>4. x \in Nat /\ x + 1 <= wG
    <3> DEFINE q == d.dif
    <3>1. q \in Nat /\ vG <= q /\ q < uG /\ x = q - vG
      BY <2>2, <2>3, <1>21
    <3> HIDE DEF q
    <3> QED BY <3>1, <2>1
  <2> QED BY <2>4 DEF wG
<1>10. x + 1 = (d.dif + 1) - v * G
  <2> DEFINE z == v * G
  <2>1. z \in Nat /\ x = d.dif - z
    BY <1>1, <1>4
  <2> HIDE DEF z, x
  <2>2. x + 1 = (d.dif + 1) - z
    BY <2>1, <1>5
  <2> QED BY <2>2 DEF z
<1> HIDE DEF x, w
<1>11. y \in Nat \ {0} /\ y < 2 ^ Window
  <2>1. y \in Nat /\ y # 0
    <3>1. (x + 1) * D \in Nat /\ (x + 1) * D # 0
      BY <1>1, <1>9
    <3> QED BY <3>1
  <2>2. y <= (w * G) * D
    <3> DEFINE z == x + 1
               zz == w * G
    <3>1. z \in Nat /\ zz \in Nat /\ z <= zz
      BY <1>1, <1>4, <1>9
    <3> HIDE DEF z, zz
    <3>2. z * D <= zz * D
      BY <3>1, <1>1, ProductOrdered
    <3> QED BY <3>2 DEF z, zz
  <2>3. (w * G) * D = (w * D) * G
    BY <1>1, <1>4
  <2>4. (w * D) * G < 2 ^ RBits * G
    <3> DEFINE z == w * D
    <3>1. z \in Nat /\ z < 2 ^ RBits
      BY <1>1
    <3> HIDE DEF z
    <3>2. z * G < 2 ^ RBits * G
      BY <3>1, <1>4, ProductStrict
    <3> QED BY <3>2 DEF z
  <2>5. (w * D) * G \in Nat
    BY <1>1, <1>4
  <2> DEFINE t == (w * D) * G
  <2>6. t \in Nat /\ y <= t /\ t < 2 ^ Window /\ 2 ^ Window \in Nat /\ y \in Nat
    BY <2>1, <2>2, <2>3, <2>4, <2>5, <1>4
  <2> HIDE DEF t, y
  <2>7. y < 2 ^ Window
    BY <2>6
  <2> QED BY <2>1, <2>7
<1> HIDE DEF y
<1>12. /\ new.pos = p /\ new.rng = w * D /\ new.cnt = d.cnt - k
       /\ new.dif = Wrap(Wrap(y) - 1)
  BY DEF Shifted, y, D, k, DefOf, w, u, v
<1>13. Wrap(Wrap(y) - 1) = y - 1
  <2>1. Wrap(y) = y
    BY <1>11, WrapFits
  <2>2. y - 1 \in Nat /\ y - 1 < 2 ^ Window
    BY <1>4, <1>11
  <2> DEFINE z == y - 1
  <2> HIDE DEF z
  <2>3. Wrap(z) = z
    BY <2>2, WrapFits DEF z
  <2> QED BY <2>1, <2>3 DEF z
<1> HIDE DEF new
<1>14. new.dif = y - 1 /\ new.dif \in Nat /\ new.dif < 2 ^ Window /\ new.dif + 1 = y
  BY <1>4, <1>11, <1>12, <1>13
<1>15. Pad(new, b) = j + k
  <2>1. Pad(new, b) = ((m.bits + k) + Margin) - a
    BY <1>3, <1>12 DEF Pad, a
  <2>2. j = (m.bits + Margin) - a /\ a \in Nat
    BY <1>7 DEF a
  <2> DEFINE z == m.bits
  <2>3. z \in Nat /\ Pad(new, b) = ((z + k) + Margin) - a /\ j = (z + Margin) - a
    BY <2>1, <2>2, <1>2
  <2> HIDE DEF z
  <2>4. ((z + k) + Margin) - a = ((z + Margin) - a) + k
    BY <2>2, <2>3, <1>1, <1>4
  <2> QED BY <2>3, <2>4
<1>16. 2 ^ (j + k) = J * D /\ j + k \in Nat
  BY <1>1, <1>5, PowerAdds DEF J, D
<1>17. new.dif + 1 + F * (J * D) = b.top * G
  <2>1. y + F * (J * D) = ((x + 1) + F * J) * D
    <3>1. (x + 1) * D + F * (J * D) = ((x + 1) + F * J) * D
      BY <1>1, <1>5, <1>9
    <3> QED BY <3>1 DEF y
  <2>2. (x + 1) + F * J = m.top * G - v * G
    <3> DEFINE vG == v * G
               tG == m.top * G
               FJ == F * J
    <3>1. vG \in Nat /\ tG \in Nat /\ FJ \in Nat
      BY <1>22
    <3>2. x + 1 = (d.dif + 1) - vG /\ d.dif + 1 + FJ = tG
      BY <1>5, <1>10
    <3> DEFINE q == d.dif
    <3>3. q \in Nat /\ x \in Nat /\ x + 1 = (q + 1) - vG /\ q + 1 + FJ = tG
      BY <3>2, <1>5, <1>9
    <3> HIDE DEF vG, tG, FJ, q
    <3>4. (x + 1) + FJ = tG - vG
      BY <3>1, <3>3
    <3> QED BY <3>4 DEF vG, tG, FJ
  <2>3. (m.top * G - v * G) * D = ((m.top - v) * D) * G
    <3> DEFINE q == m.top
    <3>1. q \in Nat
      BY <1>2
    <3> HIDE DEF q
    <3>2. (q * G - v * G) * D = ((q - v) * D) * G
      BY <3>1, <1>1, <1>4
    <3> QED BY <3>2 DEF q
  <2> QED BY <2>1, <2>2, <2>3, <1>3, <1>14
<1>18. ASSUME p < Len(buf)
       PROVE  /\ new.cnt = p * ByteBits - b.bits /\ -(RBits - 1) <= new.cnt
              /\ \E q \in Nat : new.dif + 1 = q * (J * D)
  <2>1. new.cnt = p * ByteBits - b.bits /\ -(RBits - 1) <= new.cnt
    <3> DEFINE z == m.bits
    <3>1. z \in Nat /\ a \in Nat /\ z <= a /\ d.cnt = a - z /\ new.cnt = d.cnt - k /\ b.bits = z + k
      BY <1>2, <1>3, <1>6, <1>7, <1>12, <1>18 DEF a
    <3> HIDE DEF z
    <3>2. new.cnt = a - b.bits /\ -(RBits - 1) <= new.cnt
      BY <3>1, <1>1, <1>4
    <3> QED BY <3>2 DEF a
  <2> DEFINE t == Margin - j
             T == 2 ^ t
  <2>2. t \in Nat /\ t + j = Margin
    <3> DEFINE z == m.bits
    <3>1. z \in Nat /\ a \in Nat /\ z <= a /\ j = (z + Margin) - a
      BY <1>2, <1>6, <1>7, <1>18 DEF a
    <3> HIDE DEF z
    <3> QED BY <3>1, <1>21
  <2> HIDE DEF t
  <2>3. G = T * J /\ T \in Nat
    <3>1. 2 ^ (t + j) = T * J
      BY <2>2, <1>5, PowerAdds DEF J
    <3> QED BY <3>1, <2>2, PowerPositive DEF G
  <2>4. PICK q \in Nat : d.dif + 1 = q * J
    BY <1>6, <1>18
  <2> HIDE DEF T
  <2> DEFINE r == q - v * T
  <2>5. r \in Int /\ x + 1 = r * J
    <3>1. r \in Int
      BY <2>3, <1>1
    <3>2. q * J - v * (T * J) = (q - v * T) * J
      BY <2>3, <1>1, <1>5
    <3> QED BY <3>1, <3>2, <2>3, <2>4, <1>10
  <2> HIDE DEF r
  <2>6. r \in Nat
    <3> SUFFICES ASSUME r < 0 PROVE FALSE
      BY <2>5
    <3>1. 0 - r \in Nat /\ (0 - r) * J = 0 - r * J
      BY <2>5, <1>5
    <3>2. (0 - r) * J \in Nat
      BY <3>1, <1>5
    <3> DEFINE z == r * J
    <3>3. 0 - z \in Nat /\ x + 1 = z /\ z \in Int
      BY <3>1, <3>2, <2>5, <1>5
    <3> HIDE DEF z
    <3> QED BY <3>3, <1>9
  <2>7. y = r * (J * D)
    <3>1. (r * J) * D = r * (J * D)
      BY <2>5, <1>1, <1>5
    <3> QED BY <3>1, <2>5 DEF y
  <2>8. new.dif + 1 = r * (J * D)
    BY <2>7, <1>14
  <2> QED BY <2>1, <2>6, <2>8
<1>19. d.cnt - k \in Int
  BY <1>1, <1>5
<1>20. DecMid(new, buf, f, b)
  <2>1. new.dif + 1 + f[new.pos] * 2 ^ Pad(new, b) = b.top * 2 ^ Margin
    BY <1>12, <1>15, <1>16, <1>17 DEF F, G
  <2>2. new.pos < Len(buf) =>
          /\ new.cnt = new.pos * ByteBits - b.bits /\ -(RBits - 1) <= new.cnt
          /\ \E q \in Nat : new.dif + 1 = q * 2 ^ Pad(new, b)
    BY <1>12, <1>15, <1>16, <1>18
  <2>3. new.pos \in 0 .. Len(buf) /\ new.rng = b.rng /\ Pad(new, b) \in Nat /\ new.cnt \in Int
    BY <1>3, <1>5, <1>12, <1>15, <1>16, <1>19
  <2> QED BY <2>1, <2>2, <2>3, <1>14 DEF DecMid
<1> QED BY <1>20 DEF new, x, w, u, v, G

CanLoad(x, e, g, q, V, F, T) ==
  /\ x \in Nat /\ e \in Nat /\ g \in Nat /\ q \in Nat /\ V \in Nat /\ F \in Nat
  /\ x < 2 ^ Window /\ e + g <= Window /\ V < 2 ^ g
  /\ x + 1 = q * 2 ^ (e + g) /\ x + 1 + F * 2 ^ (e + g) = T

HasLoaded(z, e, g, V, F, T) ==
  /\ z \in Nat /\ z < 2 ^ Window /\ \E r \in Nat : z + 1 = r * 2 ^ e
  /\ z + 1 + (F * 2 ^ g + V) * 2 ^ e = T

(* Bytes xored onto the ones are taken away, which puts them into the number. *)
LEMMA Loaded ==
  ASSUME NEW x, NEW e, NEW g, NEW q, NEW V, NEW F, NEW T, CanLoad(x, e, g, q, V, F, T)
  PROVE  HasLoaded(Xor(x, V * 2 ^ e), e, g, V, F, T)
<1>9. /\ x \in Nat /\ e \in Nat /\ g \in Nat /\ q \in Nat /\ V \in Nat /\ F \in Nat
      /\ x < 2 ^ Window /\ e + g <= Window /\ V < 2 ^ g
      /\ x + 1 = q * 2 ^ (e + g) /\ x + 1 + F * 2 ^ (e + g) = T
  BY DEF CanLoad
<1> USE <1>9
<1> DEFINE E == 2 ^ e
           K == 2 ^ g
           y == V * E
           z == Xor(x, y)
           r == q * K - V
<1>1. E \in Nat \ {0} /\ K \in Nat \ {0} /\ 2 ^ (e + g) = E * K /\ e + g \in Nat
      /\ 2 ^ Window \in Nat
  <2>1. 2 ^ (e + g) = E * K
    BY PowerAdds
  <2>2. E \in Nat \ {0} /\ K \in Nat \ {0}
    BY PowerPositive
  <2>3. e + g \in Nat /\ 2 ^ Window \in Nat
    BY MarginIs
  <2> QED BY <2>1, <2>2, <2>3
<1>2. x + 1 = q * (E * K) /\ x + 1 + F * (E * K) = T
  BY <1>1
<1>3. y \in Nat /\ y < 2 ^ (e + g)
  <2> HIDE DEF E, K
  <2>1. V * E < K * E
    <3>1. V < K
      BY DEF K
    <3> QED BY <3>1, <1>1, ProductStrict
  <2>2. K * E = E * K
    BY <1>1
  <2> QED BY <2>1, <2>2, <1>1
<1> HIDE DEF E, K, y
<1>4. z = x - y /\ z \in Nat
  BY <1>1, <1>3, XorTakesAway
<1> HIDE DEF z
<1>5. r \in Nat
  <2>1. q # 0
    <3>1. 0 * (E * K) = 0
      BY <1>1
    <3> QED BY <3>1, <1>2
  <2>2. 1 * K <= q * K
    BY <2>1, <1>1, ProductOrdered
  <2>3. V < K
    BY DEF K
  <2> DEFINE a == q * K
  <2>4. a \in Nat /\ K <= a /\ V < K
    BY <2>2, <2>3, <1>1
  <2> HIDE DEF a
  <2>5. a - V \in Nat
    BY <2>4, <1>1
  <2> QED BY <2>5 DEF a
<1>6. z + 1 = r * E
  <2>1. r * E = q * (E * K) - y
    <3>1. (q * K - V) * E = q * (E * K) - V * E
      BY <1>1
    <3> QED BY <3>1 DEF y
  <2> DEFINE a == q * (E * K)
             b == r * E
  <2>2. b = a - y /\ x + 1 = a /\ z = x - y
    BY <2>1, <1>2, <1>4
  <2> HIDE DEF a, b
  <2>3. z + 1 = b
    BY <2>2, <1>3
  <2> QED BY <2>3 DEF b
<1>7. z + 1 + (F * K + V) * E = T
  <2>1. (F * K + V) * E = F * (E * K) + y
    <3>1. (F * K + V) * E = F * (E * K) + V * E
      BY <1>1
    <3> QED BY <3>1 DEF y
  <2> DEFINE a == F * (E * K)
             b == (F * K + V) * E
  <2>2. b = a + y /\ x + 1 + a = T /\ z = x - y /\ a \in Nat
    BY <2>1, <1>1, <1>2, <1>4
  <2> HIDE DEF a, b
  <2>3. z + 1 + b = T
    BY <2>2, <1>3
  <2> QED BY <2>3 DEF b
<1>8. z < 2 ^ Window
  BY <1>1, <1>3, <1>4
<1> QED BY <1>4, <1>5, <1>6, <1>7, <1>8 DEF z, y, E, K, HasLoaded

(* What fits into the window, when the decoder has run short of bits. *)
Fit(d) == Deficiency(d) \div ByteBits + 1
Rest(d) == Deficiency(d) % ByteBits

LEMMA RefillRoom ==
  ASSUME NEW buf, NEW f, NEW m, MarkOK(m), NEW d, DecMid(d, buf, f, m),
         Len(buf) \in Nat, d.pos < Len(buf), d.cnt < 0
  PROVE  /\ Deficiency(d) \in Nat /\ Deficiency(d) = Pad(d, m) - ByteBits
         /\ Pad(d, m) <= Window /\ Fit(d) \in Nat /\ Rest(d) \in Nat /\ Rest(d) < ByteBits
         /\ Fit(d) * ByteBits \in Nat
         /\ Fit(d) * ByteBits + Rest(d) = Pad(d, m)
         /\ m.bits <= d.pos * ByteBits + Fit(d) * ByteBits
         /\ d.pos * ByteBits \in Nat /\ d.pos \in Nat
         /\ d.cnt = d.pos * ByteBits - m.bits
<1> DEFINE p == d.pos
           a == p * ByteBits
           c == d.cnt
           b == m.bits
           j == Pad(d, m)
           s == Deficiency(d)
           r == Rest(d)
           k == Fit(d)
           g == k * ByteBits
<1>1. /\ p \in Nat /\ j \in Nat /\ c \in Int /\ c < 0 /\ c = a - b /\ -(RBits - 1) <= c
      /\ j = (b + Margin) - a
  BY DEF DecMid, Pad
<1>2. b \in Nat
  BY DEF MarkOK
<1>3. /\ Window \in Nat /\ RBits \in Nat /\ ByteBits \in Nat \ {0} /\ Margin = Window - RBits
      /\ RBits > ByteBits + 1 /\ Window > 2 * RBits
  BY Widths DEF Margin
<1>4. a \in Nat
  BY <1>1, <1>3
<1>5. s = Window - (ByteBits + 1) - (c + RBits - 1)
  BY DEF Deficiency
<1> HIDE DEF p, a, c, b, j, s
<1>6. s \in Nat /\ s = j - ByteBits /\ j <= Window
  BY <1>1, <1>2, <1>3, <1>4, <1>5
<1>7. k \in Nat /\ r \in Nat /\ r < ByteBits /\ g \in Nat /\ g + r = j
  <2> DEFINE t == s \div ByteBits
  <2>1. t \in Nat /\ r \in Nat /\ r < ByteBits /\ s = t * ByteBits + r
    BY <1>3, <1>6, Remainder DEF Rest, s
  <2>2. k = t + 1
    BY DEF Fit, s
  <2> HIDE DEF t, k, r
  <2>3. g = t * ByteBits + ByteBits /\ t * ByteBits \in Nat
    <3>1. (t + 1) * ByteBits = t * ByteBits + ByteBits /\ t * ByteBits \in Nat
      BY <2>1, <1>3
    <3> QED BY <3>1, <2>2
  <2> DEFINE z == t * ByteBits
  <2>4. z \in Nat /\ s = z + r /\ g = z + ByteBits
    BY <2>1, <2>3
  <2> HIDE DEF z, g
  <2>5. g \in Nat /\ g + r = j
    <3>1. /\ z \in Nat /\ r \in Nat /\ s = z + r /\ g = z + ByteBits
          /\ s = j - ByteBits /\ ByteBits \in Nat /\ j \in Nat
      BY <2>1, <2>4, <1>1, <1>3, <1>6
    <3> QED BY <3>1
  <2> QED BY <2>1, <2>2, <2>5
<1> HIDE DEF k, r, g
<1>8. b <= a + g
  BY <1>1, <1>2, <1>3, <1>4, <1>6, <1>7
<1> QED BY <1>1, <1>4, <1>6, <1>7, <1>8 DEF p, a, c, b, j, s, r, k, g

(* Loading the next k of the bytes that fit. *)
LEMMA BytesIn ==
  ASSUME NEW buf, Len(buf) \in Nat, NEW f, NEW m, MarkOK(m), NEW d, DecMid(d, buf, f, m),
         d.pos < Len(buf), d.cnt < 0, NEW k \in Nat, k <= Fit(d), d.pos + k <= Len(buf),
         NEW new, new.pos = d.pos + k, new.rng = d.rng, new.dif \in Nat, new.dif < 2 ^ Window,
         new.cnt \in Int, d.pos + k < Len(buf) => new.cnt = d.cnt + k * ByteBits,
         \E r \in Nat : new.dif + 1 = r * 2 ^ (Pad(d, m) - k * ByteBits),
         new.dif + 1 + f[d.pos + k] * 2 ^ (Pad(d, m) - k * ByteBits) = m.top * 2 ^ Margin,
         d.pos + k < Len(buf) => k = Fit(d)
  PROVE  DecOK(new, buf, f, m)
<1> DEFINE p == d.pos
           a == p * ByteBits
           b == m.bits
           h == k * ByteBits
           g == Fit(d) * ByteBits
           j == Pad(d, m)
<1>1. /\ g \in Nat /\ g <= j /\ b <= a + g /\ a \in Nat /\ p \in Nat
      /\ d.cnt = a - b /\ j \in Nat /\ j = (b + Margin) - a /\ Fit(d) \in Nat
      /\ -(RBits - 1) <= d.cnt /\ d.cnt \in Int
  <2>1. /\ Rest(d) \in Nat /\ g \in Nat /\ g + Rest(d) = j /\ b <= a + g /\ a \in Nat /\ p \in Nat
        /\ d.cnt = a - b /\ Fit(d) \in Nat
    BY RefillRoom
  <2>2. j \in Nat /\ j = (b + Margin) - a /\ -(RBits - 1) <= d.cnt /\ d.cnt \in Int
    BY DEF DecMid, Pad
  <2> HIDE DEF g, j
  <2>3. g <= j
    BY <2>1, <2>2
  <2> QED BY <2>1, <2>2, <2>3
<1>2. b \in Nat /\ Margin \in Nat /\ ByteBits \in Nat /\ RBits \in Nat
  BY Widths, MarginIs DEF MarkOK
<1>3. h \in Nat /\ h <= g /\ (p + k) * ByteBits = a + h
  <2>1. h \in Nat /\ (p + k) * ByteBits = a + h
    <3> HIDE DEF p
    <3> QED BY <1>1, <1>2
  <2>2. h <= g
    BY <1>1, <1>2, ProductOrdered
  <2> QED BY <2>1, <2>2
<1> HIDE DEF p, a, b, h, g, j
<1>4. Pad(new, m) = j - h /\ j - h \in Nat
  <2>1. Pad(new, m) = (b + Margin) - (a + h)
    BY <1>3 DEF Pad, b, p
  <2> QED BY <2>1, <1>1, <1>2, <1>3
<1>5. ASSUME p + k < Len(buf)
      PROVE  /\ new.cnt = (a + h) - b /\ -(RBits - 1) <= new.cnt /\ b <= a + h
  <2>1. h = g
    BY <1>5 DEF h, g, p
  <2>2. new.cnt = d.cnt + h
    BY <1>5 DEF h, p
  <2> QED BY <2>1, <2>2, <1>1, <1>2, <1>3
<1>6. new.pos = p + k /\ p + k \in 0 .. Len(buf)
  <2>1. new.pos = p + k /\ p + k <= Len(buf)
    BY DEF p
  <2>2. p \in Nat
    BY <1>1
  <2> QED BY <2>1, <2>2
<1>7. new.rng = m.rng
  BY DEF DecMid
<1>8. DecMid(new, buf, f, m)
  <2>1. /\ \E r \in Nat : new.dif + 1 = r * 2 ^ Pad(new, m)
        /\ new.dif + 1 + f[new.pos] * 2 ^ Pad(new, m) = m.top * 2 ^ Margin
    BY <1>4, <1>6 DEF j, h, p
  <2>2. new.pos < Len(buf) => new.cnt = new.pos * ByteBits - m.bits /\ -(RBits - 1) <= new.cnt
    BY <1>3, <1>5, <1>6 DEF b
  <2> QED BY <2>1, <2>2, <1>4, <1>6, <1>7 DEF DecMid
<1>9. new.pos < Len(buf) => m.bits <= new.pos * ByteBits
  BY <1>3, <1>5, <1>6 DEF b
<1> QED BY <1>8, <1>9 DEF DecOK

LEMMA RefillBytesOK ==
  ASSUME Buf \in Seq(Byte), NEW f, Prefixes(Buf, f), NEW m, MarkOK(m),
         NEW d, DecMid(d, Buf, f, m), d.pos < Len(Buf), d.cnt < 0
  PROVE  DecOK(RefillByBytes(d), Buf, f, m)
<1> DEFINE p == d.pos
           l == Len(Buf)
           s == Deficiency(d)
           fit == IF s < 0 THEN 0 ELSE s \div ByteBits + 1
           n == Min({fit, l - p})
           j == Pad(d, m)
           T == m.top * 2 ^ Margin
           e(k) == j - k * ByteBits
           A(k) == Buf[p + k] * 2 ^ (s - (k - 1) * ByteBits)
           G(k) == (T - f[p + k] * 2 ^ e(k)) - 1
           Eq(h) == h = [k \in 0 .. n |-> IF k = 0 THEN d.dif ELSE Xor(h[k - 1], A(k))]
           loaded == CHOOSE h : Eq(h)
           new == RefillByBytes(d)
           OK(k) == /\ G(k) \in Nat /\ G(k) < 2 ^ Window
                    /\ \E q \in Nat : G(k) + 1 = q * 2 ^ e(k)
<1>1. /\ l \in Nat /\ p \in Nat /\ p < l /\ p <= l
      /\ f \in [0 .. l -> Nat]
      /\ \A i \in 1 .. l : f[i] = f[i - 1] * 2 ^ ByteBits + Buf[i] /\ Buf[i] \in Byte
  BY DEF DecMid, Prefixes
<1>2. /\ s \in Nat /\ s = j - ByteBits /\ j <= Window /\ Fit(d) \in Nat
      /\ Fit(d) * ByteBits \in Nat /\ Fit(d) * ByteBits <= j /\ j \in Nat
  <2>1. /\ s \in Nat /\ s = j - ByteBits /\ j <= Window /\ Fit(d) \in Nat
        /\ Fit(d) * ByteBits \in Nat /\ Rest(d) \in Nat
        /\ Fit(d) * ByteBits + Rest(d) = j
    BY <1>1, RefillRoom
  <2>2. j \in Nat
    BY DEF DecMid
  <2> DEFINE z == Fit(d) * ByteBits
  <2>3. z \in Nat /\ z + Rest(d) = j
    BY <2>1
  <2> HIDE DEF z, j
  <2>4. z <= j
    BY <2>1, <2>2, <2>3
  <2> QED BY <2>1, <2>2, <2>4 DEF z
<1>3. ByteBits \in Nat \ {0} /\ Window \in Nat /\ \A b \in Byte : b \in Nat /\ b < 2 ^ ByteBits
  BY Widths, ByteIs
<1>4. T \in Nat
  <2>1. m.top \in Nat
    BY DEF MarkOK
  <2> QED BY <2>1, MarginIs
<1>5. /\ n \in Nat /\ n <= Fit(d) /\ p + n <= l /\ (p + n < l => n = Fit(d))
  <2>1. fit = Fit(d)
    BY <1>2 DEF Fit
  <2> HIDE DEF fit
  <2> DEFINE S == {fit, l - p}
  <2>2. S \subseteq Nat /\ S # {} /\ n = Min(S)
    BY <2>1, <1>1, <1>2
  <2>3. \A x \in S : x = fit \/ x = l - p
    OBVIOUS
  <2>4. fit \in S /\ l - p \in S
    OBVIOUS
  <2> HIDE DEF S, n
  <2>5. n \in S /\ \A x \in S : n <= x
    BY <2>2, MinIs
  <2>6. n <= fit /\ n <= l - p /\ (n = fit \/ n = l - p) /\ n \in Nat
    BY <2>2, <2>3, <2>4, <2>5
  <2>7. l \in Nat /\ p \in Nat
    BY <1>1
  <2> HIDE DEF p, l
  <2>8. p + n <= l /\ (p + n < l => n = fit)
    BY <2>6, <2>7
  <2> QED BY <2>1, <2>6, <2>8
<1>6. d.dif \in Nat /\ d.dif < 2 ^ Window /\ d.dif + 1 + f[p] * 2 ^ j = T
      /\ \E q \in Nat : d.dif + 1 = q * 2 ^ j
  BY DEF DecMid
<1> HIDE DEF p, l, s, n, j, T
<1>7. \A k \in Nat : k <= n => /\ e(k) \in Nat /\ e(k) <= j /\ p + k \in 0 .. l
                               /\ f[p + k] \in Nat /\ 2 ^ e(k) \in Nat \ {0}
  <2> SUFFICES ASSUME NEW k \in Nat, k <= n
               PROVE  /\ e(k) \in Nat /\ e(k) <= j /\ p + k \in 0 .. l
                      /\ f[p + k] \in Nat /\ 2 ^ e(k) \in Nat \ {0}
    OBVIOUS
  <2>1. k <= Fit(d) /\ p + k \in 0 .. l
    BY <1>1, <1>2, <1>5
  <2> DEFINE x == Fit(d)
  <2>6. x \in Nat /\ k <= x /\ ByteBits \in Nat
    BY <2>1, <1>2, <1>3
  <2> HIDE DEF x
  <2>7. k * ByteBits <= x * ByteBits /\ k * ByteBits \in Nat
    BY <2>6, ProductOrdered
  <2>2. k * ByteBits <= Fit(d) * ByteBits /\ k * ByteBits \in Nat
    BY <2>7 DEF x
  <2> DEFINE z == k * ByteBits
             y == Fit(d) * ByteBits
  <2>3. z \in Nat /\ y \in Nat /\ z <= y /\ y <= j /\ j \in Nat
    BY <2>2, <1>2
  <2> HIDE DEF z, y
  <2>4. j - z \in Nat /\ j - z <= j
    BY <2>3
  <2>5. e(k) \in Nat /\ e(k) <= j
    BY <2>4 DEF z
  <2> QED BY <2>1, <2>5, <1>1, PowerPositive
<1>8. \A k \in Nat : k + 1 <= n => e(k + 1) + ByteBits = e(k)
  <2> SUFFICES ASSUME NEW k \in Nat PROVE e(k + 1) + ByteBits = e(k)
    OBVIOUS
  <2>1. (k + 1) * ByteBits = k * ByteBits + ByteBits /\ k * ByteBits \in Nat
    BY ByteShift
  <2> DEFINE z == k * ByteBits
  <2>2. z \in Nat /\ (k + 1) * ByteBits = z + ByteBits
    BY <2>1
  <2> HIDE DEF z
  <2>3. (j - (z + ByteBits)) + ByteBits = j - z
    BY <2>2, <1>2, <1>3
  <2> QED BY <2>2, <2>3 DEF z
<1>9. \A k \in Nat : k + 1 <= n => s - ((k + 1) - 1) * ByteBits = e(k + 1)
  <2> SUFFICES ASSUME NEW k \in Nat
               PROVE  s - ((k + 1) - 1) * ByteBits = e(k + 1)
    OBVIOUS
  <2>4. (k + 1) * ByteBits = k * ByteBits + ByteBits /\ k * ByteBits \in Nat
    BY ByteShift
  <2>5. (k + 1) - 1 = k
    OBVIOUS
  <2>1. (k + 1) * ByteBits = k * ByteBits + ByteBits /\ k * ByteBits \in Nat /\ (k + 1) - 1 = k
    BY <2>4, <2>5
  <2> DEFINE z == k * ByteBits
  <2>2. z \in Nat /\ (k + 1) * ByteBits = z + ByteBits
    BY <2>1
  <2> HIDE DEF z
  <2>3. s - z = j - (z + ByteBits)
    BY <2>2, <1>2, <1>3
  <2> QED BY <2>1, <2>2, <2>3 DEF z
<1>10. G(0) = d.dif /\ e(0) = j
  <2>1. p + 0 = p /\ 0 * ByteBits = 0 /\ j - 0 = j
    BY <1>1, <1>2, <1>3
  <2>2. e(0) = j
    BY <2>1
  <2> DEFINE y == f[p] * 2 ^ j
  <2>3. y \in Nat /\ d.dif + 1 + y = T
    <3>1. 0 \in Nat /\ 0 <= n
      BY <1>5
    <3>2. f[p] \in Nat /\ 2 ^ j \in Nat
      BY <2>1, <2>2, <3>1, <1>7
    <3>3. y \in Nat
      BY <3>2
    <3>4. d.dif + 1 + y = T
      BY <1>6
    <3> QED BY <3>3, <3>4
  <2>4. G(0) = (T - y) - 1
    BY <2>1, <2>2
  <2> DEFINE x == d.dif
  <2>5. x \in Nat /\ x + 1 + y = T
    BY <2>3, <1>6
  <2> HIDE DEF y, x
  <2>6. (T - y) - 1 = x
    BY <2>3, <2>5, <1>4
  <2> QED BY <2>2, <2>4, <2>6 DEF x
<1>11. \A k \in Nat : k + 1 <= n /\ OK(k) => OK(k + 1) /\ Xor(G(k), A(k + 1)) = G(k + 1)
  <2> SUFFICES ASSUME NEW k \in Nat, k + 1 <= n, OK(k)
               PROVE  OK(k + 1) /\ Xor(G(k), A(k + 1)) = G(k + 1)
    OBVIOUS
  <2> DEFINE x == G(k)
             E == e(k + 1)
             V == Buf[p + (k + 1)]
             F == f[p + k]
             Q == F * 2 ^ e(k)
  <2>1. k <= n /\ k + 1 \in Nat
    BY <1>5
  <2>2. /\ E \in Nat /\ E + ByteBits = e(k) /\ e(k) <= Window /\ F \in Nat
        /\ 2 ^ e(k) \in Nat /\ 2 ^ E \in Nat \ {0}
        /\ p + (k + 1) \in 0 .. l /\ e(k) \in Nat
    <3>1. E \in Nat /\ E <= j /\ p + (k + 1) \in 0 .. l /\ 2 ^ E \in Nat \ {0}
      BY <2>1, <1>7
    <3>2. e(k) \in Nat /\ e(k) <= j /\ F \in Nat /\ 2 ^ e(k) \in Nat
      BY <2>1, <1>7
    <3>3. E + ByteBits = e(k)
      BY <1>8
    <3> DEFINE a == e(k)
    <3>4. a \in Nat /\ a <= j /\ j <= Window /\ j \in Nat /\ Window \in Nat
      BY <3>2, <1>2, <1>3
    <3> HIDE DEF a
    <3>5. a <= Window
      BY <3>4
    <3>6. e(k) <= Window
      BY <3>5 DEF a
    <3> HIDE DEF e, E, F
    <3> QED BY <3>1, <3>2, <3>3, <3>6 DEF E
  <2>3. V \in Nat /\ V < 2 ^ ByteBits /\ f[p + (k + 1)] = F * 2 ^ ByteBits + V
    <3>1. p + (k + 1) \in 1 .. l /\ (p + (k + 1)) - 1 = p + k
      BY <2>2, <1>1
    <3>2. V \in Byte /\ f[p + (k + 1)] = f[(p + (k + 1)) - 1] * 2 ^ ByteBits + V
      BY <3>1, <1>1
    <3> QED BY <3>1, <3>2, <1>3
  <2>4. A(k + 1) = V * 2 ^ E
    BY <1>9
  <2>5. x \in Nat /\ x < 2 ^ Window
    OBVIOUS
  <2>6. PICK q \in Nat : x + 1 = q * 2 ^ e(k)
    OBVIOUS
  <2>7. x + 1 + Q = T
    <3>1. Q \in Nat
      <4> DEFINE a == 2 ^ e(k)
      <4>1. a \in Nat /\ F \in Nat
        BY <2>2
      <4> HIDE DEF a, F
      <4>2. F * a \in Nat
        BY <4>1
      <4> QED BY <4>2 DEF a
    <3>2. x = (T - Q) - 1
      OBVIOUS
    <3> HIDE DEF Q, x
    <3> QED BY <3>1, <3>2, <1>4
  <2> DEFINE z == Xor(x, V * 2 ^ E)
  <2> HIDE DEF x, E, V, F, e, G
  <2>8. /\ z \in Nat /\ z < 2 ^ Window /\ \E r \in Nat : z + 1 = r * 2 ^ E
        /\ z + 1 + (F * 2 ^ ByteBits + V) * 2 ^ E = T
    <3>1. E + ByteBits <= Window /\ x + 1 = q * 2 ^ (E + ByteBits)
          /\ x + 1 + F * 2 ^ (E + ByteBits) = T
      BY <2>2, <2>6, <2>7, Zenon DEF Q
    <3>2. ByteBits \in Nat /\ E \in Nat /\ F \in Nat /\ V \in Nat /\ x \in Nat
      BY <2>2, <2>3, <2>5, <1>3
    <3>3. x < 2 ^ Window /\ V < 2 ^ ByteBits
      BY <2>3, <2>5
    <3> HIDE DEF Q
    <3>4. CanLoad(x, E, ByteBits, q, V, F, T)
      BY <3>1, <3>2, <3>3, Zenon DEF CanLoad
    <3>5. HasLoaded(z, E, ByteBits, V, F, T)
      BY <3>4, Loaded, Zenon DEF z
    <3> HIDE DEF z
    <3> QED BY <3>5, Zenon DEF HasLoaded
  <2> HIDE DEF z
  <2>9. z = G(k + 1)
    <3> DEFINE y == f[p + (k + 1)] * 2 ^ E
    <3>1. y \in Nat /\ z + 1 + y = T
      <4> DEFINE a == f[p + (k + 1)]
                 c == 2 ^ E
      <4>2. a \in Nat /\ c \in Nat
        <5>1. p + (k + 1) \in 0 .. l /\ c \in Nat
          BY <2>2
        <5> QED BY <5>1, <1>1
      <4>3. z + 1 + a * c = T
        BY <2>3, <2>8, Zenon
      <4> HIDE DEF a, c
      <4>4. a * c \in Nat
        BY <4>2
      <4> QED BY <4>3, <4>4 DEF a, c
    <3>2. G(k + 1) = (T - y) - 1
      BY DEF G, E
    <3> HIDE DEF y
    <3>3. (T - y) - 1 = z
      BY <3>1, <2>8, <1>4
    <3> QED BY <3>2, <3>3
  <2>10. Xor(x, A(k + 1)) = G(k + 1)
    BY <2>4, <2>9 DEF z
  <2>11. OK(k + 1)
    BY <2>8, <2>9 DEF E
  <2> QED BY <2>10, <2>11 DEF x
<1>12. \A k \in Nat : k <= n => OK(k)
  <2> DEFINE S == {k \in Nat : k <= n => OK(k)}
  <2>1. 0 \in S
    BY <1>6, <1>10
  <2>2. \A k \in Nat : k \in S => k + 1 \in S
    <3> SUFFICES ASSUME NEW k \in Nat, k \in S, k + 1 <= n PROVE OK(k + 1)
      OBVIOUS
    <3>1. k <= n
      BY <1>5
    <3> HIDE DEF OK
    <3>2. OK(k)
      BY <3>1
    <3> QED BY <3>2, <1>11
  <2> HIDE DEF S
  <2>3. Nat \subseteq S
    BY <2>1, <2>2, SetInduction
  <2> HIDE DEF OK
  <2> QED BY <2>3 DEF S
<1>13. \A k \in 0 .. n : k # 0 => Xor(G(k - 1), A(k)) = G(k)
  <2> SUFFICES ASSUME NEW k \in 0 .. n, k # 0 PROVE Xor(G(k - 1), A(k)) = G(k)
    OBVIOUS
  <2>1. k - 1 \in Nat /\ (k - 1) + 1 = k /\ (k - 1) + 1 <= n /\ k - 1 <= n
    BY <1>5
  <2> DEFINE i == k - 1
  <2>2. i \in Nat /\ i + 1 <= n /\ i <= n /\ i + 1 = k
    BY <2>1
  <2> HIDE DEF OK, i, G, A
  <2>3. Xor(G(i), A(i + 1)) = G(i + 1)
    BY <2>2, <1>11, <1>12
  <2> QED BY <2>2, <2>3 DEF i
<1> HIDE DEF G, A, e, OK
<1>14. Eq(loaded)
  <2> DEFINE g == [k \in 0 .. n |-> G(k)]
             x == [k \in 0 .. n |-> IF k = 0 THEN d.dif ELSE Xor(g[k - 1], A(k))]
  <2>1. \A k \in 0 .. n : g[k] = x[k]
    <3> SUFFICES ASSUME NEW k \in 0 .. n PROVE g[k] = x[k]
      OBVIOUS
    <3>1. CASE k = 0
      BY <3>1, <1>10
    <3>2. CASE k # 0
      <4>1. k - 1 \in 0 .. n
        BY <3>2, <1>5
      <4>2. g[k] = G(k) /\ g[k - 1] = G(k - 1) /\ x[k] = Xor(g[k - 1], A(k))
        BY <4>1, <3>2
      <4> HIDE DEF g, x
      <4> QED BY <4>2, <3>2, <1>13
    <3> QED BY <3>1, <3>2
  <2>2. g = [k \in 0 .. n |-> g[k]] /\ x = [k \in 0 .. n |-> x[k]]
    OBVIOUS
  <2> HIDE DEF g, x
  <2>3. g = x
    BY <2>1, <2>2
  <2>4. Eq(g)
    BY <2>3 DEF x
  <2> HIDE DEF Eq
  <2>5. \E h : Eq(h)
    BY <2>4
  <2> QED BY <2>5, Zenon
<1>15. new = [pos |-> p + n, dif |-> loaded[n], rng |-> d.rng,
              cnt |-> IF p + n >= l THEN LotsOfBits ELSE d.cnt + n * ByteBits]
  BY DEF RefillByBytes, p, n, l, s, A
<1> HIDE DEF loaded, new
<1>16. loaded[n] = G(n)
  <2>1. \A k \in 0 .. n : loaded[k] = IF k = 0 THEN d.dif ELSE Xor(loaded[k - 1], A(k))
    BY <1>14
  <2> DEFINE S == {k \in Nat : k <= n => loaded[k] = G(k)}
  <2>2. 0 \in S
    BY <2>1, <1>5, <1>10
  <2>3. \A k \in Nat : k \in S => k + 1 \in S
    <3> SUFFICES ASSUME NEW k \in Nat, k \in S, k + 1 <= n PROVE loaded[k + 1] = G(k + 1)
      OBVIOUS
    <3>1. k + 1 \in 0 .. n /\ k + 1 # 0 /\ (k + 1) - 1 = k /\ k <= n
      BY <1>5
    <3>2. loaded[k + 1] = Xor(loaded[k], A(k + 1)) /\ loaded[k] = G(k)
      BY <2>1, <3>1
    <3>3. Xor(G(k), A(k + 1)) = G(k + 1)
      BY <3>1, <1>13
    <3> QED BY <3>2, <3>3
  <2> HIDE DEF S
  <2>4. n \in S
    BY <1>5, <2>2, <2>3, SetInduction
  <2> QED BY <2>4, <1>5 DEF S
<1>17. /\ G(n) \in Nat /\ G(n) < 2 ^ Window /\ \E q \in Nat : G(n) + 1 = q * 2 ^ e(n)
       /\ G(n) + 1 + f[p + n] * 2 ^ e(n) = T
  <2>1. OK(n)
    BY <1>5, <1>12
  <2> DEFINE y == f[p + n] * 2 ^ e(n)
  <2>2. y \in Nat
    BY <1>5, <1>7
  <2>3. G(n) = (T - y) - 1
    BY DEF G
  <2> HIDE DEF y
  <2>4. G(n) + 1 + y = T
    BY <2>2, <2>3, <1>4
  <2> QED BY <2>1, <2>4 DEF OK, y
<1>18. /\ new.pos = p + n /\ new.dif = G(n) /\ new.rng = d.rng
       /\ new.cnt = IF p + n >= l THEN LotsOfBits ELSE d.cnt + n * ByteBits
  BY <1>15, <1>16
<1>19. new.cnt \in Int /\ (p + n < l => new.cnt = d.cnt + n * ByteBits)
  <2>1. d.cnt \in Int /\ LotsOfBits \in Nat /\ n * ByteBits \in Int
    BY Widths, <1>3, <1>5 DEF DecMid
  <2>2. p + n \in Nat
    BY <1>1, <1>5
  <2> DEFINE z == n * ByteBits
  <2> HIDE DEF z
  <2>3. d.cnt + z \in Int
    BY <2>1 DEF z
  <2> QED BY <2>1, <2>2, <2>3, <1>1, <1>18 DEF z
<1>20. /\ \E r \in Nat : new.dif + 1 = r * 2 ^ (Pad(d, m) - n * ByteBits)
       /\ new.dif + 1 + f[d.pos + n] * 2 ^ (Pad(d, m) - n * ByteBits) = m.top * 2 ^ Margin
       /\ new.dif \in Nat /\ new.dif < 2 ^ Window
  <2> DEFINE x == G(n)
  <2> HIDE DEF x
  <2>1. new.dif = x
    BY <1>18 DEF x
  <2>2. /\ x \in Nat /\ x < 2 ^ Window /\ \E q \in Nat : x + 1 = q * 2 ^ (Pad(d, m) - n * ByteBits)
        /\ x + 1 + f[d.pos + n] * 2 ^ (Pad(d, m) - n * ByteBits) = m.top * 2 ^ Margin
    BY <1>17, Zenon DEF x, e, j, p, T
  <2> QED BY <2>1, <2>2, Zenon
<1>21. /\ Len(Buf) \in Nat /\ n \in Nat /\ n <= Fit(d) /\ d.pos + n <= Len(Buf)
       /\ (d.pos + n < Len(Buf) => n = Fit(d))
       /\ new.pos = d.pos + n /\ new.rng = d.rng /\ new.cnt \in Int
       /\ (d.pos + n < Len(Buf) => new.cnt = d.cnt + n * ByteBits)
  BY <1>1, <1>5, <1>18, <1>19, Zenon DEF p, l
<1>22. DecOK(new, Buf, f, m)
  BY <1>20, <1>21, BytesIn
<1> QED BY <1>22 DEF new

(* The bytes of a wide load, as the recursion of the load counts them up. *)
WideStep(p, k, h) ==
  h = [i \in 0 .. k |-> IF i = 0 THEN 0 ELSE h[i - 1] * 2 ^ ByteBits + Buf[p + i]]
WideRaw(p, k) == CHOOSE h : WideStep(p, k, h)

(* They are the tail of the number: what its prefix does not already hold. *)
LEMMA WideTail ==
  ASSUME Buf \in Seq(Byte), NEW f, Prefixes(Buf, f), NEW p \in 0 .. Len(Buf),
         NEW k \in Nat, p + k <= Len(Buf)
  PROVE  /\ WideRaw(p, k)[k] \in Nat /\ WideRaw(p, k)[k] < 2 ^ (k * ByteBits)
         /\ f[p + k] = f[p] * 2 ^ (k * ByteBits) + WideRaw(p, k)[k] /\ f[p] \in Nat
<1> DEFINE T(i) == f[p + i] - f[p] * 2 ^ (i * ByteBits)
           B == 2 ^ ByteBits
<1>1. Len(Buf) \in Nat /\ p \in Nat
  OBVIOUS
<1>2. \A i \in 0 .. k : /\ T(i) \in Nat /\ T(i) < 2 ^ (i * ByteBits)
                        /\ f[p + i] = f[p] * 2 ^ (i * ByteBits) + T(i)
                        /\ f[p] * 2 ^ (i * ByteBits) \in Nat
  <2> SUFFICES ASSUME NEW i \in 0 .. k
               PROVE  /\ T(i) \in Nat /\ T(i) < 2 ^ (i * ByteBits)
                      /\ f[p + i] = f[p] * 2 ^ (i * ByteBits) + T(i)
                      /\ f[p] * 2 ^ (i * ByteBits) \in Nat
    OBVIOUS
  <2>1. i \in Nat /\ p + i <= Len(Buf)
    BY <1>1
  <2>2. /\ f[p] \in Nat /\ f[p + i] \in Nat
        /\ \E t \in Nat : t < 2 ^ (i * ByteBits) /\ f[p + i] = f[p] * 2 ^ (i * ByteBits) + t
    <3>1. f[p] \in Nat /\ f[p + i] \in Nat
      <4>1. p \in 0 .. Len(Buf) /\ p + i \in 0 .. Len(Buf)
        BY <2>1, <1>1
      <4> QED BY <4>1 DEF Prefixes
    <3>2. \E t \in Nat : t < 2 ^ (i * ByteBits) /\ f[p + i] = f[p] * 2 ^ (i * ByteBits) + t
      <4>1. p \in 0 .. Len(Buf) /\ i \in Nat /\ p + i <= Len(Buf)
        BY <2>1
      <4> QED BY <4>1, PrefixTail
    <3> QED BY <3>1, <3>2
  <2>3. PICK t \in Nat : t < 2 ^ (i * ByteBits) /\ f[p + i] = f[p] * 2 ^ (i * ByteBits) + t
    BY <2>2
  <2> DEFINE y == f[p] * 2 ^ (i * ByteBits)
  <2>4. y \in Nat
    <3> DEFINE a == 2 ^ (i * ByteBits)
    <3>1. a \in Nat
      BY <2>1, ByteShift
    <3> DEFINE b == f[p]
    <3>2. b \in Nat
      BY <2>2
    <3> HIDE DEF a, b
    <3>3. b * a \in Nat
      BY <3>1, <3>2
    <3> QED BY <3>3 DEF a, b
  <2>5. f[p + i] = y + t /\ T(i) = f[p + i] - y
    BY <2>3
  <2> HIDE DEF y, T
  <2>6. T(i) = t
    BY <2>2, <2>4, <2>5
  <2> QED BY <2>3, <2>4, <2>6 DEF y
<1>3. T(0) = 0
  <2>1. 0 \in 0 .. k /\ 0 * ByteBits = 0 /\ 2 ^ 0 = 1
    BY Widths
  <2>2. T(0) \in Nat /\ T(0) < 2 ^ (0 * ByteBits)
    BY <2>1, <1>2
  <2> HIDE DEF T
  <2>3. 2 ^ (0 * ByteBits) = 1
    BY <2>1, Zenon
  <2> QED BY <2>2, <2>3
<1>4. \A i \in 1 .. k : T(i) = T(i - 1) * B + Buf[p + i]
  <2> SUFFICES ASSUME NEW i \in 1 .. k PROVE T(i) = T(i - 1) * B + Buf[p + i]
    OBVIOUS
  <2> DEFINE h == i - 1
  <2>1. /\ h \in Nat /\ h \in 0 .. k /\ i \in 0 .. k /\ h + 1 = i /\ p + i \in 1 .. Len(Buf)
        /\ (p + i) - 1 = p + h
    BY <1>1
  <2>2. f[p + i] = f[p + h] * B + Buf[p + i] /\ Buf[p + i] \in Nat /\ B \in Nat
    <3>1. f[p + i] = f[(p + i) - 1] * B + Buf[p + i] /\ Buf[p + i] \in Byte
      BY <2>1 DEF Prefixes
    <3> QED BY <3>1, <2>1, ByteIs
  <2>3. 2 ^ (i * ByteBits) = 2 ^ (h * ByteBits) * B /\ 2 ^ (h * ByteBits) \in Nat
    BY <2>1, ByteShift
  <2>4. f[p] \in Nat
    BY <1>1 DEF Prefixes
  <2> DEFINE a == 2 ^ (h * ByteBits)
             F == f[p]
             b == Buf[p + i]
             t == T(h)
             u == T(i)
             y == F * a
  <2>5. /\ t \in Nat /\ u \in Nat /\ f[p + h] = y + t /\ f[p + i] = F * 2 ^ (i * ByteBits) + u
    BY <2>1, <1>2
  <2> HIDE DEF a, F, b, t, u, B, T
  <2>6. F * (a * B) + u = (F * a + t) * B + b
    BY <2>2, <2>3, <2>5 DEF a, F, b
  <2>11. a \in Nat /\ F \in Nat /\ t \in Nat /\ B \in Nat
    BY <2>2, <2>3, <2>4, <2>5 DEF a, F
  <2>7. (F * a + t) * B = F * (a * B) + t * B
    BY <2>11
  <2>8. F * (a * B) \in Nat /\ t * B \in Nat
    BY <2>11
  <2> DEFINE x == F * (a * B)
             z == t * B
  <2>9. x + u = (x + z) + b /\ x \in Nat /\ z \in Nat /\ b \in Nat
    BY <2>2, <2>6, <2>7, <2>8 DEF b
  <2> HIDE DEF x, z
  <2>10. u = z + b
    BY <2>5, <2>9
  <2> QED BY <2>10 DEF z, u, t, b, h
<1> HIDE DEF T, B
<1> DEFINE raw == WideRaw(p, k)
<1>5. WideStep(p, k, raw)
  <2> DEFINE g == [i \in 0 .. k |-> T(i)]
             x == [i \in 0 .. k |-> IF i = 0 THEN 0 ELSE g[i - 1] * 2 ^ ByteBits + Buf[p + i]]
  <2>1. \A i \in 0 .. k : g[i] = x[i]
    <3> SUFFICES ASSUME NEW i \in 0 .. k PROVE g[i] = x[i]
      OBVIOUS
    <3>1. CASE i = 0
      BY <3>1, <1>3
    <3>2. CASE i # 0
      <4>1. i - 1 \in 0 .. k /\ i \in 1 .. k
        BY <3>2
      <4>2. g[i] = T(i) /\ g[i - 1] = T(i - 1) /\ x[i] = g[i - 1] * B + Buf[p + i]
        BY <4>1, <3>2 DEF B
      <4> HIDE DEF g, x
      <4> QED BY <4>1, <4>2, <1>4
    <3> QED BY <3>1, <3>2
  <2>2. g = [i \in 0 .. k |-> g[i]] /\ x = [i \in 0 .. k |-> x[i]]
    OBVIOUS
  <2> HIDE DEF g, x
  <2>3. g = x
    BY <2>1, <2>2
  <2>4. WideStep(p, k, g)
    BY <2>3 DEF x, WideStep
  <2>5. \E h : WideStep(p, k, h)
    BY <2>4
  <2> QED BY <2>5, Zenon DEF WideRaw
<1> HIDE DEF raw
<1>6. raw[k] = T(k)
  <2>1. \A i \in 0 .. k : raw[i] = IF i = 0 THEN 0 ELSE raw[i - 1] * B + Buf[p + i]
    BY <1>5 DEF WideStep, B
  <2> DEFINE S == {i \in Nat : i <= k => raw[i] = T(i)}
  <2>2. 0 \in S
    BY <2>1, <1>3
  <2>3. \A i \in Nat : i \in S => i + 1 \in S
    <3> SUFFICES ASSUME NEW i \in Nat, i \in S, i + 1 <= k PROVE raw[i + 1] = T(i + 1)
      OBVIOUS
    <3>1. i + 1 \in 0 .. k /\ i + 1 \in 1 .. k /\ i + 1 # 0 /\ (i + 1) - 1 = i /\ i <= k
      OBVIOUS
    <3>2. raw[i + 1] = raw[i] * B + Buf[p + (i + 1)] /\ raw[i] = T(i)
      BY <2>1, <3>1
    <3>3. T(i + 1) = T(i) * B + Buf[p + (i + 1)]
      BY <3>1, <1>4
    <3> QED BY <3>2, <3>3
  <2> HIDE DEF S
  <2>4. k \in S
    BY <2>2, <2>3, SetInduction
  <2> QED BY <2>4 DEF S
<1>7. k \in 0 .. k /\ p \in 0 .. Len(Buf)
  OBVIOUS
<1>8. f[p] \in Nat
  BY <1>7 DEF Prefixes
<1> QED BY <1>2, <1>6, <1>7, <1>8 DEF raw

LEMMA RefillWideOK ==
  ASSUME Buf \in Seq(Byte), NEW f, Prefixes(Buf, f), NEW m, MarkOK(m),
         NEW d, DecMid(d, Buf, f, m), d.pos < Len(Buf), d.cnt < 0, CanLoadWide(d)
  PROVE  DecOK(RefillWide(d), Buf, f, m)
<1> DEFINE p == d.pos
           l == Len(Buf)
           s == Deficiency(d)
           k == Fit(d)
           r == Rest(d)
           g == k * ByteBits
           j == Pad(d, m)
           all == Window \div ByteBits
           V == WideRaw(p, k)[k]
           F == f[p]
           T == m.top * 2 ^ Margin
           x == d.dif
           new == RefillWide(d)
<1>1. l \in Nat /\ p \in Nat /\ p < l /\ l - p >= all /\ p \in 0 .. l
  BY DEF DecMid, CanLoadWide
<1>2. /\ s \in Nat /\ s = j - ByteBits /\ j <= Window /\ k \in Nat /\ r \in Nat
      /\ g \in Nat /\ g + r = j
  BY <1>1, RefillRoom
<1>3. ByteBits \in Nat \ {0} /\ Window \in Nat /\ Window % ByteBits = 0
  BY Widths, CoderAssumption
<1>4. j \in Nat
  BY DEF DecMid
<1>5. all \in Nat /\ all * ByteBits = Window
  <2>1. all \in Nat /\ Window = all * ByteBits + (Window % ByteBits)
    BY <1>3, Remainder
  <2> DEFINE z == all * ByteBits
  <2>2. z \in Nat /\ Window = z + 0
    BY <2>1, <1>3
  <2> HIDE DEF z
  <2>3. z = Window
    BY <2>2
  <2> QED BY <2>1, <2>3 DEF z
<1> HIDE DEF j, s, k, r, all
<1>6. k <= all /\ p + k <= l
  <2>1. g <= Window
    <3> HIDE DEF g
    <3> QED BY <1>2, <1>3, <1>4
  <2>2. ~(all * ByteBits < k * ByteBits)
    BY <2>1, <1>2, <1>3, <1>5
  <2>3. ~(all < k)
    BY <2>2, <1>2, <1>3, <1>5, ProductStrict
  <2>4. k <= all
    BY <2>3, <1>2, <1>5
  <2> HIDE DEF p, l
  <2> QED BY <2>4, <1>1, <1>2, <1>5
<1>7. V \in Nat /\ V < 2 ^ g /\ f[p + k] = F * 2 ^ g + V /\ F \in Nat
  <2> HIDE DEF p, l
  <2>1. p \in 0 .. Len(Buf) /\ k \in Nat /\ p + k <= Len(Buf)
    BY <1>1, <1>2, <1>6 DEF l
  <2> QED BY <2>1, WideTail
<1>8. new = [pos |-> p + k,
             dif |-> Xor(x, Half(V * 2 ^ ((all - k) * ByteBits), Window - ByteBits - s)),
             rng |-> d.rng, cnt |-> d.cnt + g]
  BY Zenon DEF RefillWide, WideBytes, Fit, k, s, all, WideRaw, WideStep
<1> HIDE DEF V, F, p, l
<1>9. Half(V * 2 ^ ((all - k) * ByteBits), Window - ByteBits - s) = V * 2 ^ r
  <2> DEFINE h == Window - ByteBits - s
             o == (all - k) * ByteBits
  <2>1. h \in Nat /\ h = Window - j
    BY <1>2, <1>3, <1>4
  <2>2. o = h + r
    <3>1. (all - k) * ByteBits = all * ByteBits - k * ByteBits
      BY <1>2, <1>3, <1>5
    <3>2. o = Window - g
      BY <3>1, <1>5
    <3> HIDE DEF o, g, h
    <3> QED BY <3>2, <2>1, <1>2, <1>3, <1>4
  <2>3. r + h \in Nat /\ o = r + h
    <3> HIDE DEF o, h
    <3> QED BY <2>1, <2>2, <1>2
  <2> HIDE DEF o, h
  <2>4. 2 ^ o = 2 ^ r * 2 ^ h
    BY <2>1, <2>3, <1>2, PowerAdds
  <2> DEFINE R == 2 ^ r
             H == 2 ^ h
  <2>5. R \in Nat /\ H \in Nat \ {0}
    BY <2>1, <1>2, PowerPositive
  <2>6. V * (R * H) = (V * R) * H + 0 /\ V * R \in Nat
    <3> HIDE DEF R, H
    <3> QED BY <2>5, <1>7
  <2> HIDE DEF R
  <2> DEFINE y == V * R
  <2> HIDE DEF y
  <2>7. Half(y * 2 ^ h + 0, h) = y
    <3>1. y \in Nat /\ h \in Nat /\ 0 < 2 ^ h
      BY <2>1, <2>5, <2>6 DEF y
    <3> QED BY <3>1, HalvedIs
  <2>8. V * 2 ^ o = y * 2 ^ h + 0
    BY <2>4, <2>6 DEF R, y
  <2>9. Half(V * 2 ^ o, h) = V * 2 ^ r
    BY <2>7, <2>8 DEF y, R
  <2> QED BY <2>9 DEF o, h
<1>10. PICK q \in Nat : x + 1 = q * 2 ^ j
  BY <1>1 DEF DecMid, j, p, l
<1>11. x \in Nat /\ x < 2 ^ Window /\ x + 1 + F * 2 ^ j = T
  BY DEF DecMid, F, p, j
<1> DEFINE z == Xor(x, V * 2 ^ r)
<1> HIDE DEF x, g, T, new
<1>12. HasLoaded(z, r, g, V, F, T)
  <2>1. r + g = j
    BY <1>2
  <2>2. CanLoad(x, r, g, q, V, F, T)
    <3>1. /\ x \in Nat /\ r \in Nat /\ g \in Nat /\ q \in Nat /\ V \in Nat /\ F \in Nat
          /\ x < 2 ^ Window /\ V < 2 ^ g
      BY <1>2, <1>7, <1>11
    <3>2. r + g <= Window
      BY <2>1, <1>2
    <3>3. x + 1 = q * 2 ^ (r + g) /\ x + 1 + F * 2 ^ (r + g) = T
      BY <2>1, <1>10, <1>11, Zenon
    <3> QED BY <3>1, <3>2, <3>3, Zenon DEF CanLoad
  <2> QED BY <2>2, Loaded, Zenon
<1> HIDE DEF z
<1>13. new = [pos |-> p + k, dif |-> z, rng |-> d.rng, cnt |-> d.cnt + g]
  BY <1>8, <1>9, Zenon DEF z
<1>14. new.pos = p + k /\ new.dif = z /\ new.rng = d.rng /\ new.cnt = d.cnt + g
  BY <1>13
<1>15. new.cnt \in Int
  <2>1. d.cnt \in Int
    BY DEF DecMid
  <2> DEFINE c == d.cnt
  <2> HIDE DEF c
  <2>2. c + g \in Int
    BY <2>1, <1>2 DEF c
  <2> QED BY <2>2, <1>14 DEF c
<1>16. r = j - g
  BY <1>2, <1>4
<1>17. /\ z \in Nat /\ z < 2 ^ Window /\ \E u \in Nat : z + 1 = u * 2 ^ r
       /\ z + 1 + f[p + k] * 2 ^ r = T
  BY <1>7, <1>12, Zenon DEF HasLoaded
<1>18. /\ \E u \in Nat : new.dif + 1 = u * 2 ^ (Pad(d, m) - k * ByteBits)
       /\ new.dif + 1 + f[d.pos + k] * 2 ^ (Pad(d, m) - k * ByteBits) = m.top * 2 ^ Margin
       /\ new.dif \in Nat /\ new.dif < 2 ^ Window
  BY <1>14, <1>16, <1>17, Zenon DEF j, g, p, T
<1>19. k <= k /\ k = Fit(d) /\ Len(Buf) \in Nat /\ k \in Nat /\ k <= Fit(d)
  BY <1>1, <1>2 DEF k, l
<1>20. /\ d.pos + k <= Len(Buf) /\ (d.pos + k < Len(Buf) => k = Fit(d))
       /\ new.pos = d.pos + k /\ new.rng = d.rng /\ new.cnt \in Int
       /\ (d.pos + k < Len(Buf) => new.cnt = d.cnt + k * ByteBits)
  BY <1>6, <1>14, <1>15, <1>19, Zenon DEF p, l, g
<1>21. DecOK(new, Buf, f, m)
  BY <1>18, <1>19, <1>20, BytesIn
<1> QED BY <1>21 DEF new

(* Once the bytes have run out the window stays as it is. *)
LEMMA RefillEmpty ==
  ASSUME Buf \in Seq(Byte), NEW f, NEW m,
         NEW d, DecMid(d, Buf, f, m), d.pos = Len(Buf)
  PROVE  ~CanLoadWide(d) /\ DecOK(RefillByBytes(d), Buf, f, m)
<1> DEFINE l == Len(Buf)
           s == Deficiency(d)
           fit == IF s < 0 THEN 0 ELSE s \div ByteBits + 1
           n == Min({fit, Len(Buf) - d.pos})
           A(k) == Buf[d.pos + k] * 2 ^ (s - (k - 1) * ByteBits)
           Eq(h) == h = [k \in 0 .. n |-> IF k = 0 THEN d.dif ELSE Xor(h[k - 1], A(k))]
           loaded == CHOOSE h : Eq(h)
           new == RefillByBytes(d)
<1>1. l \in Nat /\ d.pos = l /\ d.cnt \in Int /\ LotsOfBits \in Nat
  BY Widths DEF DecMid
<1>2. ~CanLoadWide(d)
  <2>1. ByteBits \in Nat \ {0} /\ Window \in Nat /\ ByteBits <= Window
    BY Widths
  <2> DEFINE all == Window \div ByteBits
             r == Window % ByteBits
  <2>2. all \in Nat /\ r \in Nat /\ r < ByteBits /\ Window = all * ByteBits + r
    BY <2>1, Remainder
  <2> HIDE DEF all, r
  <2>3. all # 0
    <3>1. 0 * ByteBits = 0
      BY <2>1
    <3> QED BY <3>1, <2>1, <2>2
  <2>4. l - d.pos = 0
    BY <1>1
  <2> HIDE DEF l
  <2>5. ~(l - d.pos >= all)
    BY <2>2, <2>3, <2>4
  <2> QED BY <2>5 DEF CanLoadWide, all, l
<1>3. n = 0
  <2>1. fit \in Nat
    <3>1. s \in Int
      BY <1>1, Widths DEF Deficiency
    <3>2. CASE s < 0
      BY <3>2
    <3>3. CASE s >= 0
      <4> HIDE DEF s
      <4>1. s \div ByteBits \in Nat
        BY <3>1, <3>3, Widths, Remainder
      <4> DEFINE q == s \div ByteBits
      <4>2. q \in Nat /\ fit = q + 1
        BY <4>1, <3>1, <3>3
      <4> HIDE DEF q, fit
      <4> QED BY <4>2
    <3> QED BY <3>1, <3>2, <3>3
  <2> HIDE DEF fit, n
  <2> DEFINE S == {fit, Len(Buf) - d.pos}
  <2>2. Len(Buf) - d.pos = 0
    BY <1>1
  <2>3. S \subseteq Nat /\ S # {} /\ n = Min(S) /\ 0 \in S
    BY <2>1, <2>2 DEF n
  <2> HIDE DEF S
  <2>4. n \in Nat /\ n <= 0
    BY <2>3, MinIs
  <2> QED BY <2>4
<1>4. loaded[0] = d.dif
  <2> DEFINE g == [k \in 0 .. n |-> d.dif]
  <2>1. Eq(g)
    <3>1. \A k \in 0 .. n : k = 0
      BY <1>3
    <3> HIDE DEF n
    <3> QED BY <3>1
  <2>2. 0 \in 0 .. n
    BY <1>3
  <2> HIDE DEF Eq, n
  <2>3. \E h : Eq(h)
    BY <2>1
  <2>4. Eq(loaded)
    BY <2>3, Zenon
  <2> HIDE DEF loaded
  <2> QED BY <2>2, <2>4 DEF Eq
<1>5. new = [pos |-> d.pos + n, dif |-> loaded[n], rng |-> d.rng,
             cnt |-> IF d.pos + n >= Len(Buf) THEN LotsOfBits ELSE d.cnt + n * ByteBits]
  BY Zenon DEF RefillByBytes
<1> HIDE DEF loaded, n, new
<1>6. new.pos = d.pos /\ new.dif = d.dif /\ new.rng = d.rng /\ new.cnt \in Int
  BY <1>1, <1>3, <1>4, <1>5
<1>7. Pad(new, m) = Pad(d, m)
  BY <1>6 DEF Pad
<1>8. ~(new.pos < Len(Buf))
  BY <1>1, <1>6
<1>9. DecMid(new, Buf, f, m)
  <2>1. /\ d.pos \in 0 .. Len(Buf) /\ d.rng = m.rng /\ Pad(d, m) \in Nat
        /\ d.dif \in Nat /\ d.dif < 2 ^ Window
        /\ d.dif + 1 + f[d.pos] * 2 ^ Pad(d, m) = m.top * 2 ^ Margin
    BY DEF DecMid
  <2> QED BY <2>1, <1>6, <1>7, <1>8, Zenon DEF DecMid
<1> QED BY <1>2, <1>8, <1>9 DEF DecOK, new

LEMMA RefilledOK ==
  ASSUME Buf \in Seq(Byte), NEW f, Prefixes(Buf, f), NEW m, MarkOK(m),
         NEW d, DecMid(d, Buf, f, m), d.cnt < 0
  PROVE  DecOK(Refilled(d), Buf, f, m)
<1>1. d.pos < Len(Buf) \/ d.pos = Len(Buf)
  BY DEF DecMid
<1>2. CASE d.pos = Len(Buf)
  BY <1>2, RefillEmpty DEF Refilled
<1>3. CASE d.pos < Len(Buf)
  <2>1. CASE CanLoadWide(d)
    BY <1>3, <2>1, RefillWideOK DEF Refilled
  <2>2. CASE ~CanLoadWide(d)
    BY <1>3, <2>2, RefillBytesOK DEF Refilled
  <2> QED BY <2>1, <2>2
<1> QED BY <1>1, <1>2, <1>3

(* Reading an item: the scan finds what was written, and the decoder stands at
   the next mark. *)
LEMMA DecodedOK ==
  ASSUME Buf \in Seq(Byte), NEW f, Prefixes(Buf, f), NEW m, MarkOK(m),
         NEW d, DecOK(d, Buf, f, m), NEW b, MarkOK(b), NEW item, NEW ad,
         Follows(m, b, item, ad),
         Within(f[Len(Buf)], ByteBits * Len(Buf), b.top, b.rng, b.bits)
  PROVE  /\ Scanned(d, ItemCdf(m, item)) = item.val
         /\ DecOK(Decoded(d, ItemCdf(m, item)), Buf, f, b)
<1> DEFINE cdf == ItemCdf(m, item)
           v == LowOf(m, item)
           u == HighOf(m, item)
           x == d.dif - v * 2 ^ Margin
           new == Shifted(d, x, u - v)
<1>1. /\ Scanned(d, cdf) = item.val /\ v * 2 ^ Margin <= d.dif /\ d.dif < u * 2 ^ Margin
  BY ScanFinds
<1>2. d.rng = m.rng
  BY DEF DecOK, DecMid
<1>3. Decoded(d, cdf) = IF new.cnt < 0 THEN Refilled(new) ELSE new
  BY <1>1, <1>2, Zenon DEF Decoded, NormalizedDec, LowOf, HighOf, Margin
<1>4. Len(Buf) \in Nat /\ f \in [0 .. Len(Buf) -> Nat]
  BY DEF Prefixes
<1>5. DecMid(new, Buf, f, b)
  BY <1>1, <1>4, PartTaken
<1> HIDE DEF new
<1>6. CASE new.cnt < 0
  <2>1. DecOK(Refilled(new), Buf, f, b)
    BY <1>5, <1>6, RefilledOK
  <2> QED BY <2>1, <1>1, <1>3, <1>6
<1>7. CASE ~(new.cnt < 0)
  <2>1. new.pos < Len(Buf) => b.bits <= new.pos * ByteBits
    <3> SUFFICES ASSUME new.pos < Len(Buf) PROVE b.bits <= new.pos * ByteBits
      OBVIOUS
    <3> DEFINE y == new.pos * ByteBits
               c == new.cnt
               z == b.bits
    <3>1. c = y - z /\ new.pos \in Nat /\ c \in Int /\ ~(c < 0)
      BY <1>5, <1>7 DEF DecMid
    <3>2. y \in Nat /\ z \in Nat
      <4>1. z \in Nat /\ ByteBits \in Nat
        BY Widths DEF MarkOK
      <4> DEFINE w == new.pos
      <4>2. w \in Nat
        BY <3>1
      <4> HIDE DEF w
      <4>3. w * ByteBits \in Nat
        BY <4>1, <4>2
      <4> QED BY <4>1, <4>3 DEF w
    <3> HIDE DEF y, z, c
    <3>3. z <= y
      BY <3>1, <3>2
    <3> QED BY <3>3 DEF z, y
  <2>2. DecOK(new, Buf, f, b)
    BY <2>1, <1>5 DEF DecOK
  <2> QED BY <2>2, <1>1, <1>3, <1>7
<1> QED BY <1>6, <1>7

LEMMA FirstMarkOK ==
  ASSUME NEW ctx, Good(ctx)
  PROVE  MarkOK(FirstMark(ctx))
<1> DEFINE m == FirstMark(ctx)
<1>1. m.top = Top /\ m.rng = Top /\ m.bits = RBits - 1 /\ m.ctx = ctx
  BY Widths DEF FirstMark
<1>2. Top \in Nat /\ RBits - 1 \in Nat /\ (RBits - 1) + 1 = RBits /\ Top = 2 ^ (RBits - 1)
  BY Widths
<1>3. Top < 2 ^ RBits
  <2>1. 2 ^ ((RBits - 1) + 1) = 2 * 2 ^ (RBits - 1)
    BY <1>2, PowerDoubles
  <2>2. 2 ^ RBits = 2 * Top
    BY <2>1, <1>2
  <2>3. Top \in Nat \ {0}
    BY Widths
  <2> QED BY <2>2, <2>3
<1> HIDE DEF m
<1>4. MarkOK(m)
  BY <1>1, <1>2, <1>3 DEF MarkOK
<1> QED BY <1>4 DEF m

(* Before it has loaded a byte the decoder's window is all ones. *)
LEMMA FreshDecOK ==
  ASSUME Buf \in Seq(Byte), NEW f, Prefixes(Buf, f), NEW ctx
  PROVE  DecMid(FreshDec, Buf, f, FirstMark(ctx)) /\ FreshDec.cnt < 0
<1> DEFINE m == FirstMark(ctx)
           d == FreshDec
           W == 2 ^ (Window - 1)
<1>1. /\ d.pos = 0 /\ d.rng = 2 ^ (RBits - 1) /\ d.dif = W - 1
      /\ d.cnt = -(RBits - 1)
  BY DEF FreshDec
<1>2. m.top = 2 ^ (RBits - 1) /\ m.rng = 2 ^ (RBits - 1) /\ m.bits = RBits - 1
  BY DEF FirstMark
<1> HIDE DEF m, d
<1>3. /\ RBits - 1 \in Nat /\ Window - 1 \in Nat /\ (Window - 1) + 1 = Window
      /\ (RBits - 1) + Margin = Window - 1 /\ RBits - 1 > 0 /\ 0 * ByteBits = 0 /\ ByteBits \in Nat
      /\ RBits \in Nat
  BY Widths DEF Margin
<1>4. W \in Nat \ {0} /\ W < 2 ^ Window
  <2>1. W \in Nat \ {0}
    BY <1>3, PowerPositive
  <2>2. 2 ^ Window = 2 * W
    BY <1>3, PowerDoubles
  <2> HIDE DEF W
  <2> QED BY <2>1, <2>2
<1>5. Pad(d, m) = Window - 1
  <2>1. Pad(d, m) = ((RBits - 1) + Margin) - 0
    BY <1>1, <1>2, <1>3 DEF Pad
  <2> QED BY <2>1, <1>3
<1>6. W = 2 ^ (RBits - 1) * 2 ^ Margin
  BY <1>3, MarginIs, PowerAdds
<1>7. Len(Buf) \in Nat /\ f[0] = 0
  BY DEF Prefixes
<1>8. d.dif \in Nat /\ d.dif + 1 = W /\ d.dif < 2 ^ Window
  <2> HIDE DEF W
  <2>1. 2 ^ Window \in Nat
    BY MarginIs
  <2> QED BY <2>1, <1>1, <1>4
<1>9. d.dif + 1 + f[d.pos] * 2 ^ Pad(d, m) = m.top * 2 ^ Margin
  <2>1. f[d.pos] * 2 ^ Pad(d, m) = 0
    <3>1. 0 * W = 0
      <4> HIDE DEF W
      <4> QED BY <1>4
    <3> QED BY <3>1, <1>1, <1>5, <1>7
  <2>2. m.top * 2 ^ Margin = W
    BY <1>2, <1>6
  <2> HIDE DEF W
  <2>3. d.dif + 1 + 0 = W
    BY <1>4, <1>8
  <2> QED BY <2>1, <2>2, <2>3
<1>10. \E q \in Nat : d.dif + 1 = q * 2 ^ Pad(d, m)
  <2>1. W = 1 * W
    <3> HIDE DEF W
    <3> QED BY <1>4
  <2>2. d.dif + 1 = 1 * 2 ^ Pad(d, m)
    BY <2>1, <1>5, <1>8
  <2>3. 1 \in Nat
    OBVIOUS
  <2> QED BY <2>2, <2>3, Zenon
<1>11. d.cnt \in Int /\ -(RBits - 1) <= d.cnt /\ d.cnt < 0
  BY <1>1, <1>3
<1>12. d.cnt = d.pos * ByteBits - m.bits
  <2>1. 0 - (RBits - 1) = -(RBits - 1)
    BY <1>3
  <2> QED BY <2>1, <1>1, <1>2, <1>3
<1>13. d.pos \in 0 .. Len(Buf) /\ d.rng = m.rng /\ Pad(d, m) \in Nat
  BY <1>1, <1>2, <1>3, <1>5, <1>7
<1>14. DecMid(d, Buf, f, m)
  BY <1>8, <1>9, <1>10, <1>11, <1>12, <1>13, Zenon DEF DecMid
<1> QED BY <1>11, <1>14 DEF d, m

(* Before it has written a byte the encoder's number is empty. *)
LEMMA FreshEncOK ==
  ASSUME NEW ctx
  PROVE  \E f : /\ EncOK(FreshEnc, f) /\ TopOf(FreshEnc, f) = FirstMark(ctx).top
                /\ BitsOf(FreshEnc) = FirstMark(ctx).bits /\ FreshEnc.rng = FirstMark(ctx).rng
<1> DEFINE f == [i \in 0 .. 0 |-> 0]
           e == FreshEnc
           m == FirstMark(ctx)
           R == RBits - 1
<1>1. /\ e.buf = <<>> /\ e.low = 0 /\ e.rng = 2 ^ R /\ e.cnt = -(ByteBits + 1)
      /\ e = [buf |-> e.buf, low |-> e.low, rng |-> e.rng, cnt |-> e.cnt]
  BY DEF FreshEnc
<1>2. m.top = 2 ^ R /\ m.rng = 2 ^ R /\ m.bits = R
  BY DEF FirstMark
<1> HIDE DEF e, m
<1>3. Len(e.buf) = 0 /\ e.buf \in Seq(Byte)
  BY <1>1
<1>4. f[0] = 0 /\ f \in [0 .. 0 -> Nat]
  OBVIOUS
<1> HIDE DEF f
<1>5. Prefixes(e.buf, f)
  BY <1>3, <1>4 DEF Prefixes
<1>6. ByteBits \in Nat /\ RBits \in Nat /\ R \in Nat /\ R + 1 = RBits /\ Window > 2 * RBits
      /\ RBits > ByteBits + 1 /\ Window \in Nat
  BY Widths
<1>7. e.cnt + Room = R /\ e.cnt \in Int /\ -(ByteBits + 1) <= e.cnt /\ e.cnt < Window - Room
  <2> DEFINE c == e.cnt
  <2>1. c = -(ByteBits + 1)
    BY <1>1
  <2> HIDE DEF c
  <2>2. (c + (RBits + ByteBits)) = RBits - 1 /\ c \in Int /\ -(ByteBits + 1) <= c
    BY <2>1, <1>6
  <2>3. c < Window - (RBits + ByteBits)
    BY <2>1, <1>6
  <2> QED BY <2>2, <2>3 DEF c, Room
<1>8. BitsOf(e) = R
  <2>1. ByteBits * 0 = 0
    BY <1>6
  <2>2. BitsOf(e) = 0 + R
    BY <2>1, <1>3, <1>7 DEF BitsOf
  <2> HIDE DEF R
  <2> QED BY <2>2, <1>6
<1> DEFINE P == 2 ^ R
<1>9. P \in Nat \ {0} /\ P = Top /\ 2 ^ (R + 1) = 2 * P
  <2>1. P \in Nat \ {0} /\ P = Top
    BY Widths
  <2> QED BY <2>1, <1>6, PowerDoubles
<1>10. TopOf(e, f) = P
  <2>1. 0 * P = 0
    <3> HIDE DEF P
    <3> QED BY <1>9
  <2>2. TopOf(e, f) = 0 + (0 + P)
    BY <2>1, <1>1, <1>3, <1>4, <1>7 DEF TopOf
  <2> HIDE DEF P
  <2> QED BY <2>2, <1>9
<1>11. e.low + e.rng = P /\ e.rng < 2 ^ RBits /\ Top <= e.rng /\ e.low \in Nat /\ e.rng \in Nat
  <2>1. e.low = 0 /\ e.rng = P /\ 2 ^ RBits = 2 * P
    BY <1>1, <1>6, <1>9
  <2> HIDE DEF P
  <2> QED BY <2>1, <1>9
<1>12. e.low + e.rng <= 2 ^ ((e.cnt + Room) + 1)
  <2>1. 2 ^ ((e.cnt + Room) + 1) = 2 * P
    BY <1>7, <1>9
  <2> HIDE DEF P
  <2>2. P <= 2 * P
    BY <1>9
  <2> QED BY <2>1, <2>2, <1>11
<1>13. TopOf(e, f) <= 2 ^ BitsOf(e)
  BY <1>8, <1>9, <1>10
<1>14. EncOK(e, f)
  <2>1. e.low + e.rng <= 2 ^ (e.cnt + Room + 1)
    BY <1>12
  <2> QED BY <2>1, <1>1, <1>3, <1>5, <1>7, <1>11, <1>13, Zenon DEF EncOK
<1>15. TopOf(e, f) = m.top /\ BitsOf(e) = m.bits /\ e.rng = m.rng
  BY <1>1, <1>2, <1>8, <1>10
<1> QED BY <1>14, <1>15 DEF e, m

-----------------------------------------------------------------------------
(* The tile. Every item narrows the interval from one mark to the next, at the
   writer when it is put in and at the reader when it is taken out: the marks of
   what has been written are what the two ends have in common.               *)

Item == [kind : {"symbol", "bit"}, val : Nat]

(* The writer stands at the mark m. *)
Written(e, f, m) ==
  EncOK(e, f) /\ TopOf(e, f) = m.top /\ BitsOf(e) = m.bits /\ e.rng = m.rng

(* The flushed number lies in the interval of every mark, and the reader stands
   at the mark of what it has read. *)
Readable(f, h) ==
  /\ enc.buf \in Seq(Byte) /\ Prefixes(enc.buf, f)
  /\ \A i \in 0 .. Len(items) :
       Within(f[Len(enc.buf)], ByteBits * Len(enc.buf), h[i].top, h[i].rng, h[i].bits)
  /\ phase = "read" => DecOK(dec, enc.buf, f, h[Len(got)])

Marked(h) ==
  /\ Trace(h, items, adapts, start)
  /\ wctx = h[Len(items)].ctx /\ rctx = h[Len(got)].ctx
  /\ phase = "write" => \E f : Written(enc, f, h[Len(items)])
  /\ phase # "write" => \E f : Readable(f, h)

CoderInv ==
  /\ adapts \in BOOLEAN /\ start \in Contexts
  /\ items \in Seq(Item) /\ got \in Seq(Item) /\ Len(got) <= Len(items)
  /\ \A j \in 1 .. Len(got) : got[j] = items[j]
  /\ lost = FALSE /\ LowFits
  /\ phase # "read" => got = <<>> /\ dec = FreshDec
  /\ \E h : Marked(h)

LEMMA StartGood == \A ctx \in Contexts : Good(ctx)
BY CoderAssumption DEF Good

LEMMA LowInside ==
  ASSUME NEW e, NEW f, EncOK(e, f)
  PROVE  e.low + e.rng <= 2 ^ (e.cnt + RBits + ByteBits + 1)
<1> DEFINE c == e.cnt
<1>1. c \in Int /\ RBits \in Nat /\ ByteBits \in Nat
  BY Widths DEF EncOK
<1> HIDE DEF c
<1>2. (c + (RBits + ByteBits) + 1) = (c + RBits + ByteBits + 1)
  BY <1>1
<1>3. e.low + e.rng <= 2 ^ (c + (RBits + ByteBits) + 1)
  BY DEF EncOK, Room, c
<1>4. e.low + e.rng <= 2 ^ (c + RBits + ByteBits + 1)
  BY <1>2, <1>3, Zenon
<1> QED BY <1>4 DEF c

LEMMA CoderInit == Init => CoderInv
<1> SUFFICES ASSUME Init PROVE CoderInv
  OBVIOUS
<1> DEFINE h == [i \in 0 .. 0 |-> FirstMark(start)]
<1>1. /\ items = <<>> /\ got = <<>> /\ adapts \in BOOLEAN /\ start \in Contexts
      /\ enc = FreshEnc /\ lost = FALSE /\ wctx = start /\ dec = FreshDec /\ rctx = start
      /\ phase = "write"
  BY DEF Init
<1>2. Len(items) = 0 /\ Len(got) = 0 /\ items \in Seq(Item) /\ got \in Seq(Item)
  BY <1>1
<1>3. h[0] = FirstMark(start) /\ MarkOK(FirstMark(start)) /\ FirstMark(start).ctx = start
  BY <1>1, StartGood, FirstMarkOK DEF FirstMark
<1> HIDE DEF h
<1>4. Trace(h, items, adapts, start)
  BY <1>2, <1>3 DEF Trace
<1>5. PICK f : Written(enc, f, h[0])
  BY <1>1, <1>3, FreshEncOK DEF Written
<1>6. Marked(h)
  BY <1>1, <1>2, <1>3, <1>4, <1>5 DEF Marked
<1>7. LowFits
  BY <1>5, LowInside DEF Written, LowFits
<1> QED BY <1>1, <1>2, <1>6, <1>7 DEF CoderInv

(* Writing an item adds its mark. *)
LEMMA WritesOK ==
  ASSUME CoderInv, NEW h, Marked(h), NEW kind \in {"symbol", "bit"}, NEW cdf, NEW s,
         cdf = IF kind = "symbol" THEN wctx ELSE HalfProb, s \in 0 .. cdf.n - 1,
         Writes(EncodedSymbol(enc, cdf, s), kind, s),
         wctx' = IF kind = "symbol" /\ adapts THEN UpdateCdf(wctx, s) ELSE wctx
  PROVE  CoderInv'
<1> DEFINE n == Len(items)
           m == h[n]
           item == [kind |-> kind, val |-> s]
           x == EncodedSymbol(enc, cdf, s)
           v == LowOf(m, item)
           u == HighOf(m, item)
           b == [top |-> (m.top - v) * 2 ^ DefOf(m, item),
                 rng |-> (u - v) * 2 ^ DefOf(m, item),
                 bits |-> m.bits + DefOf(m, item),
                 ctx |-> IF kind = "symbol" /\ adapts THEN UpdateCdf(m.ctx, s) ELSE m.ctx]
<1>1. /\ phase = "write" /\ phase' = "write" /\ items' = Append(items, item)
      /\ enc' = x.next /\ lost' = (lost \/ x.lost)
      /\ adapts' = adapts /\ start' = start /\ dec' = dec /\ rctx' = rctx /\ got' = got
  BY DEF Writes
<1>2. /\ n \in Nat /\ items \in Seq(Item) /\ got = <<>> /\ dec = FreshDec /\ lost = FALSE
      /\ adapts \in BOOLEAN /\ start \in Contexts
  BY <1>1 DEF CoderInv
<1>3. /\ Trace(h, items, adapts, start) /\ wctx = m.ctx /\ rctx = h[Len(got)].ctx
      /\ \E f : Written(enc, f, m)
  BY <1>1 DEF Marked
<1>4. MarkOK(m)
  BY <1>2, <1>3 DEF Trace
<1>5. ItemCdf(m, item) = cdf /\ item.val = s /\ item.kind = kind
  BY <1>3 DEF ItemCdf
<1>6. s \in Nat /\ item \in Item
  <2>1. s \in Nat
    OBVIOUS
  <2> QED BY <2>1 DEF Item
<1>7. Good(cdf)
  BY <1>4, <1>5, <1>6, ItemPart
<1>8. PICK f : Written(enc, f, m)
  BY <1>3
<1>9. v = Lower(enc.rng, cdf, s) /\ u = Upper(enc.rng, cdf, s)
  BY <1>5, <1>8 DEF LowOf, HighOf, Written
<1>10. DefOf(m, item) = Deficit(u - v)
  BY DEF DefOf
<1> HIDE DEF n, m, item, x, v, u
<1>11. Settles(x, enc, TopOf(enc, f) - v, u - v)
  BY <1>7, <1>8, <1>9, SymbolEncoded DEF Written, x
<1>12. /\ b.top = (m.top - v) * 2 ^ DefOf(m, item) /\ b.rng = (u - v) * 2 ^ DefOf(m, item)
       /\ b.bits = m.bits + DefOf(m, item)
       /\ b.ctx = IF kind = "symbol" /\ adapts THEN UpdateCdf(m.ctx, s) ELSE m.ctx
  OBVIOUS
<1> HIDE DEF b
<1>13. Follows(m, b, item, adapts)
  BY <1>5, <1>12 DEF Follows, v, u
<1>14. MarkOK(b)
  BY <1>4, <1>13, NextMark
<1>15. x.lost = FALSE /\ \E y : Written(x.next, y, b)
  <2>1. /\ x.lost = FALSE /\ x.next.rng = b.rng /\ BitsOf(x.next) = b.bits
        /\ \E y : EncOK(x.next, y) /\ TopOf(x.next, y) = b.top
    BY <1>8, <1>10, <1>11, <1>12, Zenon DEF Settles, Written
  <2> QED BY <2>1 DEF Written
<1>16. PICK g : g[n + 1] = b /\ g[0] = h[0] /\ \A i \in 0 .. n : g[i] = h[i]
  <2> DEFINE k == [i \in 0 .. n + 1 |-> IF i <= n THEN h[i] ELSE b]
  <2>1. k[n + 1] = b /\ k[0] = h[0] /\ \A i \in 0 .. n : k[i] = h[i]
    BY <1>2
  <2> HIDE DEF k
  <2> QED BY <2>1
<1>17. /\ items' \in Seq(Item) /\ Len(items') = n + 1 /\ items'[n + 1] = item
       /\ \A i \in 1 .. n : items'[i] = items[i]
  BY <1>1, <1>2, <1>6 DEF n
<1>18. Trace(g, items', adapts, start)
  <2>1. \A i \in 0 .. n + 1 : MarkOK(g[i])
    <3> SUFFICES ASSUME NEW i \in 0 .. n + 1 PROVE MarkOK(g[i])
      OBVIOUS
    <3>1. i \in 0 .. n \/ i = n + 1
      BY <1>2
    <3>2. \A k \in 0 .. n : MarkOK(h[k])
      BY <1>3 DEF Trace, n
    <3> QED BY <3>1, <3>2, <1>14, <1>16
  <2>2. \A i \in 0 .. n : Follows(g[i], g[i + 1], items'[i + 1], adapts)
    <3> SUFFICES ASSUME NEW i \in 0 .. n
                 PROVE  Follows(g[i], g[i + 1], items'[i + 1], adapts)
      OBVIOUS
    <3>1. CASE i = n
      <4>1. g[n] = m
        BY <1>2, <1>16 DEF m
      <4> QED BY <4>1, <3>1, <1>13, <1>16, <1>17
    <3>2. CASE i # n
      <4>1. i \in 0 .. n - 1 /\ i + 1 \in 0 .. n /\ i + 1 \in 1 .. n
        BY <3>2, <1>2
      <4>2. Follows(h[i], h[i + 1], items[i + 1], adapts)
        BY <4>1, <1>3 DEF Trace, n
      <4> QED BY <4>1, <4>2, <1>16, <1>17
    <3> QED BY <3>1, <3>2
  <2>3. g[0] = FirstMark(start)
    BY <1>3, <1>16 DEF Trace
  <2>4. (n + 1) - 1 = n
    BY <1>2
  <2> QED BY <2>1, <2>2, <2>3, <2>4, <1>17 DEF Trace
<1>19. Marked(g)'
  <2>1. wctx' = b.ctx
    BY <1>3, <1>12
  <2>2. rctx' = g[Len(got')].ctx
    <3>1. Len(got') = 0 /\ Len(got) = 0
      BY <1>1, <1>2
    <3> QED BY <3>1, <1>1, <1>3, <1>16
  <2>3. g[Len(items')] = b
    BY <1>16, <1>17
  <2>4. Trace(g, items', adapts', start')
    BY <1>1, <1>18
  <2>5. phase' = "write" /\ \E y : Written(enc', y, g[Len(items')])
    BY <2>3, <1>1, <1>15
  <2>6. wctx' = g[Len(items')].ctx /\ ~(phase' # "write")
    BY <2>1, <2>3, <2>5
  <2> QED BY <2>2, <2>4, <2>5, <2>6 DEF Marked
<1>20. LowFits'
  <2>1. PICK y : EncOK(enc', y)
    BY <1>1, <1>15 DEF Written
  <2>2. enc'.low + enc'.rng <= 2 ^ (enc'.cnt + RBits + ByteBits + 1)
    <3> DEFINE e == enc'
    <3> HIDE DEF e
    <3>1. EncOK(e, y)
      BY <2>1 DEF e
    <3>2. e.low + e.rng <= 2 ^ (e.cnt + RBits + ByteBits + 1)
      BY <3>1, LowInside
    <3> QED BY <3>2 DEF e
  <2> QED BY <2>2 DEF LowFits
<1>21. lost' = FALSE
  BY <1>1, <1>2, <1>15
<1>22. got' = <<>> /\ Len(got') <= Len(items') /\ got' \in Seq(Item)
  BY <1>1, <1>2, <1>17
<1>23. \A j \in 1 .. Len(got') : got'[j] = items'[j]
  BY <1>22
<1> QED BY <1>1, <1>2, <1>17, <1>19, <1>20, <1>21, <1>22, <1>23 DEF CoderInv

(* The flush puts a number into the interval that is left, and so into all the
   intervals before it. *)
LEMMA DoneOK ==
  ASSUME CoderInv, NEW h, Marked(h), Done
  PROVE  CoderInv'
<1> DEFINE n == Len(items)
           output == FlushOutput(enc)
           k == FlushBytes(enc)
           buf == Emitted(enc.buf, output, k)
<1>1. /\ phase = "write" /\ phase' = "flushed"
      /\ enc' = [buf |-> buf, low |-> enc.low, rng |-> enc.rng, cnt |-> enc.cnt]
      /\ lost' = (lost \/ RunsOff(enc.buf, output, k))
      /\ items' = items /\ adapts' = adapts /\ start' = start /\ wctx' = wctx
      /\ dec' = dec /\ rctx' = rctx /\ got' = got
  BY DEF Done
<1>2. PICK f : Written(enc, f, h[n])
  BY <1>1 DEF Marked
<1> HIDE DEF output, k
<1>3. /\ ~RunsOff(enc.buf, output, k) /\ buf \in Seq(Byte)
      /\ \E g : /\ Prefixes(buf, g)
                /\ Within(g[Len(buf)], ByteBits * Len(buf), TopOf(enc, f), enc.rng, BitsOf(enc))
  BY <1>2, Flushed DEF Written, output, k
<1>4. PICK g : /\ Prefixes(buf, g)
               /\ Within(g[Len(buf)], ByteBits * Len(buf), TopOf(enc, f), enc.rng, BitsOf(enc))
  BY <1>3
<1> HIDE DEF buf
<1>5. enc'.buf = buf /\ enc'.low = enc.low /\ enc'.rng = enc.rng /\ enc'.cnt = enc.cnt
  BY <1>1
<1>6. Trace(h, items, adapts, start) /\ n \in Nat
  BY DEF Marked, CoderInv
<1>7. \A i \in 0 .. n :
        Within(g[Len(buf)], ByteBits * Len(buf), h[i].top, h[i].rng, h[i].bits)
  <2> DEFINE C == g[Len(buf)]
             M == ByteBits * Len(buf)
  <2>1. C \in Nat /\ M \in Nat
    <3>1. Len(buf) \in Nat /\ ByteBits \in Nat
      BY <1>3, Widths
    <3>2. Len(buf) \in 0 .. Len(buf)
      BY <3>1
    <3>3. C \in Nat
      BY <3>2, <1>4 DEF Prefixes
    <3>4. M \in Nat
      BY <3>1
    <3> QED BY <3>3, <3>4
  <2>2. Within(C, M, h[n].top, h[n].rng, h[n].bits)
    BY <1>2, <1>4, Zenon DEF Written
  <2> HIDE DEF C, M
  <2>3. \A i \in 0 .. Len(items) : Within(C, M, h[i].top, h[i].rng, h[i].bits)
    BY <2>1, <2>2, <1>6, AllWithin
  <2> QED BY <2>3 DEF C, M
<1>8. Readable(g, h)'
  <2>1. enc'.buf \in Seq(Byte) /\ Prefixes(enc'.buf, g)
    BY <1>3, <1>4, <1>5
  <2>2. phase' # "read"
    BY <1>1
  <2> QED BY <2>1, <2>2, <1>1, <1>5, <1>7 DEF Readable
<1>9. Marked(h)'
  <2>1. wctx = h[Len(items)].ctx /\ rctx = h[Len(got)].ctx
    BY DEF Marked
  <2> QED BY <2>1, <1>1, <1>6, <1>8 DEF Marked
<1>10. LowFits' /\ lost' = FALSE
  BY <1>1, <1>3, <1>5 DEF CoderInv, LowFits
<1> QED BY <1>1, <1>9, <1>10 DEF CoderInv

(* The reader starts at the first mark. *)
LEMMA OpenOK ==
  ASSUME CoderInv, NEW h, Marked(h), Open
  PROVE  CoderInv'
<1>1. /\ phase = "flushed" /\ phase' = "read" /\ dec' = Refilled(FreshDec)
      /\ items' = items /\ adapts' = adapts /\ start' = start /\ wctx' = wctx
      /\ enc' = enc /\ lost' = lost /\ rctx' = rctx /\ got' = got
  BY DEF Open
<1>2. PICK f : Readable(f, h)
  BY <1>1 DEF Marked
<1>3. got = <<>> /\ Len(got) = 0 /\ start \in Contexts
  BY <1>1 DEF CoderInv
<1>4. Trace(h, items, adapts, start) /\ h[0] = FirstMark(start)
  BY DEF Marked, Trace
<1>5. DecOK(dec', Buf, f, h[0])
  <2> DEFINE d == FreshDec
             m == FirstMark(start)
  <2>1. Buf \in Seq(Byte) /\ Prefixes(Buf, f)
    BY <1>2 DEF Readable, Buf
  <2>2. DecMid(d, Buf, f, m) /\ d.cnt < 0
    BY <2>1, FreshDecOK
  <2>3. MarkOK(m)
    BY <1>3, StartGood, FirstMarkOK
  <2> HIDE DEF d, m
  <2>4. DecOK(Refilled(d), Buf, f, m)
    BY <2>1, <2>2, <2>3, RefilledOK
  <2> QED BY <2>4, <1>1, <1>4 DEF d, m
<1>6. Readable(f, h)'
  <2>1. DecOK(dec', enc'.buf, f, h[Len(got')])
    BY <1>1, <1>3, <1>5 DEF Buf
  <2> QED BY <2>1, <1>1, <1>2 DEF Readable
<1>7. Marked(h)'
  <2>1. wctx = h[Len(items)].ctx /\ rctx = h[Len(got)].ctx
    BY DEF Marked
  <2> QED BY <2>1, <1>1, <1>4, <1>6 DEF Marked
<1>8. LowFits'
  BY <1>1 DEF CoderInv, LowFits
<1> QED BY <1>1, <1>7, <1>8 DEF CoderInv

(* Reading an item takes the reader to the item's mark. *)
LEMMA ReadsOK ==
  ASSUME CoderInv, NEW h, Marked(h), NEW kind \in {"symbol", "bit"}, NEW cdf,
         cdf = IF kind = "symbol" THEN rctx ELSE HalfProb, Reads(kind, cdf),
         rctx' = IF kind = "symbol" /\ adapts THEN UpdateCdf(rctx, Scanned(dec, cdf)) ELSE rctx
  PROVE  CoderInv'
<1> DEFINE n == Len(items)
           k == Len(got)
           item == items[k + 1]
           m == h[k]
           b == h[k + 1]
<1>1. /\ phase = "read" /\ phase' = "read" /\ k < n /\ item.kind = kind
      /\ dec' = Decoded(dec, cdf)
      /\ got' = Append(got, [kind |-> kind, val |-> Scanned(dec, cdf)])
      /\ items' = items /\ adapts' = adapts /\ start' = start /\ wctx' = wctx
      /\ enc' = enc /\ lost' = lost
  BY DEF Reads
<1>2. /\ n \in Nat /\ k \in Nat /\ items \in Seq(Item) /\ got \in Seq(Item)
      /\ \A j \in 1 .. k : got[j] = items[j]
  BY DEF CoderInv
<1>3. /\ k \in 0 .. n /\ k + 1 \in 0 .. n /\ k \in 0 .. n - 1 /\ k + 1 \in 1 .. n /\ k + 1 <= n
  BY <1>1, <1>2
<1>4. item \in Item /\ item = [kind |-> item.kind, val |-> item.val]
  <2>1. item \in Item
    BY <1>2, <1>3
  <2> QED BY <2>1 DEF Item
<1>5. /\ Trace(h, items, adapts, start) /\ wctx = h[n].ctx /\ rctx = m.ctx
  BY DEF Marked
<1>6. PICK f : Readable(f, h)
  BY <1>1 DEF Marked
<1>7. MarkOK(m) /\ MarkOK(b) /\ Follows(m, b, item, adapts)
  BY <1>3, <1>5 DEF Trace
<1>8. /\ Buf \in Seq(Byte) /\ Prefixes(Buf, f) /\ DecOK(dec, Buf, f, m)
      /\ Within(f[Len(Buf)], ByteBits * Len(Buf), b.top, b.rng, b.bits)
  BY <1>1, <1>3, <1>6 DEF Readable, Buf
<1>9. ItemCdf(m, item) = cdf
  BY <1>1, <1>5 DEF ItemCdf
<1> HIDE DEF n, k, item, m, b
<1>10. Scanned(dec, cdf) = item.val /\ DecOK(Decoded(dec, cdf), Buf, f, b)
  <2>1. /\ Scanned(dec, ItemCdf(m, item)) = item.val
        /\ DecOK(Decoded(dec, ItemCdf(m, item)), Buf, f, b)
    BY <1>7, <1>8, DecodedOK
  <2> QED BY <2>1, <1>9
<1>11. got' = Append(got, item)
  BY <1>1, <1>4, <1>10
<1>12. /\ got' \in Seq(Item) /\ Len(got') = k + 1 /\ got'[k + 1] = item
       /\ \A j \in 1 .. k : got'[j] = got[j]
  BY <1>2, <1>4, <1>11 DEF k
<1>13. \A j \in 1 .. Len(got') : got'[j] = items'[j]
  <2> SUFFICES ASSUME NEW j \in 1 .. k + 1 PROVE got'[j] = items[j]
    BY <1>1, <1>12
  <2>1. CASE j = k + 1
    BY <2>1, <1>12 DEF item
  <2>2. CASE j # k + 1
    <3>1. j \in 1 .. k
      BY <2>2, <1>2
    <3> QED BY <3>1, <1>2, <1>12
  <2> QED BY <2>1, <2>2
<1>14. rctx' = b.ctx
  BY <1>1, <1>5, <1>7, <1>10 DEF Follows
<1>15. Readable(f, h)'
  <2>1. DecOK(dec', enc'.buf, f, h[Len(got')])
    BY <1>1, <1>10, <1>12 DEF Buf, b
  <2> QED BY <2>1, <1>1, <1>6 DEF Readable
<1>16. Marked(h)'
  <2>1. wctx' = h[Len(items')].ctx /\ rctx' = h[Len(got')].ctx
    BY <1>1, <1>5, <1>12, <1>14 DEF n, b
  <2>2. Trace(h, items', adapts', start') /\ phase' = "read"
    BY <1>1, <1>5
  <2> QED BY <2>1, <2>2, <1>15 DEF Marked
<1>17. LowFits'
  BY <1>1 DEF CoderInv, LowFits
<1>18. Len(got') <= Len(items')
  BY <1>1, <1>3, <1>12 DEF n
<1> QED BY <1>1, <1>12, <1>13, <1>16, <1>17, <1>18 DEF CoderInv

LEMMA CoderNext == CoderInv /\ [Next]_vars => CoderInv'
<1> SUFFICES ASSUME CoderInv, [Next]_vars PROVE CoderInv'
  OBVIOUS
<1>1. PICK h : Marked(h)
  BY DEF CoderInv
<1>2. CASE WriteSymbol
  <2>1. PICK s \in 0 .. wctx.n - 1 :
          /\ Writes(EncodedSymbol(enc, wctx, s), "symbol", s)
          /\ wctx' = Adapted(wctx, s)
    BY <1>2 DEF WriteSymbol
  <2>2. wctx' = IF "symbol" = "symbol" /\ adapts THEN UpdateCdf(wctx, s) ELSE wctx
    BY <2>1 DEF Adapted
  <2> DEFINE cdf == wctx
  <2>3. PICK c : c = wctx
    OBVIOUS
  <2>4. s \in 0 .. c.n - 1 /\ Writes(EncodedSymbol(enc, c, s), "symbol", s)
    BY <2>1, <2>3
  <2>5. c = IF "symbol" = "symbol" THEN wctx ELSE HalfProb
    BY <2>3
  <2> QED BY <1>1, <2>2, <2>4, <2>5, WritesOK
<1>3. CASE WriteBit
  <2>1. PICK s \in 0 .. 1 : Writes(EncodedSymbol(enc, HalfProb, s), "bit", s) /\ wctx' = wctx
    BY <1>3 DEF WriteBit
  <2>2. PICK c : c = HalfProb
    OBVIOUS
  <2>3. s \in 0 .. c.n - 1 /\ Writes(EncodedSymbol(enc, c, s), "bit", s)
    <3>1. c.n = 2
      BY <2>2, HalfProbGood
    <3> QED BY <3>1, <2>1, <2>2
  <2>4. c = IF "bit" = "symbol" THEN wctx ELSE HalfProb
    BY <2>2
  <2>5. wctx' = IF "bit" = "symbol" /\ adapts THEN UpdateCdf(wctx, s) ELSE wctx
    BY <2>1
  <2> QED BY <1>1, <2>3, <2>4, <2>5, WritesOK
<1>4. CASE Done
  BY <1>1, <1>4, DoneOK
<1>5. CASE Open
  BY <1>1, <1>5, OpenOK
<1>6. CASE ReadSymbol
  <2>1. /\ Reads("symbol", rctx)
        /\ rctx' = IF adapts THEN UpdateCdf(rctx, Scanned(dec, rctx)) ELSE rctx
    BY <1>6 DEF ReadSymbol
  <2>2. PICK c : c = rctx
    OBVIOUS
  <2>3. Reads("symbol", c) /\ c = IF "symbol" = "symbol" THEN rctx ELSE HalfProb
    BY <2>1, <2>2
  <2>4. rctx' = IF "symbol" = "symbol" /\ adapts THEN UpdateCdf(rctx, Scanned(dec, c)) ELSE rctx
    BY <2>1, <2>2
  <2> QED BY <1>1, <2>3, <2>4, ReadsOK
<1>7. CASE ReadBit
  <2>1. Reads("bit", HalfProb) /\ rctx' = rctx
    BY <1>7 DEF ReadBit
  <2>2. PICK c : c = HalfProb
    OBVIOUS
  <2>3. Reads("bit", c) /\ c = IF "bit" = "symbol" THEN rctx ELSE HalfProb
    BY <2>1, <2>2
  <2>4. rctx' = IF "bit" = "symbol" /\ adapts THEN UpdateCdf(rctx, Scanned(dec, c)) ELSE rctx
    BY <2>1
  <2> QED BY <1>1, <2>3, <2>4, ReadsOK
<1>8. CASE UNCHANGED vars
  <2>1. /\ items' = items /\ adapts' = adapts /\ start' = start /\ enc' = enc /\ lost' = lost
        /\ wctx' = wctx /\ dec' = dec /\ rctx' = rctx /\ got' = got /\ phase' = phase
    BY <1>8 DEF vars
  <2>2. Marked(h)'
    BY <1>1, <2>1 DEF Marked, Readable
  <2>3. LowFits'
    BY <2>1 DEF CoderInv, LowFits
  <2> QED BY <2>1, <2>2, <2>3 DEF CoderInv
<1> QED BY <1>2, <1>3, <1>4, <1>5, <1>6, <1>7, <1>8 DEF Next

LEMMA CoderStays == Spec => []CoderInv
BY CoderInit, CoderNext, PTL DEF Spec

(* The range coder is correct: whatever symbols and bits are written, under any
   legal contexts, with or without adaptation, the bytes of the flush decode to
   them item by item, past the end of the buffer too, and both contexts end
   equal (enc.rs and dec.rs, od_ec_encode_q15 to od_ec_decode_cdf_q15). *)
THEOREM RoundTrip == Spec => []ReadIsWritten
<1>1. CoderInv => ReadIsWritten
  <2> SUFFICES ASSUME CoderInv PROVE ReadIsWritten
    OBVIOUS
  <2>1. PICK h : Marked(h)
    BY DEF CoderInv
  <2>2. Len(got) = Len(items) => rctx = wctx
    BY <2>1 DEF Marked
  <2>3. DOMAIN got = 1 .. Len(got) /\ \A j \in 1 .. Len(got) : got[j] = items[j]
    BY DEF CoderInv
  <2> QED BY <2>2, <2>3 DEF ReadIsWritten
<1> QED BY <1>1, CoderStays, PTL

(* No carry runs off the start of the buffer and low never leaves its register:
   propagate_carry_bwd and od_ec_enc_normalize (enc.rs) for every width. *)
THEOREM NumberStaysInside == Spec => []RegistersContained
<1>1. CoderInv => RegistersContained
  BY DEF CoderInv, RegistersContained, CarryContained
<1> QED BY <1>1, CoderStays, PTL

(* Both ends keep a context the coder can split by, however long they adapt
   (update_cdf, cdf.rs). *)
THEOREM ContextsStayLegal == Spec => []ContextsLegal
<1>1. CoderInv => ContextsLegal
  <2> SUFFICES ASSUME CoderInv PROVE ContextsLegal
    OBVIOUS
  <2>1. PICK h : Marked(h)
    BY DEF CoderInv
  <2>2. Len(items) \in 0 .. Len(items) /\ Len(got) \in 0 .. Len(items)
    BY DEF CoderInv
  <2>3. MarkOK(h[Len(items)]) /\ MarkOK(h[Len(got)])
    BY <2>1, <2>2 DEF Marked, Trace
  <2> QED BY <2>1, <2>3 DEF Marked, MarkOK, Good, ContextsLegal
<1> QED BY <1>1, CoderStays, PTL

=============================================================================
