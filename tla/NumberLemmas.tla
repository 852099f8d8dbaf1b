---------------------------- MODULE NumberLemmas ----------------------------
(***************************************************************************)
(* Facts about remainders and least elements that the proofs about rings,  *)
(* counters and tables keep needing.  The C code masks and compares        *)
(* counters that wrap (rpos & 4095, (head + 1) % n) and takes the first    *)
(* free slot of a table; the models write the first with % and the second  *)
(* with Min.                                                               *)
(***************************************************************************)
EXTENDS Integers, FiniteSetsExt, WellFoundedInduction, TLAPS

\* Division with remainder.
LEMMA DivMod ==
  ASSUME NEW x \in Int, NEW n \in Nat, n > 0
  PROVE  /\ x % n \in 0..(n - 1)
         /\ x \div n \in Int
         /\ x = n * (x \div n) + (x % n)
  OBVIOUS

\* A larger quotient is a larger product.
LEMMA QuotientGap ==
  ASSUME NEW n \in Nat, NEW a \in Int, NEW b \in Int, a >= b + 1
  PROVE  n * a >= n * b + n
<1>1. n * (a - b - 1) >= 0
  OBVIOUS
<1>2. n * (a - b - 1) = n * a - n * b - n
  OBVIOUS
<1>3. QED
  BY <1>1, <1>2

\* The remainder is the only number below n that a multiple of n away from x.
LEMMA ModIs ==
  ASSUME NEW n \in Nat, n > 0, NEW q \in Int, NEW r \in 0..(n - 1)
  PROVE  (n * q + r) % n = r
<1> DEFINE x == n * q + r
           d == x \div n
           m == x % n
<1>1. x \in Int /\ d \in Int /\ m \in 0..(n - 1) /\ x = n * d + m
  BY DivMod
<1>2. n * q + r = n * d + m
  BY <1>1
<1> HIDE DEF x, d, m
<1>3. ~(q >= d + 1)
  BY <1>1, <1>2, QuotientGap
<1>4. ~(d >= q + 1)
  BY <1>1, <1>2, QuotientGap
<1>5. q = d
  BY <1>1, <1>3, <1>4
<1>6. m = r
  BY <1>1, <1>2, <1>5
<1>7. QED
  BY <1>6 DEF x, m

\* Whole turns make no difference.
LEMMA ModTurns ==
  ASSUME NEW n \in Nat, n > 0, NEW x \in Int, NEW k \in Int
  PROVE  (x + n * k) % n = x % n
<1> DEFINE d == x \div n
           m == x % n
<1>1. d \in Int /\ m \in 0..(n - 1) /\ x = n * d + m
  BY DivMod
<1> HIDE DEF d, m
<1>2. d + k \in Int /\ x + n * k = n * (d + k) + m
  BY <1>1
<1>3. (n * (d + k) + m) % n = m
  BY <1>1, <1>2, ModIs
<1>4. QED
  BY <1>2, <1>3 DEF m

\* One turn, up or down, and none.
LEMMA ModOnce ==
  ASSUME NEW n \in Nat, n > 0, NEW x \in Int
  PROVE  /\ x \in 0..(n - 1) => x % n = x
         /\ (x + n) % n = x % n
         /\ (x - n) % n = x % n
<1>1. x \in 0..(n - 1) => (n * 0 + x) % n = x
  BY ModIs
<1>2. \A k \in Int : (x + n * k) % n = x % n
  BY ZenonT(40), ModTurns
<1>3. (x + n) % n = x % n
  <2>1. PICK k \in Int : k = 1
    OBVIOUS
  <2>2. (x + n * k) % n = x % n
    BY ZenonT(40), <1>2
  <2>3. x + n * k = x + n
    BY <2>1
  <2>4. QED
    BY <2>2, <2>3
<1>4. (x - n) % n = x % n
  <2>1. PICK k \in Int : k = -1
    OBVIOUS
  <2>2. (x + n * k) % n = x % n
    BY ZenonT(40), <1>2
  <2>3. x + n * k = x - n
    BY <2>1
  <2>4. QED
    BY <2>2, <2>3
<1>5. n * 0 + x = x
  OBVIOUS
<1>6. QED
  BY <1>1, <1>3, <1>4, <1>5

\* An index that went round once at most.
LEMMA Wrapped ==
  ASSUME NEW n \in Nat, n > 0, NEW x \in Int, 0 <= x, x < n + n
  PROVE  (x < n => x % n = x) /\ (x >= n => x % n = x - n)
<1>1. CASE x < n
  BY <1>1, ModOnce
<1>2. CASE x >= n
  <2>1. x - n \in 0..(n - 1)
    BY <1>2
  <2>2. (x - n) % n = x % n /\ (x - n) % n = x - n
    BY <2>1, ModOnce
  <2>3. QED
    BY <1>2, <2>2
<1>3. QED
  BY <1>1, <1>2

\* A remainder may be taken early or late in a sum.
LEMMA ModSum ==
  ASSUME NEW n \in Nat, n > 0, NEW x \in Int, NEW y \in Int
  PROVE  /\ ((x % n) + y) % n = (x + y) % n
         /\ (y - (x % n)) % n = (y - x) % n
<1> DEFINE d == x \div n
           m == x % n
<1>1. d \in Int /\ m \in 0..(n - 1) /\ x = n * d + m
  BY DivMod
<1> HIDE DEF d, m
<1>2. m + y \in Int /\ x + y = (m + y) + n * d
  BY <1>1
<1>3. y - m \in Int /\ -d \in Int /\ y - x = (y - m) + n * (-d)
  BY <1>1
<1>4. ((m + y) + n * d) % n = (m + y) % n
  BY ZenonT(40), <1>1, <1>2, ModTurns
<1>5. ((y - m) + n * (-d)) % n = (y - m) % n
  BY ZenonT(40), <1>3, ModTurns
<1>6. QED
  BY <1>2, <1>3, <1>4, <1>5 DEF m

\* The remainder for a divisor of the modulus does not see the modulus.
LEMMA ModMod ==
  ASSUME NEW n \in Nat, n > 0, NEW w \in Nat, w > 0, w % n = 0, NEW x \in Int
  PROVE  (x % w) % n = x % n
<1> DEFINE d == x \div w
           m == x % w
           k == w \div n
<1>1. d \in Int /\ m \in 0..(w - 1) /\ x = w * d + m
  BY DivMod
<1>2. k \in Int /\ w = n * k
  BY DivMod
<1> HIDE DEF d, m, k
<1>3. k * d \in Int /\ w * d = n * (k * d)
  BY <1>1, <1>2
<1>4. m \in Int /\ x = m + n * (k * d)
  BY <1>1, <1>3
<1>5. (m + n * (k * d)) % n = m % n
  BY ZenonT(40), <1>3, <1>4, ModTurns
<1>6. QED
  BY <1>4, <1>5 DEF m

\* Two numbers less than n apart with the same remainder are equal.
LEMMA ModApart ==
  ASSUME NEW n \in Nat, n > 0, NEW x \in Int, NEW y \in Int, x % n = y % n,
         x - y < n, y - x < n
  PROVE  x = y
<1> DEFINE a == x \div n
           b == y \div n
           m == x % n
<1>1. a \in Int /\ b \in Int /\ m \in 0..(n - 1) /\ x = n * a + m /\ y = n * b + m
  BY DivMod
<1> HIDE DEF a, b, m
<1>2. ~(a >= b + 1)
  BY <1>1, QuotientGap
<1>3. ~(b >= a + 1)
  BY <1>1, QuotientGap
<1>4. a = b
  BY <1>1, <1>2, <1>3
<1>5. QED
  BY <1>1, <1>4

\* The first free slot is a free slot: Min returns a least element.
LEMMA MinIn ==
  ASSUME NEW S \in SUBSET Nat, S # {}
  PROVE  Min(S) \in S /\ \A y \in S : Min(S) <= y
<1> DEFINE R == OpToRel(<, Nat)
<1>1. IsWellFoundedOn(R, Nat)
  BY NatLessThanWellFounded, Zenon
<1>2. \A x, y \in Nat : y < x => <<y, x>> \in R
  BY ZenonT(40) DEF OpToRel
<1> HIDE DEF R
<1>3. PICK x \in S : \A y \in S : <<y, x>> \notin R
  BY <1>1, WFMin, Zenon
<1>4. \A y \in S : x <= y
  <2>1. SUFFICES ASSUME NEW y \in S, y < x PROVE FALSE
    OBVIOUS
  <2>2. <<y, x>> \in R
    BY <1>2, <2>1
  <2>3. QED
    BY <1>3, <2>2
<1>5. QED
  BY <1>4, Zenon DEF Min

\* The smaller of two numbers, as the code's `n < m ? n : m`.
LEMMA MinOfTwo ==
  ASSUME NEW a \in Int, NEW b \in Int
  PROVE  Min({a, b}) = IF a <= b THEN a ELSE b
  BY DEF Min

\* The larger of two.
LEMMA MaxOfTwo ==
  ASSUME NEW a \in Int, NEW b \in Int
  PROVE  Max({a, b}) = IF a >= b THEN a ELSE b
  BY DEF Max
=============================================================================
