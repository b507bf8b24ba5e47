------------------------------- MODULE Numbers -------------------------------
(* Quotients and remainders by a variable base: what the decoding of an     *)
(* address by masks and shifts rests on.                                    *)
EXTENDS Integers, TLAPS

LEMMA Division ==
  ASSUME NEW b \in Nat, b > 0, NEW a \in Nat
  PROVE  /\ a \div b \in Nat /\ a % b \in 0 .. b - 1
         /\ a = (a \div b) * b + (a % b)
  OBVIOUS

LEMMA SmallQuotient ==
  ASSUME NEW b \in Nat, b > 0, NEW a \in Nat, a < 2 * b
  PROVE  a \div b \in 0 .. 1
  OBVIOUS

LEMMA Digits ==
  ASSUME NEW b \in Nat, b > 0, NEW q \in Nat, NEW r \in 0 .. b - 1
  PROVE  (q * b + r) \div b = q /\ (q * b + r) % b = r
  OBVIOUS

\* The remainder by 2b keeps the last digit to the base b, and the parity of the one before.
LEMMA DoubleDigits ==
  ASSUME NEW b \in Nat, b > 0, NEW a \in Nat
  PROVE  /\ a % (2 * b) \in 0 .. 2 * b - 1
         /\ (a % (2 * b)) % b = a % b
         /\ (a % (2 * b)) \div b = (a \div b) % 2
         /\ a % (2 * b) = ((a \div b) % 2) * b + (a % b)
<1> DEFINE q == a \div (2 * b)
           m == a % (2 * b)
           k == m \div b
           r == m % b
<1>1. 2 * b \in Nat /\ 2 * b > 0
  OBVIOUS
<1>2. q \in Nat /\ m \in 0 .. 2 * b - 1 /\ a = q * (2 * b) + m
  BY <1>1, Division
<1>3. k \in Nat /\ r \in 0 .. b - 1 /\ m = k * b + r
  BY <1>2, Division
<1>4. k \in {0, 1}
  BY <1>2, <1>3
<1> HIDE DEF q, m, k, r
<1>5. a = (2 * q + k) * b + r
  BY <1>2, <1>3, <1>4
<1>6. 2 * q + k \in Nat
  BY <1>2, <1>3
<1>7. a \div b = 2 * q + k /\ a % b = r
  BY <1>3, <1>5, <1>6, Digits
<1>8. (2 * q + k) % 2 = k
  BY <1>2, <1>4
<1> QED
  BY <1>2, <1>3, <1>7, <1>8 DEF m, k, r

\* A multiple of b does not change the remainder by b.
LEMMA SameRemainder ==
  ASSUME NEW b \in Nat, b > 0, NEW a \in Nat, NEW n \in Nat, n % b = 0
  PROVE  (n + a) % b = a % b
<1> DEFINE k == n \div b
           q == a \div b
           r == a % b
<1>1. k \in Nat /\ n = k * b
  BY Division
<1>2. q \in Nat /\ r \in 0 .. b - 1 /\ a = q * b + r
  BY Division
<1> HIDE DEF k, q, r
<1>3. n + a = (k + q) * b + r /\ k + q \in Nat
  BY <1>1, <1>2
<1>4. PICK p \in Nat : n + a = p * b + r
  BY <1>3
<1>5. (p * b + r) % b = r
  BY <1>2, Digits
<1> QED
  BY <1>4, <1>5 DEF r

LEMMA Multiple ==
  ASSUME NEW b \in Nat, b > 0, NEW n \in Nat, NEW k \in Nat, n = k * b
  PROVE  n % b = 0
<1>1. n = k * b + 0 /\ 0 \in 0 .. b - 1
  OBVIOUS
<1> QED
  BY <1>1, Digits

\* A remainder taken early does not change the one taken of the sum.
LEMMA EarlyRemainder ==
  ASSUME NEW b \in Nat, b > 0, NEW a \in Nat, NEW n \in Nat
  PROVE  ((a % b) + n) % b = (a + n) % b
<1> DEFINE q == a \div b
           r == a % b
<1>1. q \in Nat /\ r \in 0 .. b - 1 /\ a = q * b + r
  BY Division
<1> HIDE DEF q, r
<1>2. q * b \in Nat /\ (q * b) % b = 0 /\ r + n \in Nat
  BY <1>1, Multiple
<1>3. (q * b + (r + n)) % b = (r + n) % b
  <2> DEFINE m == q * b
             k == r + n
  <2> HIDE DEF m, k
  <2>1. m \in Nat /\ m % b = 0 /\ k \in Nat
    BY <1>2 DEF m, k
  <2> QED
    BY <2>1, SameRemainder DEF m, k
<1>4. a + n = q * b + (r + n)
  BY <1>1
<1> QED
  BY <1>3, <1>4 DEF r

\* The remainder of what is below twice the base.
LEMMA SmallRemainder ==
  ASSUME NEW b \in Nat, b > 0, NEW a \in Nat
  PROVE  /\ a < b => a % b = a /\ a \div b = 0
         /\ b <= a /\ a < 2 * b => a % b = a - b /\ a \div b = 1
<1>1. ASSUME a < b PROVE a % b = a /\ a \div b = 0
  <2>1. a = 0 * b + a /\ a \in 0 .. b - 1
    BY <1>1
  <2> QED
    BY <2>1, Digits
<1>2. ASSUME b <= a, a < 2 * b PROVE a % b = a - b /\ a \div b = 1
  <2>1. a = 1 * b + (a - b) /\ a - b \in 0 .. b - 1
    BY <1>2
  <2> DEFINE r == a - b
  <2> HIDE DEF r
  <2>2. a = 1 * b + r /\ r \in 0 .. b - 1
    BY <2>1 DEF r
  <2> QED
    BY <2>2, Digits DEF r
<1> QED
  BY <1>1, <1>2
=============================================================================
