------------------------------ MODULE Division ------------------------------
(***************************************************************************)
(* Facts about division with rest, for the proofs about counters that wrap *)
(* and about sectors and tracks.                                           *)
(***************************************************************************)
EXTENDS Integers, TLAPS

(* Division with rest.                                                     *)
LEMMA DivMod ==
  ASSUME NEW x \in Nat, NEW m \in Nat \ {0}
  PROVE  /\ x \div m \in Nat /\ x % m \in 0 .. m - 1
         /\ x = (m * (x \div m)) + (x % m)
OBVIOUS

(* There is only one such rest.                                            *)
LEMMA ModUnique ==
  ASSUME NEW x \in Nat, NEW m \in Nat \ {0}, NEW k \in Nat, NEW r \in 0 .. m - 1,
         x = m * k + r
  PROVE  x % m = r
OBVIOUS

(* A rest survives reduction by a multiple of the divisor.                 *)
LEMMA ModOfMultiple ==
  ASSUME NEW x \in Nat, NEW m \in Nat \ {0}, NEW n \in Nat \ {0}, n % m = 0
  PROVE  (x % n) % m = x % m
<1> DEFINE k == n \div m  a == x \div n  y == x % n  b == y \div m  r == y % m
<1>1. k \in Nat /\ n = m * k  BY DivMod
<1>2. a \in Nat /\ y \in Nat /\ x = n * a + y  BY DivMod
<1>3. b \in Nat /\ r \in 0 .. m - 1 /\ y = m * b + r  BY DivMod, <1>2
<1>4. r = (x % n) % m  OBVIOUS
<1> HIDE DEF k, a, y, b, r
<1>5. n * a = m * (k * a)  BY <1>1, <1>2
<1>6. k * a + b \in Nat /\ m * (k * a + b) = m * (k * a) + m * b  BY <1>1, <1>2, <1>3
<1>7. x = m * (k * a + b) + r  BY <1>2, <1>3, <1>5, <1>6
<1>8. x % m = r  BY <1>3, <1>6, <1>7, ModUnique
<1> QED  BY <1>4, <1>8

(* Adding a multiple of the divisor leaves the rest.                       *)
LEMMA ModPlusMultiple ==
  ASSUME NEW x \in Nat, NEW m \in Nat \ {0}, NEW n \in Nat \ {0}, n % m = 0
  PROVE  (x + n) % m = x % m
<1> DEFINE k == n \div m  a == x \div m  r == x % m
<1>1. k \in Nat /\ n = m * k  BY DivMod
<1>2. a \in Nat /\ r \in 0 .. m - 1 /\ x = m * a + r  BY DivMod
<1>3. r = x % m  OBVIOUS
<1> HIDE DEF k, a, r
<1>4. a + k \in Nat /\ m * (a + k) = m * a + m * k  BY <1>1, <1>2
<1>5. x + n \in Nat /\ x + n = m * (a + k) + r  BY <1>1, <1>2, <1>4
<1> DEFINE y == x + n  q == a + k
<1>6. y \in Nat /\ q \in Nat /\ y = m * q + r  BY <1>4, <1>5
<1>7. y = x + n  OBVIOUS
<1> HIDE DEF y, q
<1>8. y % m = r  BY <1>2, <1>6, ModUnique
<1> QED  BY <1>3, <1>7, <1>8

(* Adding less than the divisor changes it.                                *)
LEMMA NearModDiffers ==
  ASSUME NEW x \in Nat, NEW m \in Nat \ {0}, NEW d \in 1 .. m - 1
  PROVE  (x + d) % m # x % m
<1> DEFINE a == x \div m  r == x % m
<1>1. a \in Nat /\ r \in 0 .. m - 1 /\ x = m * a + r  BY DivMod
<1>0. r = x % m  OBVIOUS
<1> HIDE DEF a, r
<1>2. CASE r + d < m
  <2>1. (x + d) % m = r + d
    <3>1. x + d \in Nat /\ x + d = m * a + (r + d) /\ r + d \in 0 .. m - 1  BY <1>1, <1>2
    <3> QED  BY <1>1, <3>1, ModUnique
  <2> QED  BY <1>0, <1>1, <2>1
<1>3. CASE r + d >= m
  <2>1. (x + d) % m = r + d - m
    <3>0. m * (a + 1) = m * a + m  BY <1>1
    <3>1. a + 1 \in Nat /\ x + d \in Nat /\ x + d = m * (a + 1) + (r + d - m) /\ r + d - m \in 0 .. m - 1
      BY <1>1, <1>3, <3>0
    <3> QED  BY <1>1, <3>1, ModUnique
  <2> QED  BY <1>0, <1>1, <2>1
<1> QED  BY <1>1, <1>2, <1>3

(* Nor is there another quotient.                                          *)
LEMMA DivUnique ==
  ASSUME NEW x \in Nat, NEW m \in Nat \ {0}, NEW k \in Nat, NEW r \in 0 .. m - 1,
         x = m * k + r
  PROVE  x \div m = k
OBVIOUS

(* Products keep an order, strict or not, and give it back.                *)
LEMMA ProductOrder ==
  ASSUME NEW a \in Nat, NEW b \in Nat, NEW m \in Nat \ {0}
  PROVE  /\ a * m \in Nat
         /\ a <= b => a * m <= b * m
         /\ a * m <= b * m => a <= b
         /\ a < b => a * m + m <= b * m
         /\ a * m < b * m => a < b
<1>1. a * m \in Nat  OBVIOUS
<1>2. ASSUME a <= b  PROVE a * m <= b * m
  <2>1. b - a \in Nat /\ b = a + (b - a)  BY <1>2
  <2>2. b * m = a * m + (b - a) * m /\ (b - a) * m >= 0  BY <2>1
  <2> QED  BY <2>1, <2>2
<1>3. ASSUME a < b  PROVE a * m + m <= b * m
  <2>1. b - a - 1 \in Nat /\ b = a + 1 + (b - a - 1)  BY <1>3
  <2>2. b * m = a * m + m + (b - a - 1) * m /\ (b - a - 1) * m >= 0  BY <2>1
  <2> QED  BY <2>1, <2>2
<1>4. ASSUME b < a  PROVE b * m + m <= a * m
  <2>1. a - b - 1 \in Nat /\ a = b + 1 + (a - b - 1)  BY <1>4
  <2>2. a * m = b * m + m + (a - b - 1) * m /\ (a - b - 1) * m >= 0  BY <2>1
  <2> QED  BY <2>1, <2>2
<1> QED  BY <1>1, <1>2, <1>3, <1>4
=============================================================================
