------------------------------ MODULE ModArith ------------------------------
(***************************************************************************)
(* Facts about \div and % that the proofs about rings and 16-bit indices   *)
(* rest on.                                                                *)
(***************************************************************************)
EXTENDS Integers, TLAPS

(* Euclidean division: quotient and remainder.                             *)
LEMMA DivMod ==
  ASSUME NEW a \in Int, NEW n \in Nat \ {0}
  PROVE  /\ a = n * (a \div n) + (a % n)
         /\ a % n \in 0 .. n - 1
         /\ a \div n \in Int
  BY Z3

(* ... and they are the only ones.                                         *)
LEMMA DivModUnique ==
  ASSUME NEW a \in Int, NEW n \in Nat \ {0},
         NEW q \in Int, NEW r \in 0 .. n - 1, a = n * q + r
  PROVE  q = a \div n /\ r = a % n
  BY Z3

(* Two members of a window of n integers with the same remainder are one.  *)
LEMMA SameSlot ==
  ASSUME NEW n \in Nat \ {0}, NEW a \in Int, NEW b \in Int,
         a % n = b % n, a <= b, b < a + n
  PROVE  a = b
<1> DEFINE qa == a \div n
           qb == b \div n
<1>1. /\ a = n * qa + (a % n)
      /\ b = n * qb + (b % n)
      /\ qa \in Int /\ qb \in Int
  BY DivMod
<1> HIDE DEF qa, qb
<1>2. b - a = n * (qb - qa)
  BY <1>1
<1>3. CASE qb - qa >= 1
  <2>1. n * (qb - qa) >= n
    BY <1>1, <1>3, Z3
  <2> QED
    BY <1>2, <2>1
<1>4. CASE qb - qa <= -1
  <2>1. n * (qb - qa) <= -n
    BY <1>1, <1>4, Z3
  <2> QED
    BY <1>2, <2>1
<1>5. CASE qb = qa
  BY <1>1, <1>5
<1> QED
  BY <1>1, <1>3, <1>4, <1>5

(* One lap later the remainder is the same and the quotient one larger.    *)
LEMMA NextLap ==
  ASSUME NEW a \in Int, NEW n \in Nat \ {0}
  PROVE  (a + n) % n = a % n /\ (a + n) \div n = (a \div n) + 1
<1> DEFINE q == a \div n
           r == a % n
<1>1. a = n * q + r /\ r \in 0 .. n - 1 /\ q \in Int
  BY DivMod
<1> HIDE DEF q, r
<1>2. a + n = n * (q + 1) + r /\ a + n \in Int /\ q + 1 \in Int
  BY <1>1, Z3
<1>3. q + 1 = (a + n) \div n /\ r = (a + n) % n
  BY <1>1, <1>2, DivModUnique, Zenon
<1> QED
  BY <1>3 DEF q, r

(* Less than two laps later with the same remainder: one lap, or none.     *)
LEMMA SameOrNextLap ==
  ASSUME NEW n \in Nat \ {0}, NEW a \in Int, NEW b \in Int,
         a % n = b % n, a <= b, b < a + 2 * n
  PROVE  b = a \/ b = a + n
<1>1. CASE b < a + n
  BY <1>1, SameSlot
<1>2. CASE b >= a + n
  <2>1. (a + n) % n = b % n
    BY NextLap
  <2>2. a + n \in Int /\ a + n <= b /\ b < (a + n) + n
    BY <1>2
  <2>3. a + n = b
    BY <2>1, <2>2, SameSlot, Zenon
  <2> QED
    BY <2>3
<1> QED
  BY <1>1, <1>2

(* A field of k modulo m, read from p, names k again if k is less than m   *)
(* ahead of p.                                                             *)
LEMMA SerialDecode ==
  ASSUME NEW m \in Nat \ {0}, NEW p \in Int, NEW k \in Int,
         p <= k, k < p + m
  PROVE  p + (((k % m) - p) % m) = k
<1> DEFINE q == k \div m
           r == k % m
<1>1. k = m * q + r /\ r \in 0 .. m - 1 /\ q \in Int
  BY DivMod
<1> HIDE DEF q, r
<1>2. /\ r - p = m * (0 - q) + (k - p)
      /\ r - p \in Int /\ 0 - q \in Int
      /\ k - p \in 0 .. m - 1
  BY <1>1, Z3
<1>3. k - p = (r - p) % m
  BY <1>2, DivModUnique, Zenon
<1> QED
  BY <1>3 DEF r

(* The distance between the fields of two indices is that of the indices.  *)
LEMMA SerialDistance ==
  ASSUME NEW m \in Nat \ {0}, NEW p \in Int, NEW k \in Int,
         p <= k, k < p + m
  PROVE  ((k % m) - (p % m)) % m = k - p
<1> DEFINE q == k \div m
           r == k % m
           q0 == p \div m
           r0 == p % m
<1>1. /\ k = m * q + r /\ r \in 0 .. m - 1 /\ q \in Int
      /\ p = m * q0 + r0 /\ r0 \in 0 .. m - 1 /\ q0 \in Int
  BY DivMod
<1> HIDE DEF q, r, q0, r0
<1>2. /\ r - r0 = m * (q0 - q) + (k - p)
      /\ r - r0 \in Int /\ q0 - q \in Int
      /\ k - p \in 0 .. m - 1
  BY <1>1, Z3
<1>3. k - p = (r - r0) % m
  BY <1>2, DivModUnique, Zenon
<1> QED
  BY <1>3 DEF r, r0
=============================================================================
