-------------------------- MODULE HighLevelProofs ---------------------------
(***************************************************************************)
(* Theorems about the two parts of MCHighLevel.                            *)
(*                                                                         *)
(* 1. The layout of queues (QueueLayout) has the room asked for and is the *)
(*    same for library, device and kernels, for every limit of the device  *)
(*    and every request: what it takes is that sizes are rounded to powers *)
(*    of two and passed as logarithms.                                     *)
(*                                                                         *)
(* 2. The creation of a high-level QP or group (HighLevel) makes all of it *)
(*    or gives it all back, in order, whatever may fail.  The invariant    *)
(*    says what the structure holds after each stage of the plan, that     *)
(*    what is live is what the structure holds or a path has yet to        *)
(*    release, and that a path releases each thing after what stands on it.*)
(***************************************************************************)
EXTENDS MCHighLevel, ModArith, WellFoundedInduction, TLAPS

(* A set of natural numbers has a least one.                               *)
LEMMA Least ==
  ASSUME NEW T, T \subseteq Nat, T # {}
  PROVE  \E m \in T : \A k \in T : m <= k
<1>1. PICK m \in T : \A y \in T : ~(<<y, m>> \in OpToRel(<, Nat))
  BY NatLessThanWellFounded, WFMin
<1>2. ASSUME NEW k \in T PROVE m <= k
  <2>1. m \in Nat /\ k \in Nat /\ ~(k < m)
    BY <1>1 DEF OpToRel
  <2> QED BY <2>1
<1> QED BY <1>2

-----------------------------------------------------------------------------
(* Powers of two of 32 bits.                                               *)

Doubles(i) == 2^i = 2 * 2^(i - 1) /\ 2^i \in Nat \ {0}

LEMMA Doubling == \A i \in 1 .. 31 : Doubles(i)
<1>1. Doubles(1) /\ Doubles(2) /\ Doubles(3) /\ Doubles(4) /\ Doubles(5) /\ Doubles(6)
      /\ Doubles(7) /\ Doubles(8) /\ Doubles(9) /\ Doubles(10) /\ Doubles(11)
      /\ Doubles(12) /\ Doubles(13) /\ Doubles(14) /\ Doubles(15) /\ Doubles(16)
  BY DEF Doubles
<1>2. Doubles(17) /\ Doubles(18) /\ Doubles(19) /\ Doubles(20) /\ Doubles(21) /\ Doubles(22)
      /\ Doubles(23) /\ Doubles(24) /\ Doubles(25) /\ Doubles(26) /\ Doubles(27)
      /\ Doubles(28) /\ Doubles(29) /\ Doubles(30) /\ Doubles(31)
  BY DEF Doubles
<1> QED BY <1>1, <1>2

(* The power as a function that the provers need not look into.            *)
Pow == [i \in Logs |-> 2^i]
Powers == {Pow[i] : i \in Logs}

LEMMA PowFacts ==
  /\ Pow[0] = 1 /\ Pow[4] = 16 /\ Pow[5] = 32 /\ Pow[6] = 64
  /\ Pow[15] + Pow[15] = Word16 /\ Pow[16] = Word16 /\ Pow[31] = IntMax + 1
  /\ Pow \in [Logs -> Nat \ {0}]
  /\ \A i \in Logs : Pow[i] = 2^i
  /\ \A i \in Logs \ {0} : Pow[i] = 2 * Pow[i - 1]
<1>1. 2^0 = 1 /\ 2^4 = 16 /\ 2^5 = 32 /\ 2^6 = 64
  OBVIOUS
<1>0. 2^15 + 2^15 = Word16 /\ 2^16 = Word16 /\ 2^31 = IntMax + 1
  BY SMT DEF Word16, IntMax
<1>2. \A i \in Logs : Pow[i] = 2^i
  BY DEF Pow
<1>3. 0 \in Logs /\ 4 \in Logs /\ 5 \in Logs /\ 6 \in Logs /\ 15 \in Logs /\ 16 \in Logs /\ 31 \in Logs
  BY DEF Logs
<1>4. /\ Pow[0] = 1 /\ Pow[4] = 16 /\ Pow[5] = 32 /\ Pow[6] = 64
      /\ Pow[15] + Pow[15] = Word16 /\ Pow[16] = Word16 /\ Pow[31] = IntMax + 1
  BY <1>0, <1>1, <1>2, <1>3, Zenon
<1>5. ASSUME NEW i \in Logs \ {0} PROVE Pow[i] = 2 * Pow[i - 1] /\ Pow[i] \in Nat \ {0}
  <2>1. i \in 1 .. 31 /\ i - 1 \in Logs /\ i \in Logs
    BY DEF Logs
  <2>2. Doubles(i)
    BY <2>1, Doubling
  <2>3. Pow[i] = 2^i /\ Pow[i - 1] = 2^(i - 1)
    BY <2>1, <1>2
  <2> QED BY <2>2, <2>3 DEF Doubles
<1>6. ASSUME NEW i \in Logs PROVE Pow[i] \in Nat \ {0}
  BY <1>4, <1>5
<1>7. Pow \in [Logs -> Nat \ {0}]
  BY <1>6 DEF Pow
<1> QED BY <1>2, <1>4, <1>5, <1>7

(* The quotient of two powers is a power.                                  *)
LEMMA Quotient ==
  ASSUME NEW i \in Logs, NEW j \in i .. 31
  PROVE  j \in Logs /\ j - i \in Logs /\ Pow[j] = Pow[j - i] * Pow[i]
<1> DEFINE Wrong == {k \in i .. 31 : Pow[k] # Pow[k - i] * Pow[i]}
<1>1. ASSUME NEW k \in i .. 31 PROVE k \in Logs /\ k - i \in Logs /\ k \in Nat /\ i \in Nat
  BY DEF Logs
<1>2. ASSUME Wrong # {} PROVE FALSE
  <2>1. Wrong \subseteq Nat
    BY <1>1
  <2>2. PICK m \in Wrong : \A k \in Wrong : m <= k
    BY <1>2, <2>1, Least
  <2>3. m # i
    <3>1. Pow[i - i] = 1 /\ Pow[i] \in Nat
      BY PowFacts, <1>1
    <3>2. ASSUME m = i PROVE Pow[m] = Pow[m - i] * Pow[i]
      BY <3>1, <3>2
    <3> QED BY <3>2
  <2>4. m - 1 \in i .. 31 /\ m - 1 \in Logs /\ m - 1 - i \in Logs /\ m - i \in Logs \ {0} /\ m \in Logs \ {0}
    BY <2>3 DEF Logs
  <2>5. m - 1 \notin Wrong
    BY <2>2, <2>4
  <2>6. Pow[m - 1] = Pow[m - 1 - i] * Pow[i]
    BY <2>4, <2>5
  <2>7. Pow[m] = 2 * Pow[m - 1] /\ Pow[m - i] = 2 * Pow[m - i - 1] /\ m - i - 1 = m - 1 - i
    BY <2>4, PowFacts
  <2>8. Pow[m - 1 - i] \in Nat /\ Pow[i] \in Nat /\ Pow[m - 1] \in Nat
    BY <2>4, PowFacts
  <2>9. Pow[m] = Pow[m - i] * Pow[i]
    BY <2>6, <2>7, <2>8
  <2> QED BY <2>9
<1> QED BY <1>1, <1>2

(* Powers are in the order of their exponents.                             *)
LEMMA PowOrder ==
  ASSUME NEW i \in Logs, NEW j \in Logs, i < j
  PROVE  2 * Pow[i] <= Pow[j]
<1>1. j \in i .. 31 /\ j - 1 - i \in Logs /\ j - i \in Logs \ {0} /\ j - i - 1 = j - 1 - i
  BY DEF Logs
<1>2. Pow[j] = Pow[j - i] * Pow[i]
  BY <1>1, Quotient
<1>3. Pow[j - i] = 2 * Pow[j - 1 - i] /\ Pow[j - 1 - i] \in Nat \ {0} /\ Pow[i] \in Nat
  BY <1>1, PowFacts
<1>4. Pow[j - i] \in Nat /\ Pow[j - i] >= 2
  BY <1>3
<1> DEFINE a == Pow[j - i]  b == Pow[i]
<1>5. \A x, y \in Nat : x >= 2 => 2 * y <= x * y
  BY Z3
<1> QED BY <1>2, <1>3, <1>4, <1>5

(* The quotient, of the powers themselves.                                 *)
LEMMA PowerDivides ==
  ASSUME NEW p \in Powers, NEW q \in Powers, q <= p
  PROVE  p \div q \in Powers /\ p = (p \div q) * q
<1>1. PICK i \in Logs, j \in Logs : q = Pow[i] /\ p = Pow[j]
  BY DEF Powers
<1>2. p \in Nat \ {0} /\ q \in Nat \ {0} /\ i \in Nat /\ j \in Nat
  BY <1>1, PowFacts DEF Logs
<1>3. i <= j
  <2>1. ASSUME j < i PROVE FALSE
    BY <1>1, <1>2, <2>1, PowOrder
  <2> QED BY <1>2, <2>1
<1>4. j \in i .. 31
  BY <1>3 DEF Logs
<1>5. j - i \in Logs /\ p = Pow[j - i] * q
  BY <1>1, <1>4, Quotient
<1>6. Pow[j - i] \in Powers /\ Pow[j - i] \in Nat
  BY <1>5, PowFacts DEF Powers
<1>7. p = q * Pow[j - i] + 0 /\ 0 \in 0 .. q - 1
  BY <1>2, <1>5, <1>6
<1>8. p \div q = Pow[j - i]
  BY <1>2, <1>6, <1>7, DivModUnique
<1> QED BY <1>5, <1>6, <1>8

(* The next power of two is the least that is not smaller.                 *)
LEMMA NextPow ==
  ASSUME NEW n \in 1 .. IntMax + 1
  PROVE  /\ NextPow2(n) \in Powers /\ NextPow2(n) \in Nat /\ n <= NextPow2(n)
         /\ \A p \in Powers : n <= p => NextPow2(n) <= p
<1> DEFINE Fits == {i \in Logs : Pow[i] >= n}
           Chosen(i) == 2^i >= n /\ (i = 0 \/ 2^(i - 1) < n)
<1>1. Fits # {} /\ Fits \subseteq Nat
  BY PowFacts DEF Logs
<1>2. PICK m \in Fits : \A k \in Fits : m <= k
  BY <1>1, Least
<1>3. Chosen(m)
  <2>1. Pow[m] = 2^m /\ m \in Logs
    BY PowFacts
  <2>2. ASSUME m # 0 PROVE 2^(m - 1) < n
    <3>1. m - 1 \in Logs /\ ~(m <= m - 1)
      BY <2>1, <2>2 DEF Logs
    <3>2. Pow[m - 1] = 2^(m - 1) /\ Pow[m - 1] \in Nat
      BY <3>1, PowFacts
    <3>3. ~(Pow[m - 1] >= n)
      BY <1>2, <3>1
    <3> QED BY <3>2, <3>3
  <2> QED BY <2>1, <2>2
<1>4. DEFINE c == CHOOSE i \in Logs : Chosen(i)
<1>5. c \in Logs /\ Chosen(c)
  BY <1>3
<1>6. NextPow2(n) = 2^c
  BY DEF NextPow2
<1> HIDE DEF c
<1>7. NextPow2(n) = Pow[c] /\ Pow[c] \in Nat /\ n <= Pow[c]
  BY <1>5, <1>6, PowFacts
<1>8. ASSUME NEW p \in Powers, n <= p PROVE NextPow2(n) <= p
  <2>1. PICK j \in Logs : p = Pow[j]
    BY DEF Powers
  <2>2. ASSUME j < c PROVE FALSE
    <3>1. j \in Nat /\ c \in Logs \ {0} /\ c - 1 \in Logs /\ j \in Logs
      BY <1>5, <2>2 DEF Logs
    <3>2. Pow[c - 1] = 2^(c - 1) /\ 2^(c - 1) < n /\ Pow[j] \in Nat /\ Pow[c - 1] \in Nat
      BY <1>5, <3>1, PowFacts
    <3>3. j = c - 1 \/ j < c - 1
      BY <2>2, <3>1 DEF Logs
    <3>4. Pow[j] <= Pow[c - 1]
      BY <3>1, <3>2, <3>3, PowOrder
    <3> QED BY <1>8, <2>1, <3>2, <3>4
  <2>3. c = j \/ c < j
    BY <1>5, <2>1, <2>2 DEF Logs
  <2>4. Pow[j] \in Nat
    BY <2>1, PowFacts
  <2> QED BY <1>5, <1>7, <2>1, <2>3, <2>4, PowOrder
<1> QED BY <1>5, <1>7, <1>8 DEF Powers

(* What is passed as a logarithm arrives, for a power of two.              *)
LEMMA LogRoundTrip ==
  ASSUME NEW p \in Powers
  PROVE  /\ p \in Nat \ {0} /\ Log2(p) \in Logs /\ 2^Log2(p) = p /\ Pow[Log2(p)] = p
<1>1. PICK j \in Logs : p = Pow[j]
  BY DEF Powers
<1>2. p \in Nat \ {0} /\ p = 2^j
  BY <1>1, PowFacts
<1> DEFINE Chosen(i) == p \div 2^i = 1
<1>3. Chosen(j)
  BY <1>2, Z3
<1>4. ASSUME NEW i \in Logs, Chosen(i) PROVE i = j
  <2>1. Pow[i] = 2^i /\ Pow[i] \in Nat \ {0}
    BY PowFacts
  <2> DEFINE q == Pow[i]
  <2>5. p \in Int /\ q \in Nat \ {0} /\ p \div q = 1
    BY <1>2, <1>4, <2>1
  <2>6. p = q * (p \div q) + (p % q) /\ p % q \in 0 .. q - 1
    BY <2>5, DivMod, Zenon
  <2> HIDE DEF q
  <2>2. p = q + (p % q) /\ p % q \in 0 .. q - 1
    BY <2>5, <2>6
  <2>3. q <= p /\ p < 2 * q
    BY <1>2, <2>1, <2>2, <2>5
  <2>4. ~(i < j) /\ ~(j < i)
    <3>1. i < j => 2 * q <= p
      BY <1>1, PowOrder DEF q
    <3>2. j < i => 2 * p <= q
      BY <1>1, PowOrder DEF q
    <3> QED BY <1>2, <2>3, <2>5, <3>1, <3>2
  <2> QED BY <2>4 DEF Logs
<1>5. Log2(p) = CHOOSE i \in Logs : Chosen(i)
  BY <1>2 DEF Log2
<1>6. Log2(p) = j
  BY <1>3, <1>4, <1>5
<1> QED BY <1>1, <1>2, <1>6

(* Multiplication keeps the order.                                         *)
LEMMA ProductBound ==
  ASSUME NEW x \in Nat, NEW y \in Nat, NEW a \in Nat, NEW b \in Nat, x <= a, y <= b
  PROVE  x * y \in Nat /\ x * y <= a * b
<1>1. x * y <= a * y /\ x * y \in Nat
  BY Z3
<1>2. a * y <= a * b
  BY Z3
<1>3. a * y \in Nat /\ a * b \in Nat
  BY Z3
<1> QED BY <1>1, <1>2, <1>3

(* The product of two powers, in 32 bits, is a power.                      *)
LEMMA PowerTimes ==
  ASSUME NEW p \in Powers, NEW q \in Powers, p * q <= IntMax + 1
  PROVE  p * q \in Powers
<1>1. PICK i \in Logs, j \in Logs : p = Pow[i] /\ q = Pow[j]
  BY DEF Powers
<1>2. p \in Nat \ {0} /\ q \in Nat \ {0} /\ i \in Nat /\ j \in Nat
  BY <1>1, PowFacts DEF Logs
<1>3. CASE i + j \in Logs
  <2>1. i + j \in j .. 31 /\ (i + j) - j = i
    BY <1>2, <1>3 DEF Logs
  <2>2. Pow[i + j] = Pow[(i + j) - j] * Pow[j]
    BY <2>1, Quotient, Zenon
  <2> QED BY <1>1, <1>3, <2>1, <2>2 DEF Powers
<1>4. CASE i + j \notin Logs
  <2>1. 31 \in j .. 31 /\ 31 - j \in Logs /\ 31 - j < i
    BY <1>1, <1>4 DEF Logs
  <2>2. Pow[31] = Pow[31 - j] * q
    BY <1>1, <2>1, Quotient
  <2>3. 2 * Pow[31 - j] <= p /\ Pow[31 - j] \in Nat \ {0}
    BY <1>1, <2>1, PowOrder, PowFacts
  <2> DEFINE x == Pow[31 - j]
  <2>4. (2 * x) * q <= p * q
    BY <1>2, <2>3, ProductBound
  <2>5. (2 * x) * q = 2 * (x * q) /\ x * q \in Nat
    BY <1>2, <2>3, Z3
  <2>6. x * q = IntMax + 1 /\ IntMax \in Nat
    BY <2>2, PowFacts, SMT DEF IntMax
  <2>7. p * q \in Nat
    BY <1>2, Z3
  <2> QED BY <2>4, <2>5, <2>6, <2>7
<1> QED BY <1>3, <1>4

(* What rounding up to a unit gives.                                       *)
LEMMA Aligned ==
  ASSUME NEW n \in Nat, NEW unit \in Nat \ {0}
  PROVE  \E k \in Nat : /\ AlignUp(n, unit) = k * unit
                        /\ n <= k * unit /\ k * unit < n + unit
<1> DEFINE k == (n + unit - 1) \div unit
           rest == (n + unit - 1) % unit
<1>1. n + unit - 1 \in Int
  OBVIOUS
<1>2. n + unit - 1 = unit * k + rest /\ rest \in 0 .. unit - 1 /\ k \in Int
  BY <1>1, DivMod, Zenon
<1>3. AlignUp(n, unit) = k * unit
  BY DEF AlignUp
<1> HIDE DEF k, rest
<1>4. n <= unit * k /\ unit * k < n + unit /\ unit * k = k * unit
  BY <1>2
<1>5. k >= 0
  <2>1. ASSUME k <= -1 PROVE unit * k < 0
    BY <1>2, <2>1, Z3
  <2> QED BY <1>2, <1>4, <2>1
<1> QED BY <1>2, <1>3, <1>4, <1>5

LEMMA RoundedUp ==
  ASSUME NEW n \in Nat, NEW unit \in Nat \ {0}
  PROVE  AlignUp(n, unit) \in Nat /\ n <= AlignUp(n, unit) /\ AlignUp(n, unit) < n + unit
<1>1. PICK k \in Nat : AlignUp(n, unit) = k * unit /\ n <= k * unit /\ k * unit < n + unit
  BY Aligned
<1>2. k * unit \in Nat
  BY Z3
<1> QED BY <1>1, <1>2

-----------------------------------------------------------------------------
(* The rings of a QP.                                                      *)

QpAsked(r) ==
  /\ r.sq_wr \in 0 .. IntMax /\ r.rq_wr \in 0 .. IntMax
  /\ r.send_sges \in 0 .. IntMax /\ r.rcv_sges \in 0 .. IntMax
  /\ r.inline \in 0 .. IntMax
  /\ r.srq \in BOOLEAN
  /\ Base(r) \in Nat

LEMMA Limits ==
  /\ MaxQpWr \in Nat \ {0} /\ MaxRqDesc \in Nat \ {0} /\ MaxSqDesc \in Nat \ {0}
  /\ MaxSendWqebb \in Nat \ {0} /\ MaxSrqWr \in Nat \ {0} /\ MaxSrqSge \in Nat \ {0}
  /\ MaxQpWr <= Pow[15] /\ MaxSrqWr <= Pow[15] /\ MaxSendWqebb <= Pow[15]
  /\ MaxRqDesc < Word16 /\ MaxSqDesc < Word16
  /\ Pow[15] * Word16 <= IntMax + 1
  /\ Word16 \in Nat /\ IntMax \in Nat /\ Word16 <= IntMax /\ Pow[15] \in Nat /\ Pow[15] < Word16
<1>1. 15 \in Logs
  BY DEF Logs
<1>2. Pow[15] = 2^15
  BY <1>1, PowFacts
<1>3. Word16 \in Nat /\ IntMax \in Nat /\ Word16 <= IntMax /\ 2^15 \in Nat /\ 2^15 < Word16
      /\ 2^15 * Word16 <= IntMax + 1
  BY SMT DEF Word16, IntMax
<1> QED BY <1>2, <1>3, LimitsAssumption

LEMMA ReceiveWqe ==
  ASSUME NEW r, QpAsked(r), HasRq(r), RqAccepted(r)
  PROVE  /\ RcvWqe(r) \in Powers /\ RcvWqe(r) \in Nat \ {0} /\ 16 <= RcvWqe(r)
         /\ RcvWqe(r) < Word16 /\ r.rcv_sges * DataSeg <= RcvWqe(r)
         /\ r.rq_wr * RcvWqe(r) \in 1 .. IntMax + 1
<1> DEFINE s == r.rcv_sges  p == NextPow2(s)  w == p * 16
<1>1. s \in 1 .. IntMax + 1 /\ r.rq_wr \in Nat \ {0} /\ r.rq_wr <= MaxQpWr
  BY Limits DEF QpAsked, HasRq, RqAccepted
<1>2. p \in Powers /\ p \in Nat /\ s <= p
  BY <1>1, NextPow, Zenon
<1>3. RcvWqe(r) = w /\ w <= MaxRqDesc
  BY DEF RcvWqe, RcvSges, DataSeg, RqAccepted
<1> HIDE DEF p
<1>4. w < Word16 /\ w \in Nat \ {0} /\ 16 <= w /\ w <= IntMax + 1 /\ s * 16 <= w
  BY <1>1, <1>2, <1>3, Limits
<1>5. w \in Powers
  <2>1. 16 \in Powers
    BY PowFacts DEF Powers, Logs
  <2> QED BY <1>2, <1>4, <2>1, PowerTimes
<1>6. r.rq_wr * w \in Nat /\ r.rq_wr * w <= Pow[15] * Word16
  BY <1>1, <1>4, Limits, ProductBound
<1>7. r.rq_wr * w # 0
  BY <1>1, <1>4, Z3
<1>8. r.rq_wr * w \in 1 .. IntMax + 1
  BY <1>4, <1>6, <1>7, Limits
<1> QED BY <1>3, <1>4, <1>5, <1>8 DEF DataSeg

(* The receive queue: a power of two WQEs, at least those asked for.       *)
LEMMA ReceiveSide ==
  ASSUME NEW r, QpAsked(r), HasRq(r), RqAccepted(r)
  PROVE  /\ RecvRing(r).stride = RcvWqe(r) /\ RecvRing(r).at = Base(r)
         /\ RecvRing(r).count \in Powers /\ RecvRing(r).count \in Nat \ {0}
         /\ r.rq_wr <= RecvRing(r).count
         /\ Bytes(RecvRing(r)) \in Nat \ {0}
<1> DEFINE w == RcvWqe(r)
           n == NextPow2(r.rq_wr * w)
           b == BiggestOf(n, MinRq)
<1>1. w \in Powers /\ w \in Nat \ {0} /\ r.rq_wr * w \in 1 .. IntMax + 1 /\ r.rq_wr \in Nat \ {0}
  BY ReceiveWqe, Limits DEF QpAsked, HasRq
<1>2. n \in Powers /\ n \in Nat /\ r.rq_wr * w <= n
  BY <1>1, NextPow, Zenon
<1> HIDE DEF n
<1>3. b \in Powers /\ b \in Nat /\ n <= b
  <2>1. 64 \in Powers
    BY PowFacts DEF Powers, Logs
  <2> QED BY <1>2, <2>1 DEF BiggestOf, MinRq, Wqebb
<1>4. RecvRing(r).stride = w /\ RecvRing(r).at = Base(r) /\ RecvRing(r).count = b \div w
  BY DEF RecvRing, Ring, n
<1> HIDE DEF w, b
<1>5. w <= r.rq_wr * w /\ r.rq_wr * w \in Nat
  BY <1>1, Z3
<1>6. w <= b
  BY <1>1, <1>2, <1>3, <1>5
<1>7. b \div w \in Powers /\ b = (b \div w) * w
  BY <1>1, <1>3, <1>6, PowerDivides
<1>8. b \div w \in Nat \ {0}
  BY <1>7, LogRoundTrip
<1>9. r.rq_wr <= b \div w
  <2> DEFINE c == b \div w
  <2>1. c \in Nat /\ r.rq_wr * w <= c * w
    BY <1>1, <1>2, <1>3, <1>5, <1>7, <1>8
  <2> HIDE DEF c
  <2>2. ASSUME c < r.rq_wr PROVE FALSE
    <3>1. (c + 1) * w <= r.rq_wr * w
      BY <1>1, <2>1, <2>2, ProductBound
    <3>2. (c + 1) * w = c * w + w /\ c * w \in Nat
      BY <1>1, <2>1, Z3
    <3> QED BY <1>1, <1>5, <2>1, <3>1, <3>2
  <2> QED BY <1>1, <2>1, <2>2 DEF c
<1>10. Bytes(RecvRing(r)) = b /\ b # 0
  <2>1. w * (b \div w) = (b \div w) * w
    BY <1>1, <1>8, Z3
  <2> QED BY <1>1, <1>4, <1>6, <1>7, <2>1 DEF Bytes
<1> QED BY <1>3, <1>4, <1>7, <1>8, <1>9, <1>10 DEF w

(* The send queue: WQEs of whole WQEBBs, at least those asked for, each    *)
(* with room for its segments.                                             *)
LEMMA SendWqes ==
  ASSUME NEW r, QpAsked(r), r.sq_wr > 0, SqAccepted(r)
  PROVE  /\ SendWqe(r) \in Nat \ {0} /\ 64 <= SendWqe(r)
         /\ SendSize(r) <= SendWqe(r) /\ InlineSize(r) <= SendWqe(r)
         /\ SendWqe(r) * r.sq_wr \in 1 .. IntMax + 1
<1> DEFINE x == BiggestOf(SendSize(r), InlineSize(r))
           w == SendWqe(r)
           M == MaxSqDesc
<1>1. SendSize(r) \in Nat \ {0} /\ SendSize(r) <= M
  BY DEF SendSize, QpAsked, SqAccepted, Ctrl, Raddr, DataSeg
<1>2. InlineSize(r) \in Nat /\ InlineSize(r) <= M
  <2>1. CASE r.inline = 0
    BY <2>1, Limits DEF InlineSize, SqAccepted
  <2>2. CASE r.inline # 0
    <3>1. InlHeader + r.inline \in Nat /\ Octoword \in Nat \ {0}
      BY DEF QpAsked, InlHeader, Octoword
    <3>2. AlignUp(InlHeader + r.inline, Octoword) \in Nat
      BY <3>1, RoundedUp
    <3> QED BY <2>2, <3>2 DEF InlineSize, SqAccepted, Ctrl, Raddr
  <2> QED BY <2>1, <2>2
<1>3. x \in Nat \ {0} /\ x <= M /\ SendSize(r) <= x /\ InlineSize(r) <= x
  BY <1>1, <1>2, Limits DEF BiggestOf
<1> HIDE DEF x
<1>4. PICK k \in Nat : w = k * 64 /\ x <= k * 64 /\ k * 64 < x + 64
  <2>1. x \in Nat /\ 64 \in Nat \ {0}
    BY <1>3
  <2>2. w = AlignUp(x, 64)
    BY DEF x, SendWqe, Wqebb
  <2> QED BY <2>1, <2>2, Aligned
<1>5. w <= M
  BY <1>3, <1>4, Limits, LimitsAssumption DEF Wqebb
<1>6. w \in Nat \ {0} /\ 64 <= w
  BY <1>3, <1>4
<1> HIDE DEF w
<1>7. r.sq_wr <= IntMax \div M /\ r.sq_wr \in Nat \ {0}
  BY DEF SqAccepted, QpAsked
<1>8. M * (IntMax \div M) <= IntMax /\ IntMax \div M \in Nat
  <2>1. IntMax \in Int /\ M \in Nat \ {0}
    BY Limits
  <2>2. IntMax = M * (IntMax \div M) + (IntMax % M) /\ IntMax % M \in 0 .. M - 1 /\ IntMax \div M \in Int
    BY <2>1, DivMod, Zenon
  <2> DEFINE d == IntMax \div M
  <2>3. d >= r.sq_wr
    BY <1>7
  <2> QED BY <1>7, <2>1, <2>2, <2>3, Limits
<1>9. w * r.sq_wr \in Nat /\ w * r.sq_wr <= M * (IntMax \div M)
  BY <1>5, <1>6, <1>7, <1>8, Limits, ProductBound
<1>10. w * r.sq_wr # 0
  BY <1>6, <1>7, Z3
<1>11. M * (IntMax \div M) \in Nat
  BY <1>8, Limits, Z3
<1>12. w * r.sq_wr \in 1 .. IntMax + 1
  BY <1>8, <1>9, <1>10, <1>11, Limits
<1>13. SendSize(r) <= w /\ InlineSize(r) <= w
  BY <1>1, <1>2, <1>3, <1>4, <1>6
<1> QED BY <1>6, <1>12, <1>13 DEF w

LEMMA SendSide ==
  ASSUME NEW r, QpAsked(r), r.sq_wr > 0, SqAccepted(r)
  PROVE  /\ SqBytes(r) \div Wqebb \in Powers /\ SqBytes(r) \div Wqebb \in Nat \ {0}
         /\ SqBytes(r) \div Wqebb <= MaxSendWqebb
         /\ SqBytes(r) \in Nat \ {0} /\ Wqebb * (SqBytes(r) \div Wqebb) = SqBytes(r)
         /\ r.sq_wr <= SizeInWrs(r) /\ SizeInWrs(r) * SendWqe(r) <= SqBytes(r)
         /\ SendWqe(r) * r.sq_wr <= SqBytes(r)
<1> DEFINE w == SendWqe(r)
           n == SqBytes(r)
<1>1. w \in Nat \ {0} /\ 64 <= w /\ w * r.sq_wr \in 1 .. IntMax + 1 /\ r.sq_wr \in Nat \ {0}
  BY SendWqes DEF QpAsked
<1>2. n \in Powers /\ n \in Nat /\ w * r.sq_wr <= n
  BY <1>1, NextPow, Zenon DEF SqBytes
<1>0. SqBytes(r) \div Wqebb <= MaxSendWqebb
  BY DEF SqAccepted
<1>3. SizeInWrs(r) = n \div w
  BY DEF SizeInWrs
<1> HIDE DEF w, n
<1>4. w <= w * r.sq_wr /\ w * r.sq_wr \in Nat
  BY <1>1, Z3
<1>5. 64 \in Powers /\ 64 <= n
  <2>1. 64 \in Powers
    BY PowFacts DEF Powers, Logs
  <2> QED BY <1>1, <1>2, <1>4, <2>1
<1>6. n \div 64 \in Powers /\ n = (n \div 64) * 64
  BY <1>2, <1>5, PowerDivides
<1>7. n \div 64 \in Nat \ {0} /\ 64 * (n \div 64) = n
  BY <1>6, LogRoundTrip
<1> DEFINE c == n \div w
<1>12. n \in Int
  BY <1>2
<1>8. n = w * c + (n % w) /\ n % w \in 0 .. w - 1 /\ c \in Int
  BY <1>1, <1>12, DivMod, Zenon
<1> HIDE DEF c
<1>9. r.sq_wr <= c
  <2>1. ASSUME c < r.sq_wr PROVE FALSE
    <3>1. w * (r.sq_wr - c) >= w
      BY <1>1, <1>8, <2>1, Z3
    <3>2. w * (r.sq_wr - c) = w * r.sq_wr - w * c
      BY <1>1, <1>8, Z3
    <3>3. w * c \in Int
      BY <1>1, <1>8, Z3
    <3> QED BY <1>1, <1>2, <1>4, <1>8, <3>1, <3>2, <3>3
  <2> QED BY <1>1, <1>8, <2>1
<1>10. c * w = w * c /\ w * c \in Int
  BY <1>1, <1>8, Z3
<1>11. c * w <= n
  BY <1>1, <1>2, <1>8, <1>10
<1> QED BY <1>0, <1>1, <1>2, <1>3, <1>5, <1>6, <1>7, <1>9, <1>11 DEF Wqebb, c, w, n

(* A stride passed in units of 16 bytes, as a logarithm, arrives.          *)
LEMMA StrideRoundTrip ==
  ASSUME NEW w \in Powers, 16 <= w
  PROVE  StrideUnit * 2^(Log2(w) - 4) = w
<1> DEFINE k == Log2(w)
<1>1. k \in Logs /\ Pow[k] = w /\ 4 \in Logs /\ w \in Nat
  BY LogRoundTrip DEF Logs
<1> HIDE DEF k
<1>2. 4 <= k
  <2>1. ASSUME k < 4 PROVE FALSE
    BY <1>1, <2>1, PowOrder, PowFacts
  <2> QED BY <1>1, <2>1 DEF Logs
<1>3. k \in 4 .. 31
  BY <1>1, <1>2 DEF Logs
<1>4. k - 4 \in Logs /\ Pow[k] = Pow[k - 4] * Pow[4]
  BY <1>1, <1>3, Quotient
<1>5. Pow[k - 4] = 2^(k - 4) /\ Pow[k - 4] \in Nat /\ Pow[4] = 16
  BY <1>4, PowFacts
<1>6. 16 * 2^(k - 4) = w
  BY <1>1, <1>4, <1>5
<1> QED BY <1>6 DEF StrideUnit, k

LEMMA RingFields ==
  ASSUME NEW at, NEW stride, NEW count
  PROVE  /\ Ring(at, stride, count).at = at /\ Ring(at, stride, count).stride = stride
         /\ Ring(at, stride, count).count = count
         /\ Bytes(Ring(at, stride, count)) = stride * count
BY DEF Ring, Bytes

LEMMA NoRingFields == NoRing.at = 0 /\ NoRing.count = 0 /\ Bytes(NoRing) = 0
BY DEF NoRing, Ring, Bytes

(* The rings of a QP, the send queue right behind the receive queue.       *)
LEMMA QpRings ==
  ASSUME NEW r, QpAsked(r), RqAccepted(r), SqAccepted(r)
  PROVE  /\ RecvRing(r) = Ring(Base(r), RecvRing(r).stride, RecvRing(r).count)
         /\ Bytes(RecvRing(r)) \in Nat
         /\ RecvRing(r).count # 0 <=> HasRq(r)
         /\ RecvRing(r).count = 0 => Bytes(RecvRing(r)) = 0
         /\ SendRing(r) = Ring(Base(r) + Bytes(RecvRing(r)), 64, SendRing(r).count)
         /\ Bytes(SendRing(r)) = IF r.sq_wr = 0 THEN 0 ELSE SqBytes(r)
         /\ Bytes(SendRing(r)) \in Nat
         /\ SendRing(r).count = 0 <=> r.sq_wr = 0
         /\ SendRing(r).count # 0 => SendRing(r).count \in Powers /\ SendRing(r).count <= MaxSendWqebb
<1> DEFINE rq == RecvRing(r)
<1>1. rq = Ring(Base(r), rq.stride, rq.count) /\ Bytes(rq) = rq.stride * rq.count
  BY DEF RecvRing, Ring, Bytes
<1>4. Bytes(rq) \in Nat /\ rq.count * 2^Log2(rq.stride) = Bytes(rq)
  <2>1. CASE HasRq(r)
    <3>1. /\ rq.stride \in Powers /\ rq.count \in Nat \ {0} /\ Bytes(rq) \in Nat \ {0}
          /\ rq.stride \in Nat /\ 2^Log2(rq.stride) = rq.stride
      BY <2>1, ReceiveSide, ReceiveWqe, LogRoundTrip
    <3> QED BY <1>1, <3>1, Z3
  <2>2. CASE ~HasRq(r)
    <3>1. rq = Ring(Base(r), 0, 0)
      BY <2>2 DEF RecvRing
    <3>2. rq.stride = 0 /\ rq.count = 0 /\ Bytes(rq) = 0
      BY <3>1, RingFields
    <3> QED BY <3>2 DEF Log2
  <2> QED BY <2>1, <2>2
<1>5. rq.count # 0 <=> HasRq(r)
  <2>1. HasRq(r) => rq.count # 0
    BY ReceiveSide
  <2>2. ~HasRq(r) => rq.count = 0
    BY DEF RecvRing, Ring
  <2> QED BY <2>1, <2>2
<1>6. rq.count = 0 => Bytes(rq) = 0
  BY <1>5, RingFields DEF RecvRing
<1> DEFINE n == IF r.sq_wr = 0 THEN 0 ELSE SqBytes(r) \div Wqebb
<1>7. SendRing(r) = Ring(Base(r) + Bytes(rq), 64, n)
  BY <1>4 DEF SendRing, Wqebb
<1>8. SendRing(r).count = n /\ Bytes(SendRing(r)) = 64 * n
  BY <1>7, RingFields
<1>9. r.sq_wr \in Nat
  BY Limits DEF QpAsked
<1>10. CASE r.sq_wr = 0
  BY <1>1, <1>4, <1>5, <1>6, <1>7, <1>8, <1>10
<1>11. CASE r.sq_wr > 0
  <2>1. n \in Powers /\ n \in Nat \ {0} /\ n <= MaxSendWqebb /\ SqBytes(r) \in Nat \ {0} /\ 64 * n = SqBytes(r)
    BY <1>11, SendSide DEF Wqebb
  <2> HIDE DEF n
  <2> QED BY <1>1, <1>4, <1>5, <1>6, <1>7, <1>8, <1>11, <2>1
<1> QED BY <1>9, <1>10, <1>11

(* What the device is told of them.                                        *)
LEMMA QpTold ==
  ASSUME NEW r, QpAsked(r), RqAccepted(r), SqAccepted(r)
  PROVE  LET d == QpDevice(r)
         IN  /\ HasRq(r) => d.recv = Ring(0, RecvRing(r).stride, RecvRing(r).count)
             /\ ~HasRq(r) => d.recv = NoRing
             /\ Bytes(d.recv) = Bytes(RecvRing(r))
             /\ d.send = Ring(Bytes(RecvRing(r)), 64, SendRing(r).count)
             /\ Bytes(d.send) = Bytes(SendRing(r))
             /\ d.cqe = NoRing /\ d.db = QpObject(r).db
<1> DEFINE d == QpDevice(r)  rq == RecvRing(r)
<1>1. /\ d.recv = IF rq.count = 0 THEN NoRing
                  ELSE Ring(0, StrideUnit * 2^(Log2(rq.stride) - 4), 2^Log2(rq.count))
      /\ d.cqe = NoRing /\ d.db = QpObject(r).db
      /\ d.send = Ring(Bytes(d.recv), Wqebb, IF r.sq_wr = 0 THEN 0 ELSE 2^Log2(SendRing(r).count))
  BY DEF QpDevice, NoObject
<1>3. HasRq(r) => d.recv = Ring(0, rq.stride, rq.count)
  <2>1. ASSUME HasRq(r) PROVE rq.stride \in Powers /\ 16 <= rq.stride /\ rq.count \in Powers /\ rq.count # 0
    BY <2>1, ReceiveSide, ReceiveWqe
  <2> QED BY <1>1, <2>1, StrideRoundTrip, LogRoundTrip
<1>4. ~HasRq(r) => d.recv = NoRing
  BY <1>1, QpRings
<1>5. Bytes(d.recv) = Bytes(rq)
  <2>1. Bytes(rq) = rq.stride * rq.count
    BY DEF Bytes
  <2> QED BY <1>3, <1>4, <2>1, QpRings, RingFields, NoRingFields
<1>6. (IF r.sq_wr = 0 THEN 0 ELSE 2^Log2(SendRing(r).count)) = SendRing(r).count
  BY QpRings, LogRoundTrip
<1>7. d.send = Ring(Bytes(rq), 64, SendRing(r).count)
  BY <1>1, <1>5, <1>6 DEF Wqebb
<1>8. Bytes(d.send) = 64 * SendRing(r).count /\ Bytes(SendRing(r)) = 64 * SendRing(r).count
  BY <1>7, QpRings, RingFields
<1> QED BY <1>1, <1>3, <1>4, <1>5, <1>7, <1>8

-----------------------------------------------------------------------------
(* The properties, object by object.                                       *)

LEMMA QpFields ==
  ASSUME NEW r
  PROVE  LET q == QpObject(r)
         IN  /\ q.recv = RecvRing(r) /\ q.send = SendRing(r) /\ q.cqe = NoRing
             /\ q.db = IF IsExternal(r) THEN <<"dbr", 0>> ELSE <<"wq", DbAfterRings(r)>>
             /\ q.size = IF IsExternal(r) THEN 0 ELSE AlignUp(DbAfterRings(r) + Doorbell, Page)
             /\ q.wqe = SendWqe(r) /\ q.wr = SizeInWrs(r) /\ q.inline = InlineRoom(r)
BY DEF QpObject, NoObject

LEMMA QpHasRoom ==
  ASSUME QpAsked(request), RqAccepted(request), SqAccepted(request),
         request.kind = "qp", made = QpObject(request)
  PROVE  QpRoom
<1> DEFINE r == request  d == QpDevice(r)
<1>1. Device(r) = d
  BY DEF Device
<1>2. SendWqe(r) \in Nat
  <2>1. SendSize(r) \in Nat
    BY DEF SendSize, QpAsked, Ctrl, Raddr, DataSeg
  <2>2. InlineSize(r) \in Nat
    <3>1. InlHeader + r.inline \in Nat /\ Octoword \in Nat \ {0}
      BY DEF QpAsked, InlHeader, Octoword
    <3>2. AlignUp(InlHeader + r.inline, Octoword) \in Nat
      BY <3>1, RoundedUp
    <3> QED BY <3>2 DEF InlineSize, Ctrl, Raddr
  <2>3. BiggestOf(SendSize(r), InlineSize(r)) \in Nat /\ Wqebb \in Nat \ {0}
    BY <2>1, <2>2 DEF BiggestOf, Wqebb
  <2> QED BY <2>3, RoundedUp DEF SendWqe
<1>3. made.wr >= r.sq_wr /\ made.wr * made.wqe <= Bytes(d.send)
  <2>1. Bytes(d.send) = IF r.sq_wr = 0 THEN 0 ELSE SqBytes(r)
    BY QpTold, QpRings
  <2>4. made.wr = SizeInWrs(r) /\ made.wqe = SendWqe(r)
    BY QpFields
  <2>2. CASE r.sq_wr = 0
    <3>1. SizeInWrs(r) = 0
      BY <2>2 DEF SizeInWrs
    <3> QED BY <1>2, <2>1, <2>2, <2>4, <3>1
  <2>3. CASE r.sq_wr > 0
    BY <2>1, <2>3, <2>4, SendSide
  <2> QED BY <2>2, <2>3, Limits DEF QpAsked
<1>4. ASSUME r.sq_wr > 0
      PROVE  /\ made.wqe >= Ctrl + Raddr + r.send_sges * DataSeg
             /\ made.inline >= r.inline
             /\ made.inline > 0 => made.wqe >= Ctrl + Raddr + InlHeader + made.inline
  <2>1. made.wqe = SendWqe(r) /\ made.inline = InlineRoom(r)
        /\ SendSize(r) <= SendWqe(r) /\ InlineSize(r) <= SendWqe(r)
    BY <1>4, QpFields, SendWqes
  <2>2. CASE r.inline = 0
    BY <2>1, <2>2 DEF SendSize, InlineRoom
  <2>3. CASE r.inline # 0
    <3>1. InlHeader + r.inline \in Nat /\ Octoword \in Nat \ {0} /\ r.inline \in Nat
      BY DEF QpAsked, InlHeader, Octoword
    <3>2. AlignUp(InlHeader + r.inline, Octoword) \in Nat
          /\ InlHeader + r.inline <= AlignUp(InlHeader + r.inline, Octoword)
      BY <3>1, RoundedUp
    <3>3. InlineSize(r) >= Ctrl + Raddr + InlHeader + r.inline
      BY <2>3, <3>1, <3>2 DEF InlineSize, Ctrl, Raddr, InlHeader
    <3>4. made.inline = SendWqe(r) - (Ctrl + Raddr + InlHeader)
      BY <1>4, <2>1, <2>3 DEF InlineRoom
    <3>5. InlineSize(r) \in Int
      BY <2>3, <3>2 DEF InlineSize, Ctrl, Raddr
    <3> HIDE DEF r
    <3> QED BY <1>2, <2>1, <3>1, <3>3, <3>4, <3>5 DEF Ctrl, Raddr, InlHeader, SendSize
  <2> QED BY <2>2, <2>3
<1>5. ASSUME HasRq(r)
      PROVE  d.recv.count >= r.rq_wr /\ d.recv.stride >= r.rcv_sges * DataSeg
  <2>1. d.recv.count = RecvRing(r).count /\ d.recv.stride = RecvRing(r).stride
    BY <1>5, QpTold, RingFields
  <2>2. /\ r.rq_wr <= RecvRing(r).count /\ RecvRing(r).stride = RcvWqe(r)
        /\ r.rcv_sges * DataSeg <= RcvWqe(r)
    BY <1>5, ReceiveSide, ReceiveWqe
  <2>3. RecvRing(r).count \in Nat /\ r.rq_wr \in Nat /\ r.rcv_sges * DataSeg \in Nat /\ RcvWqe(r) \in Nat
    BY <1>5, ReceiveSide, ReceiveWqe, Limits DEF QpAsked, DataSeg
  <2> QED BY <2>1, <2>2, <2>3
<1> QED BY <1>1, <1>3, <1>4, <1>5 DEF QpRoom

(* Rings one after the other, then the record, in one UMEM.                *)
LEMMA InARow ==
  ASSUME NEW a \in Nat, NEW b \in Nat, NEW c \in Nat, NEW e \in Nat, NEW f \in Nat, NEW size \in Nat,
         a <= b, b <= c, c <= e, e <= f, size > 0 => f <= size,
         NEW E, E \subseteq {<<a, b>>, <<b, c>>, <<e, f>>, <<0, 0>>}
  PROVE  Fit(E, size)
<1>1. ASSUME NEW x \in E, NEW y \in E, x[1] < x[2], y[1] < y[2]
      PROVE  x = y \/ x[2] <= y[1] \/ y[2] <= x[1]
  <2>1. x = <<a, b>> \/ x = <<b, c>> \/ x = <<e, f>>
    BY <1>1
  <2>2. y = <<a, b>> \/ y = <<b, c>> \/ y = <<e, f>>
    BY <1>1
  <2> QED BY <2>1, <2>2
<1>2. ASSUME size > 0, NEW x \in E PROVE x[2] <= size
  <2>1. x = <<a, b>> \/ x = <<b, c>> \/ x = <<e, f>> \/ x = <<0, 0>>
    OBVIOUS
  <2> QED BY <1>2, <2>1
<1> QED BY <1>1, <1>2 DEF Fit

LEMMA QpRingsApart ==
  ASSUME NEW r, QpAsked(r), RqAccepted(r), SqAccepted(r)
  PROVE  Fit(Extents(QpObject(r)), QpObject(r).size)
<1> DEFINE q == QpObject(r)
           a == Base(r)
           b == a + Bytes(RecvRing(r))
           c == b + Bytes(SendRing(r))
<1>1. a \in Nat /\ b \in Nat /\ c \in Nat /\ a <= b /\ b <= c
  BY QpRings DEF QpAsked
<1>2. /\ <<q.recv.at, q.recv.at + Bytes(q.recv)>> = <<a, b>>
      /\ <<q.send.at, q.send.at + Bytes(q.send)>> = <<b, c>>
      /\ <<q.cqe.at, q.cqe.at + Bytes(q.cqe)>> = <<0, 0>>
  <2>1. RecvRing(r).at = a /\ SendRing(r).at = b
    BY QpRings, RingFields
  <2>2. q.recv = RecvRing(r) /\ q.send = SendRing(r) /\ q.cqe = NoRing
    BY QpFields
  <2> QED BY <2>1, <2>2, NoRingFields
<1>3. CASE IsExternal(r)
  <2>3. q.db = <<"dbr", 0>> /\ q.size = 0
    BY <1>3, QpFields
  <2>1. q.db[1] # "wq"
    BY <2>3
  <2>2. Extents(q) \subseteq {<<a, b>>, <<b, c>>, <<c, c>>, <<0, 0>>}
    BY <1>2, <2>1 DEF Extents
  <2> DEFINE E == Extents(q)
  <2>5. E \subseteq {<<a, b>>, <<b, c>>, <<c, c>>, <<0, 0>>} /\ 0 \in Nat /\ c <= c /\ (0 > 0 => c <= 0)
    BY <1>1, <2>2
  <2> HIDE DEF E, a, b, c
  <2>6. Fit(E, 0)
    BY <1>1, <2>5, InARow, Zenon
  <2>4. Fit(Extents(q), 0)
    BY <2>6 DEF E
  <2> QED BY <2>3, <2>4
<1>4. CASE ~IsExternal(r)
  <2>1. a = 0
    BY <1>4 DEF Base
  <2> DEFINE db == DbAfterRings(r)  size == AlignUp(db + Doorbell, Page)
  <2>2. Bytes(RecvRing(r)) + Bytes(SendRing(r)) = c /\ Cacheline \in Nat \ {0}
    BY <2>1, QpRings DEF Cacheline
  <2>3. db \in Nat /\ c <= db
    BY <1>1, <2>2, RoundedUp DEF DbAfterRings
  <2> HIDE DEF db
  <2>4. db + Doorbell \in Nat /\ Page \in Nat \ {0}
    BY <2>3 DEF Doorbell, Page
  <2>5. size \in Nat /\ db + Doorbell <= size
    BY <2>4, RoundedUp
  <2>6. q.db = <<"wq", db>> /\ q.size = size
    BY <1>4, QpFields DEF db
  <2>7. Extents(q) \subseteq {<<a, b>>, <<b, c>>, <<db, db + DbrSize>>, <<0, 0>>}
    BY <1>2, <2>6 DEF Extents
  <2>8. db + DbrSize \in Nat /\ db <= db + DbrSize /\ db + DbrSize <= size
    BY <2>3, <2>5 DEF DbrSize, Doorbell
  <2> HIDE DEF size
  <2> QED BY <1>1, <2>3, <2>5, <2>6, <2>7, <2>8, InARow
<1> QED BY <1>3, <1>4

(* A CQ.                                                                   *)
LEMMA PowersArePow2 ==
  ASSUME NEW p \in Powers
  PROVE  IsPow2(p)
<1>1. p \in Nat \ {0} /\ p <= IntMax + 1
  <2>1. PICK i \in Logs : p = Pow[i]
    BY DEF Powers
  <2>5. 31 \in Logs
    BY DEF Logs
  <2>2. p \in Nat \ {0} /\ 31 \in Logs /\ IntMax \in Nat
    BY <2>1, <2>5, PowFacts, Limits
  <2>3. i = 31 \/ i < 31
    BY <2>1 DEF Logs
  <2>4. p <= Pow[31] /\ Pow[31] = IntMax + 1
    BY <2>1, <2>2, <2>3, PowOrder, PowFacts
  <2> QED BY <2>2, <2>4
<1>2. p \in 1 .. IntMax + 1
  BY <1>1, Limits
<1>3. NextPow2(p) \in Nat /\ p <= NextPow2(p) /\ NextPow2(p) <= p
  BY <1>1, <1>2, NextPow
<1> QED BY <1>1, <1>3 DEF IsPow2

LEMMA CqSize ==
  ASSUME NEW n \in 0 .. IntMax, CqAccepted(n)
  PROVE  n \in Powers /\ n \in Nat \ {0} /\ 2^Log2(n) = n
<1>1. n \in 1 .. IntMax + 1 /\ NextPow2(n) = n
  BY Limits DEF CqAccepted, IsPow2
<1> QED BY <1>1, NextPow, LogRoundTrip

LEMMA CqFields ==
  ASSUME NEW r
  PROVE  LET q == CqObject(r)
         IN  /\ q.recv = NoRing /\ q.send = NoRing /\ q.cqe = Ring(0, 64, r.size)
             /\ q.db = <<"wq", CqDb(r.size)>>
             /\ q.size = IF IsExternal(r) THEN 0 ELSE AlignUp(CqDb(r.size) + Doorbell, Page)
BY DEF CqObject, NoObject, Cqe

LEMMA CqRecord ==
  ASSUME NEW n \in Nat
  PROVE  CqDb(n) = 64 * n
<1>1. n * Cqe \in Nat /\ Cacheline \in Nat \ {0} /\ Cqe = 64 /\ Cacheline = 64
  BY DEF Cqe, Cacheline
<1>2. PICK k \in Nat : CqDb(n) = k * 64 /\ n * 64 <= k * 64 /\ k * 64 < n * 64 + 64
  BY <1>1, Aligned DEF CqDb
<1> QED BY <1>2

LEMMA CqRingsApart ==
  ASSUME NEW r, r.size \in 0 .. IntMax, CqAccepted(r.size)
  PROVE  Fit(Extents(CqObject(r)), CqObject(r).size)
<1> DEFINE q == CqObject(r)
           b == 64 * r.size
           f == b + DbrSize
           E == Extents(q)
<1>1. b \in Nat /\ f \in Nat /\ b <= f /\ r.size \in Nat
  BY CqSize DEF DbrSize
<1>2. /\ <<q.recv.at, q.recv.at + Bytes(q.recv)>> = <<0, 0>>
      /\ <<q.send.at, q.send.at + Bytes(q.send)>> = <<0, 0>>
      /\ <<q.cqe.at, q.cqe.at + Bytes(q.cqe)>> = <<0, b>>
      /\ <<q.db[2], q.db[2] + DbrSize>> = <<b, f>>
  <2>1. q.recv = NoRing /\ q.send = NoRing /\ q.cqe = Ring(0, 64, r.size) /\ q.db = <<"wq", b>>
    BY <1>1, CqFields, CqRecord
  <2> QED BY <1>1, <2>1, NoRingFields, RingFields
<1>3. E \subseteq {<<0, b>>, <<b, b>>, <<b, f>>, <<0, 0>>}
  BY <1>2 DEF Extents
<1>4. q.size \in Nat /\ (q.size > 0 => f <= q.size)
  <2>1. CqDb(r.size) = b /\ b + Doorbell \in Nat /\ Page \in Nat \ {0}
    BY <1>1, CqRecord DEF Doorbell, Page
  <2>2. AlignUp(b + Doorbell, Page) \in Nat /\ b + Doorbell <= AlignUp(b + Doorbell, Page)
    BY <2>1, RoundedUp
  <2>3. q.size = IF IsExternal(r) THEN 0 ELSE AlignUp(b + Doorbell, Page)
    BY <2>1, CqFields
  <2>4. f <= b + Doorbell
    BY <1>1 DEF DbrSize, Doorbell
  <2> HIDE DEF b, f
  <2> QED BY <1>1, <2>1, <2>2, <2>3, <2>4
<1>5. 0 \in Nat /\ 0 <= b /\ b <= b
  BY <1>1
<1> HIDE DEF b, f, E
<1>6. Fit(E, q.size)
  BY <1>1, <1>3, <1>4, <1>5, InARow, Zenon
<1> QED BY <1>6 DEF E

(* An SRQ.                                                                 *)
SrqAsked(r) ==
  /\ r.wr \in 0 .. IntMax /\ r.sges \in 0 .. IntMax /\ r.linked \in BOOLEAN
  /\ Base(r) \in Nat

LEMMA SrqWqes ==
  ASSUME NEW r, SrqAsked(r), SrqAccepted(r)
  PROVE  /\ SrqWqe(r) \in Powers /\ SrqWqe(r) \in Nat \ {0}
         /\ r.sges * DataSeg + SrqControl(r) <= SrqWqe(r)
         /\ SrqControl(r) \in Nat /\ SrqControl(r) <= SrqWqe(r)
         /\ r.wr * SrqWqe(r) \in 1 .. IntMax + 1 /\ r.wr \in Nat \ {0} /\ r.sges \in Nat
<1> DEFINE m == BiggestOf(r.sges * DataSeg + SrqControl(r), IF r.linked THEN MinSrqWqe ELSE 0)
           w == NextPow2(m)
<1>1. r.sges \in 1 .. MaxSrqSge /\ r.wr \in 1 .. MaxSrqWr
  BY DEF SrqAccepted
<1>2. SrqControl(r) \in 0 .. 16
  BY DEF SrqControl, Ctrl
<1>3. Ctrl + MaxSrqSge * DataSeg < Word16 /\ 32 <= Word16
  BY Limits, LimitsAssumption DEF Ctrl, DataSeg, Word16
<1>4. m \in Nat \ {0} /\ m <= Word16 /\ r.sges * DataSeg + SrqControl(r) <= m
  BY <1>1, <1>2, <1>3, Limits DEF BiggestOf, MinSrqWqe, Ctrl, DataSeg, SrqAsked
<1> HIDE DEF m
<1>5. m \in 1 .. IntMax + 1 /\ Word16 \in Powers
  BY <1>4, Limits, PowFacts DEF Powers, Logs
<1>6. w \in Powers /\ w \in Nat /\ m <= w /\ w <= Word16
  BY <1>4, <1>5, NextPow
<1>7. SrqWqe(r) = w
  BY DEF SrqWqe, m
<1> HIDE DEF w
<1>8. r.wr * w \in Nat /\ r.wr * w <= Pow[15] * Word16
  BY <1>1, <1>6, Limits, ProductBound
<1>9. r.wr * w # 0
  BY <1>1, <1>4, <1>6, Limits, Z3
<1>10. r.wr * w \in 1 .. IntMax + 1
  <2>1. Pow[15] * Word16 \in Nat
    BY Limits, Z3
  <2> QED BY <1>8, <1>9, <2>1, Limits
<1>11. r.sges * DataSeg + SrqControl(r) <= w /\ SrqControl(r) <= w
  BY <1>1, <1>2, <1>4, <1>6, Limits DEF DataSeg
<1> QED BY <1>1, <1>2, <1>4, <1>6, <1>7, <1>10, <1>11, Limits

LEMMA SrqRings ==
  ASSUME NEW r, SrqAsked(r), SrqAccepted(r)
  PROVE  LET w == SrqWqe(r)  c == SrqRing(r).count
         IN  /\ SrqRing(r) = Ring(Base(r), w, c)
             /\ c \in Powers /\ c \in Nat \ {0} /\ r.wr <= c
             /\ Bytes(SrqRing(r)) \in Nat
<1> DEFINE w == SrqWqe(r)
           b == NextPow2(r.wr * w)
           c == b \div w
<1>1. w \in Powers /\ w \in Nat \ {0} /\ r.wr * w \in 1 .. IntMax + 1 /\ r.wr \in Nat \ {0}
  BY SrqWqes
<1>2. b \in Powers /\ b \in Nat /\ r.wr * w <= b
  BY <1>1, NextPow, Zenon
<1>3. SrqRing(r) = Ring(Base(r), w, c)
  BY DEF SrqRing
<1>4. SrqRing(r).count = c /\ Bytes(SrqRing(r)) = w * c
  BY <1>3, RingFields
<1> HIDE DEF w, b
<1>5. w <= r.wr * w /\ r.wr * w \in Nat
  BY <1>1, Z3
<1>6. w <= b
  BY <1>1, <1>2, <1>5
<1>7. c \in Powers /\ b = c * w
  BY <1>1, <1>2, <1>6, PowerDivides
<1>8. c \in Nat \ {0}
  BY <1>7, LogRoundTrip
<1> HIDE DEF c
<1>9. r.wr <= c
  <2>1. ASSUME c < r.wr PROVE FALSE
    <3>1. (c + 1) * w <= r.wr * w
      BY <1>1, <1>8, <2>1, ProductBound
    <3>2. (c + 1) * w = c * w + w /\ c * w \in Nat
      BY <1>1, <1>8, Z3
    <3> QED BY <1>1, <1>2, <1>5, <1>7, <3>1, <3>2
  <2> QED BY <1>1, <1>8, <2>1
<1>10. w * c \in Nat
  BY <1>1, <1>8, Z3
<1> QED BY <1>3, <1>4, <1>7, <1>8, <1>9, <1>10 DEF w

LEMMA SrqFields ==
  ASSUME NEW r
  PROVE  LET q == SrqObject(r)
         IN  /\ q.recv = SrqRing(r) /\ q.send = NoRing /\ q.cqe = NoRing
             /\ q.db = <<"wq", Base(r) + SrqDb(r)>>
             /\ q.size = IF IsExternal(r) THEN 0 ELSE AlignUp(SrqDb(r) + Doorbell, Page)
             /\ q.sges = (SrqWqe(r) - SrqControl(r)) \div DataSeg
BY DEF SrqObject, NoObject

LEMMA SrqTold ==
  ASSUME NEW r, SrqAsked(r), SrqAccepted(r)
  PROVE  LET d == SrqDevice(r)
         IN  /\ d.recv = SrqRing(r) /\ d.send = NoRing /\ d.cqe = NoRing
             /\ d.db = SrqObject(r).db
<1>1. 2^Log2(SrqWqe(r)) = SrqWqe(r) /\ 2^Log2(SrqRing(r).count) = SrqRing(r).count
  BY SrqWqes, SrqRings, LogRoundTrip
<1>2. SrqRing(r) = Ring(Base(r), SrqWqe(r), SrqRing(r).count)
  BY SrqRings
<1> QED BY <1>1, <1>2 DEF SrqDevice, NoObject

LEMMA SrqHasRoom ==
  ASSUME SrqAsked(request), SrqAccepted(request), request.kind = "srq", made = SrqObject(request)
  PROVE  SrqRoom
<1> DEFINE r == request  d == SrqDevice(r)
           w == SrqWqe(r)  ctl == SrqControl(r)
<1>1. Device(r) = d
  BY DEF Device
<1>2. d.recv.count >= r.wr /\ d.recv.stride = w
  <2>1. d.recv = SrqRing(r)
    BY SrqTold
  <2>2. SrqRing(r).count \in Nat \ {0} /\ r.wr <= SrqRing(r).count /\ SrqRing(r).stride = w
    BY SrqRings, RingFields
  <2> QED BY <2>1, <2>2, SrqWqes
<1>3. made.sges = (w - ctl) \div 16
  BY SrqFields DEF DataSeg
<1>4. w \in Nat /\ ctl \in Nat /\ ctl <= w /\ r.sges * 16 + ctl <= w /\ r.sges \in Nat
  BY SrqWqes DEF DataSeg
<1> HIDE DEF w, ctl
<1>5. made.sges >= r.sges /\ w >= ctl + made.sges * 16
  BY <1>3, <1>4
<1> QED BY <1>1, <1>2, <1>5 DEF SrqRoom, DataSeg, ctl

LEMMA SrqRingsApart ==
  ASSUME NEW r, SrqAsked(r), SrqAccepted(r)
  PROVE  Fit(Extents(SrqObject(r)), SrqObject(r).size)
<1> DEFINE q == SrqObject(r)
           a == Base(r)
           b == a + Bytes(SrqRing(r))
           e == a + SrqDb(r)
           f == e + DbrSize
           E == Extents(q)
<1>1. Bytes(SrqRing(r)) \in Nat /\ Cacheline \in Nat \ {0}
  BY SrqRings DEF Cacheline
<1>2. SrqDb(r) \in Nat /\ Bytes(SrqRing(r)) <= SrqDb(r)
  BY <1>1, RoundedUp DEF SrqDb
<1>3. a \in Nat /\ b \in Nat /\ e \in Nat /\ f \in Nat /\ a <= b /\ b <= e /\ e <= f
  BY <1>1, <1>2 DEF SrqAsked, DbrSize
<1>4. E \subseteq {<<a, b>>, <<b, b>>, <<e, f>>, <<0, 0>>}
  <2>1. q.recv = SrqRing(r) /\ q.send = NoRing /\ q.cqe = NoRing /\ q.db = <<"wq", e>>
    BY SrqFields
  <2>2. SrqRing(r).at = a
    BY SrqRings, RingFields
  <2>3. /\ <<q.recv.at, q.recv.at + Bytes(q.recv)>> = <<a, b>>
        /\ <<q.send.at, q.send.at + Bytes(q.send)>> = <<0, 0>>
        /\ <<q.cqe.at, q.cqe.at + Bytes(q.cqe)>> = <<0, 0>>
        /\ <<q.db[2], q.db[2] + DbrSize>> = <<e, f>>
    BY <2>1, <2>2, NoRingFields
  <2> QED BY <2>3 DEF Extents
<1>5. q.size \in Nat /\ (q.size > 0 => f <= q.size)
  <2>1. SrqDb(r) + Doorbell \in Nat /\ Page \in Nat \ {0}
    BY <1>2 DEF Doorbell, Page
  <2>2. AlignUp(SrqDb(r) + Doorbell, Page) \in Nat
        /\ SrqDb(r) + Doorbell <= AlignUp(SrqDb(r) + Doorbell, Page)
    BY <2>1, RoundedUp
  <2>3. q.size = IF IsExternal(r) THEN 0 ELSE AlignUp(SrqDb(r) + Doorbell, Page)
    BY SrqFields
  <2>4. ~IsExternal(r) => a = 0 /\ f <= SrqDb(r) + Doorbell
    BY <1>2 DEF Base, DbrSize, Doorbell
  <2> HIDE DEF f, a, e, q
  <2> QED BY <1>2, <1>3, <2>1, <2>2, <2>3, <2>4
<1>6. b <= b
  BY <1>3
<1> HIDE DEF a, b, e, f, E
<1>7. Fit(E, q.size)
  BY <1>3, <1>4, <1>5, <1>6, InARow, Zenon
<1> QED BY <1>7 DEF E

(* A QP and its CQ of the high-level API.                                  *)
HlAsked(r) == r.sq_nwqe \in 0 .. Word16 - 1

LEMMA HlRing ==
  ASSUME NEW r, HlAsked(r), HlSize(r) > 0, CqAccepted(HlSize(r)), SqAccepted(HlQp(r))
  PROVE  LET n == HlSize(r)
         IN  /\ n \in 1 .. IntMax /\ n \in Powers /\ 2^Log2(n) = n
             /\ QpAsked(HlQp(r)) /\ RqAccepted(HlQp(r)) /\ ~HasRq(HlQp(r))
             /\ RecvRing(HlQp(r)) = NoRing /\ Base(HlQp(r)) = 0 /\ IsExternal(HlQp(r))
             /\ SendRing(HlQp(r)) = Ring(0, 64, n)
<1> DEFINE n == HlSize(r)  p == HlQp(r)
<1>1. n \in 1 .. IntMax /\ n < Word16
  <2>1. NextPow2(r.sq_nwqe) \in Nat
    <3>1. r.sq_nwqe = 0 \/ r.sq_nwqe \in 1 .. IntMax + 1
      BY Limits DEF HlAsked
    <3> QED BY <3>1, NextPow DEF NextPow2
  <2>2. Word16 \in Nat \ {0} /\ NextPow2(r.sq_nwqe) \in Int
    BY <2>1, Limits
  <2>3. n \in 0 .. Word16 - 1
    BY <2>2, DivMod DEF HlSize
  <2> QED BY <2>3, Limits
<1>2. n \in Powers /\ 2^Log2(n) = n
  <2>1. n \in 0 .. IntMax
    BY <1>1, Limits
  <2> QED BY <2>1, CqSize
<1>3. /\ p.sq_wr = n /\ p.rq_wr = 0 /\ p.send_sges = 1 /\ p.rcv_sges = 1 /\ p.inline = 0
      /\ p.srq = FALSE /\ p.offset = 0
  BY DEF HlQp
<1>4. Base(p) = 0 /\ IsExternal(p) /\ ~HasRq(p) /\ RqAccepted(p)
  BY <1>3 DEF Base, IsExternal, HasRq, RqAccepted
<1> HIDE DEF n, p
<1>5. QpAsked(p)
  <2>1. p.srq \in BOOLEAN
    BY <1>3
  <2>2. 0 \in 0 .. IntMax /\ 1 \in 0 .. IntMax /\ n \in 0 .. IntMax
    BY <1>1, Limits
  <2>3. 0 \in Nat
    OBVIOUS
  <2> QED BY <1>3, <1>4, <2>1, <2>2, <2>3, Zenon DEF QpAsked
<1>6. RecvRing(p) = NoRing
  BY <1>4 DEF RecvRing, NoRing
<1>7. SendWqe(p) = 64
  <2>1. SendSize(p) = 48 /\ InlineSize(p) = 0
    BY <1>3 DEF SendSize, InlineSize, Ctrl, Raddr, DataSeg
  <2>2. BiggestOf(SendSize(p), InlineSize(p)) = 48
    BY <2>1 DEF BiggestOf
  <2> QED BY <2>2 DEF SendWqe, AlignUp, Wqebb
<1>8. SqBytes(p) = 64 * n
  <2>1. 64 * n \in 1 .. IntMax + 1
    <3>1. 64 * Word16 <= IntMax
      BY SMT DEF IntMax, Word16
    <3> QED BY <1>1, <3>1, Limits
  <2>2. 64 \in Powers
    BY PowFacts DEF Powers, Logs
  <2>3. 64 * n \in Powers
    BY <1>2, <2>1, <2>2, Limits, PowerTimes
  <2>4. NextPow2(64 * n) \in Nat /\ 64 * n <= NextPow2(64 * n) /\ NextPow2(64 * n) <= 64 * n
    BY <2>1, <2>3, NextPow
  <2>5. NextPow2(64 * n) = 64 * n
    BY <1>1, <2>4
  <2> QED BY <1>3, <1>7, <2>5 DEF SqBytes
<1>9. SendRing(p) = Ring(0, 64, n)
  <2>1. p.sq_wr > 0 /\ SqAccepted(p) /\ n \in Nat
    BY <1>1, <1>3 DEF p
  <2>2. SqBytes(p) \div Wqebb = n
    BY <1>8, <2>1 DEF Wqebb
  <2>3. SendRing(p).count = n
    BY <1>3, <2>1, <2>2 DEF SendRing, Ring
  <2>4. Base(p) + Bytes(RecvRing(p)) = 0
    BY <1>4, <1>6, NoRingFields
  <2> QED BY <1>4, <1>5, <2>1, <2>3, <2>4, QpRings
<1> QED BY <1>1, <1>2, <1>4, <1>5, <1>6, <1>9 DEF n, p

LEMMA HlFields ==
  ASSUME NEW r, HlAsked(r), HlSize(r) > 0, CqAccepted(HlSize(r)), SqAccepted(HlQp(r))
  PROVE  LET q == HlObject(r)  d == HlDevice(r)  n == HlSize(r)
         IN  /\ q.recv = NoRing /\ q.send = Ring(0, 64, n) /\ q.cqe = Ring(0, 64, n)
             /\ q.db = <<"dbr", 0>> /\ q.size = QpUmem(n)
             /\ d.recv = NoRing /\ d.send = Ring(0, 64, n) /\ d.cqe = Ring(0, 64, n) /\ d.db = q.db
<1> DEFINE n == HlSize(r)  p == HlQp(r)
<1>1. QpObject(p).recv = NoRing /\ QpObject(p).send = Ring(0, 64, n) /\ QpObject(p).db = <<"dbr", 0>>
  BY HlRing, QpFields
<1>2. QpDevice(p).recv = NoRing /\ QpDevice(p).send = Ring(0, 64, n) /\ QpDevice(p).db = QpObject(p).db
  BY HlRing, QpTold, NoRingFields, RingFields
<1>3. HlCq(r).size = n
  BY DEF HlCq
<1>4. CqObject(HlCq(r)).cqe = Ring(0, 64, n) /\ CqDevice(HlCq(r)).cqe = Ring(0, 64, n)
  BY <1>3, HlRing, CqFields DEF CqDevice, NoObject, Cqe
<1> QED BY <1>1, <1>2, <1>4 DEF HlObject, HlDevice, QpObject, QpDevice, NoObject

LEMMA HlRingsApart ==
  ASSUME NEW r, HlAsked(r), HlSize(r) > 0, CqAccepted(HlSize(r)), SqAccepted(HlQp(r))
  PROVE  /\ Fit(Extents([HlObject(r) EXCEPT !.cqe = NoRing]), HlObject(r).size)
         /\ Fit(Extents(CqObject(HlCq(r))), CqUmem(HlSize(r)))
<1> DEFINE n == HlSize(r)
           b == 64 * n
           f == b + DbrSize
<1>1. n \in 1 .. IntMax /\ n \in Nat /\ b \in Nat /\ f \in Nat /\ b <= f /\ 0 \in Nat /\ 0 <= b /\ b <= b
  BY HlRing, Limits DEF DbrSize
<1>2. QpUmem(n) \in Nat /\ b <= QpUmem(n)
  <2>1. n * Wqebb \in Nat /\ n * Wqebb = b /\ Page \in Nat \ {0}
    BY <1>1 DEF Wqebb, Page
  <2> QED BY <2>1, RoundedUp DEF QpUmem
<1>3. CqUmem(n) \in Nat /\ f <= CqUmem(n)
  <2>1. n * Cqe + DbrSize \in Nat /\ n * Cqe + DbrSize = f /\ Page \in Nat \ {0}
    BY <1>1 DEF Cqe, Page, DbrSize
  <2>2. AlignUp(f, Page) \in Nat /\ f <= AlignUp(f, Page)
    BY <1>1, <2>1, RoundedUp
  <2> QED BY <1>1, <2>1, <2>2 DEF CqUmem
<1>4. Fit(Extents([HlObject(r) EXCEPT !.cqe = NoRing]), HlObject(r).size)
  <2> DEFINE q == [HlObject(r) EXCEPT !.cqe = NoRing]  E == Extents(q)  size == HlObject(r).size
  <2>1. q.recv = NoRing /\ q.send = Ring(0, 64, n) /\ q.cqe = NoRing /\ q.db = <<"dbr", 0>>
    BY HlFields DEF HlObject, QpObject, NoObject
  <2>2. q.db[1] # "wq"
    BY <2>1
  <2>3. /\ <<q.recv.at, q.recv.at + Bytes(q.recv)>> = <<0, 0>>
        /\ <<q.send.at, q.send.at + Bytes(q.send)>> = <<0, b>>
        /\ <<q.cqe.at, q.cqe.at + Bytes(q.cqe)>> = <<0, 0>>
    BY <1>1, <2>1, NoRingFields, RingFields
  <2> HIDE DEF q
  <2>4. E \subseteq {<<0, b>>, <<b, b>>, <<b, b>>, <<0, 0>>}
    BY <2>2, <2>3 DEF Extents
  <2>5. size \in Nat /\ (size > 0 => b <= size)
    BY <1>1, <1>2, HlFields
  <2> HIDE DEF E, size, b
  <2>6. Fit(E, size)
    BY <1>1, <2>4, <2>5, InARow, Zenon
  <2> QED BY <2>6 DEF E, size, q
<1>5. Fit(Extents(CqObject(HlCq(r))), CqUmem(n))
  <2> DEFINE q == CqObject(HlCq(r))  E == Extents(q)
  <2>0. HlCq(r).size = n
    BY DEF HlCq
  <2>1. q.recv = NoRing /\ q.send = NoRing /\ q.cqe = Ring(0, 64, n) /\ q.db = <<"wq", b>>
    BY <1>1, <2>0, CqFields, CqRecord
  <2>2. /\ <<q.recv.at, q.recv.at + Bytes(q.recv)>> = <<0, 0>>
        /\ <<q.send.at, q.send.at + Bytes(q.send)>> = <<0, 0>>
        /\ <<q.cqe.at, q.cqe.at + Bytes(q.cqe)>> = <<0, b>>
        /\ <<q.db[2], q.db[2] + DbrSize>> = <<b, f>>
    BY <1>1, <2>1, NoRingFields, RingFields
  <2> HIDE DEF q
  <2>3. E \subseteq {<<0, b>>, <<b, b>>, <<b, f>>, <<0, 0>>}
    BY <2>2 DEF Extents
  <2> DEFINE size == CqUmem(n)
  <2>4. size \in Nat /\ (size > 0 => f <= size)
    BY <1>3
  <2> HIDE DEF E, size, b, f
  <2>5. Fit(E, size)
    BY <1>1, <2>3, <2>4, InARow, Zenon
  <2> QED BY <2>5 DEF E, size, q
<1> QED BY <1>4, <1>5

-----------------------------------------------------------------------------
(* The behaviours: what is made is the object of a request that was        *)
(* accepted, what kernels are given is read from it.                       *)

Exported(q) ==
  [sq_wqe_num |-> GetWq(q) % Word16, sq_wqe_mask |-> ((GetWq(q) % Word16) - 1) % Word16,
   cqe_num |-> q.cqe.count]

LayoutInv ==
  /\ request \in QpRequests \cup CqRequests \cup SrqRequests \cup HlRequests
  /\ IsMade => Accepted(request) /\ made = Object(request)
  /\ stage = "exported" => request.kind \in {"qp", "hl"} /\ exported = Exported(made)

LEMMA LayoutInit == QlInit => LayoutInv
BY DEF QlInit, LayoutInv, IsMade

LEMMA LayoutStep == LayoutInv /\ [QlNext]_qlVars => LayoutInv'
<1> SUFFICES ASSUME LayoutInv, [QlNext]_qlVars PROVE LayoutInv'
  OBVIOUS
<1>1. CASE Make
  BY <1>1 DEF LayoutInv, IsMade, Make
<1>2. CASE Refuse
  BY <1>2 DEF LayoutInv, IsMade, Refuse
<1>3. CASE Export
  BY <1>3 DEF LayoutInv, IsMade, Export, Exported
<1>4. CASE UNCHANGED qlVars
  BY <1>4 DEF LayoutInv, IsMade, qlVars
<1> QED BY <1>1, <1>2, <1>3, <1>4 DEF QlNext

(* What the requests of each kind look like.                               *)
LEMMA RequestTypes ==
  ASSUME NEW r \in QpRequests \cup CqRequests \cup SrqRequests \cup HlRequests
  PROVE  /\ r.kind \in {"qp", "cq", "srq", "hl"}
         /\ r.kind = "qp" => QpAsked(r)
         /\ r.kind = "cq" => r.size \in 0 .. IntMax
         /\ r.kind = "srq" => SrqAsked(r)
         /\ r.kind = "hl" => HlAsked(r)
<1>1. Sges \subseteq 0 .. IntMax
  <2>1. 2^27 <= IntMax /\ 2^27 \in Nat /\ IntMax \in Nat
    BY SMT DEF IntMax
  <2>2. Sges \subseteq 0 .. 2^27
    BY RequestsAssumption
  <2>3. \A x \in 0 .. 2^27 : x \in 0 .. IntMax
    BY <2>1
  <2> QED BY <2>2, <2>3
<1>2. ASSUME r.offset \in Offsets \cup {-1} PROVE Base(r) \in Nat
  BY <1>2, RequestsAssumption DEF Base, IsExternal
<1>3. CASE r \in QpRequests
  <2>1. /\ r.kind = "qp" /\ r.sq_wr \in Wrs /\ r.rq_wr \in Wrs /\ r.send_sges \in Sges
        /\ r.rcv_sges \in Sges /\ r.inline \in Inlines /\ r.srq \in BOOLEAN
        /\ r.offset \in Offsets \cup {-1}
    BY <1>3 DEF QpRequests
  <2>2. QpAsked(r)
    BY <1>1, <1>2, <2>1, RequestsAssumption, Zenon DEF QpAsked
  <2> QED BY <2>1, <2>2
<1>4. CASE r \in CqRequests
  BY <1>4, RequestsAssumption DEF CqRequests
<1>5. CASE r \in SrqRequests
  <2>1. /\ r.kind = "srq" /\ r.wr \in Wrs /\ r.sges \in Sges /\ r.linked \in BOOLEAN
        /\ r.offset \in Offsets \cup {-1}
    BY <1>5 DEF SrqRequests
  <2>2. SrqAsked(r)
    BY <1>1, <1>2, <2>1, RequestsAssumption, Zenon DEF SrqAsked
  <2> QED BY <2>1, <2>2
<1>6. CASE r \in HlRequests
  BY <1>6, RequestsAssumption DEF HlRequests, HlAsked
<1> QED BY <1>3, <1>4, <1>5, <1>6

LEMMA RoomHolds == LayoutInv => RoomAsAsked
<1> SUFFICES ASSUME LayoutInv, IsMade
             PROVE  /\ request.kind = "qp" => QpRoom
                    /\ request.kind = "srq" => SrqRoom
                    /\ RingsApart
  BY DEF RoomAsAsked
<1>1. Accepted(request) /\ made = Object(request)
      /\ request \in QpRequests \cup CqRequests \cup SrqRequests \cup HlRequests
  BY DEF LayoutInv
<1>2. CASE request.kind = "qp"
  <2>1. QpAsked(request) /\ RqAccepted(request) /\ SqAccepted(request) /\ made = QpObject(request)
    BY <1>1, <1>2, RequestTypes DEF Accepted, Object
  <2> QED BY <1>2, <2>1, QpHasRoom, QpRingsApart DEF RingsApart
<1>3. CASE request.kind = "cq"
  <2>1. request.size \in 0 .. IntMax /\ CqAccepted(request.size) /\ made = CqObject(request)
    BY <1>1, <1>3, RequestTypes DEF Accepted, Object
  <2> QED BY <1>3, <2>1, CqRingsApart DEF RingsApart
<1>4. CASE request.kind = "srq"
  <2>1. SrqAsked(request) /\ SrqAccepted(request) /\ made = SrqObject(request)
    BY <1>1, <1>4, RequestTypes DEF Accepted, Object
  <2> QED BY <1>4, <2>1, SrqHasRoom, SrqRingsApart DEF RingsApart
<1>5. CASE request.kind = "hl"
  <2>1. /\ HlAsked(request) /\ HlSize(request) > 0 /\ CqAccepted(HlSize(request))
        /\ SqAccepted(HlQp(request)) /\ made = HlObject(request)
    BY <1>1, <1>5, RequestTypes DEF Accepted, Object
  <2> QED BY <1>5, <2>1, HlRingsApart DEF RingsApart
<1> QED BY <1>1, <1>2, <1>3, <1>4, <1>5, RequestTypes

(* What kernels are given: the slots the device has, and a mask.           *)
LEMMA KernelsCount ==
  ASSUME NEW n \in Powers, n <= Pow[15]
  PROVE  n % Word16 = n /\ IsPow2(n % Word16) /\ ((n % Word16) - 1) % Word16 = (n % Word16) - 1
<1>1. n \in Nat \ {0} /\ n < Word16 /\ Word16 \in Nat \ {0}
  BY LogRoundTrip, Limits
<1>2. \A x \in Nat : x < Word16 => x % Word16 = x
  <2> TAKE x \in Nat
  <2> HAVE x < Word16
  <2>1. x = Word16 * 0 + x /\ x \in 0 .. Word16 - 1 /\ x \in Int /\ 0 \in Int
    BY <1>1
  <2> QED BY <1>1, <2>1, DivModUnique
<1>3. n % Word16 = n /\ (n - 1) % Word16 = n - 1
  BY <1>1, <1>2
<1> QED BY <1>3, PowersArePow2

LEMMA AgreementHolds == LayoutInv => DeviceAgrees
<1> SUFFICES ASSUME LayoutInv PROVE DeviceAgrees
  OBVIOUS
<1> DEFINE r == request  d == Device(r)
           Same == made.db = d.db /\ \A ring \in {"recv", "send", "cqe"} :
                     Bytes(d[ring]) + Bytes(made[ring]) > 0 => made[ring] = d[ring]
           Base0 == r.kind = "qp" => Base(r) = 0
<1>0. stage = "exported" => IsMade
  BY DEF IsMade
<1>1. IsMade => Accepted(r) /\ made = Object(r)
  BY DEF LayoutInv
<1>2. r \in QpRequests \cup CqRequests \cup SrqRequests \cup HlRequests
  BY DEF LayoutInv
<1>3. stage = "exported" => r.kind \in {"qp", "hl"} /\ exported = Exported(made)
  BY DEF LayoutInv
<1>4. ASSUME IsMade, r.kind = "qp"
      PROVE  /\ Base0 => Same
             /\ made.send.count = d.send.count
             /\ made.send.count # 0 => made.send.count \in Powers /\ made.send.count <= Pow[15]
  <2>1. QpAsked(r) /\ RqAccepted(r) /\ SqAccepted(r) /\ made = QpObject(r) /\ d = QpDevice(r)
    BY <1>1, <1>2, <1>4, RequestTypes DEF Accepted, Object, Device
  <2>2. made.recv = RecvRing(r) /\ made.send = SendRing(r) /\ made.cqe = NoRing
    BY <2>1, QpFields
  <2>3. d.send = Ring(Bytes(RecvRing(r)), 64, SendRing(r).count) /\ d.cqe = NoRing /\ d.db = made.db
    BY <2>1, QpTold
  <2>4. made.send.count = d.send.count
    BY <2>2, <2>3, RingFields
  <2>5. made.send.count # 0 => made.send.count \in Powers /\ made.send.count <= Pow[15]
    <3>1. ASSUME made.send.count # 0 PROVE made.send.count \in Powers /\ made.send.count <= MaxSendWqebb
      BY <2>1, <2>2, <3>1, QpRings
    <3>2. ASSUME made.send.count # 0 PROVE made.send.count \in Nat
      BY <3>1, <3>2, LogRoundTrip
    <3> QED BY <3>1, <3>2, Limits
  <2>6. ASSUME Base(r) = 0 PROVE Same
    <3>1. Bytes(d.recv) + Bytes(made.recv) > 0 => made.recv = d.recv
      <4>1. CASE HasRq(r)
        BY <2>1, <2>2, <2>6, <4>1, QpTold, QpRings
      <4>2. CASE ~HasRq(r)
        <5>1. Bytes(d.recv) = 0 /\ Bytes(made.recv) = 0
          BY <2>1, <2>2, <4>2, QpTold, QpRings
        <5> QED BY <5>1
      <4> QED BY <4>1, <4>2
    <3>2. made.send = d.send
      <4>1. SendRing(r) = Ring(Base(r) + Bytes(RecvRing(r)), 64, SendRing(r).count) /\ Bytes(RecvRing(r)) \in Nat
        BY <2>1, QpRings
      <4>2. Base(r) + Bytes(RecvRing(r)) = Bytes(RecvRing(r))
        BY <2>6, <4>1
      <4> QED BY <2>2, <2>3, <4>1, <4>2
    <3> QED BY <2>2, <2>3, <3>1, <3>2
  <2> QED BY <1>4, <2>4, <2>5, <2>6
<1>5. ASSUME IsMade, r.kind = "cq" PROVE Same
  <2>1. r.size \in 0 .. IntMax /\ CqAccepted(r.size) /\ made = CqObject(r) /\ d = CqDevice(r)
    BY <1>1, <1>2, <1>5, RequestTypes DEF Accepted, Object, Device
  <2>2. d.recv = NoRing /\ d.send = NoRing /\ d.cqe = Ring(0, 64, 2^Log2(r.size)) /\ d.db = made.db
    BY <2>1 DEF CqDevice, NoObject, Cqe
  <2> QED BY <2>1, <2>2, CqFields, CqSize
<1>6. ASSUME IsMade, r.kind = "srq" PROVE Same
  <2>1. SrqAsked(r) /\ SrqAccepted(r) /\ made = SrqObject(r) /\ d = SrqDevice(r)
    BY <1>1, <1>2, <1>6, RequestTypes DEF Accepted, Object, Device
  <2>2. made.recv = d.recv /\ made.send = d.send /\ made.cqe = d.cqe /\ made.db = d.db
    BY <2>1, SrqTold, SrqFields
  <2> QED BY <2>2
<1>7. ASSUME IsMade, r.kind = "hl"
      PROVE  /\ Same
             /\ made.send.count = d.send.count /\ made.cqe.count = made.send.count
             /\ made.send.count \in Powers /\ made.send.count <= Pow[15]
  <2>1. /\ HlAsked(r) /\ HlSize(r) > 0 /\ CqAccepted(HlSize(r)) /\ SqAccepted(HlQp(r))
        /\ made = HlObject(r) /\ d = HlDevice(r)
    BY <1>1, <1>2, <1>7, RequestTypes DEF Accepted, Object, Device
  <2> DEFINE n == HlSize(r)
  <2>2. /\ made.recv = NoRing /\ made.send = Ring(0, 64, n) /\ made.cqe = Ring(0, 64, n)
        /\ d.recv = NoRing /\ d.send = Ring(0, 64, n) /\ d.cqe = Ring(0, 64, n) /\ d.db = made.db
    BY <2>1, HlFields
  <2>3. Same
    BY <2>2
  <2>4. made.send.count = n /\ d.send.count = n /\ made.cqe.count = n
    BY <2>2, RingFields
  <2>5. n \in Powers /\ n \in 1 .. IntMax
    BY <2>1, HlRing
  <2>6. n <= Pow[15]
    <3>1. SendRing(HlQp(r)).count = n /\ n # 0
      BY <2>1, <2>5, HlRing, RingFields
    <3>2. QpAsked(HlQp(r)) /\ RqAccepted(HlQp(r)) /\ SqAccepted(HlQp(r))
      BY <2>1, HlRing
    <3>3. n <= MaxSendWqebb
      BY <3>1, <3>2, QpRings
    <3> QED BY <2>5, <3>3, Limits
  <2> QED BY <2>3, <2>4, <2>5, <2>6
<1>8. IsMade /\ Base0 => Same
  BY <1>2, <1>4, <1>5, <1>6, <1>7, RequestTypes
<1>9. ExportedAsMade
  <2> SUFFICES ASSUME stage = "exported", made.send.count > 0
               PROVE  /\ exported.sq_wqe_num = d.send.count
                      /\ IsPow2(exported.sq_wqe_num)
                      /\ exported.sq_wqe_mask = exported.sq_wqe_num - 1
                      /\ r.kind = "hl" => exported.cqe_num = exported.sq_wqe_num
    BY DEF ExportedAsMade
  <2> DEFINE n == made.send.count
  <2>1. n \in Powers /\ n <= Pow[15] /\ d.send.count = n
    BY <1>0, <1>3, <1>4, <1>7
  <2>2. /\ exported.sq_wqe_num = n % Word16 /\ exported.sq_wqe_mask = ((n % Word16) - 1) % Word16
        /\ exported.cqe_num = made.cqe.count
    BY <1>3 DEF Exported, GetWq
  <2>3. r.kind = "hl" => made.cqe.count = n
    BY <1>0, <1>7
  <2> HIDE DEF n
  <2> QED BY <2>1, <2>2, <2>3, KernelsCount
<1> QED BY <1>8, <1>9 DEF DeviceAgrees

LEMMA LayoutInvariance == QlSpec => []LayoutInv
BY LayoutInit, LayoutStep, PTL DEF QlSpec

(* Each object has the room that was asked for, ring by ring, and no byte  *)
(* of its memory has two uses: whatever create() accepts of a QP, a CQ, an *)
(* SRQ or the high-level API, on whatever device.                          *)
THEOREM RoomIsGiven == QlSpec => []RoomAsAsked
BY LayoutInvariance, RoomHolds, PTL

(* The rings lie where the device is told, in its own units, and kernels   *)
(* get the slots there are, with a mask that fits and a CQE for each.      *)
THEOREM PlacesAgree == QlSpec => []DeviceAgrees
BY LayoutInvariance, AgreementHolds, PTL

(* Both hold beside the creation of QPs, as they are checked.              *)
THEOREM LayoutBesideCreation == HlSpec => [](RoomAsAsked /\ DeviceAgrees)
<1> DEFINE Inv == (part = "layout" /\ LayoutInv) \/ (part = "creation" /\ stage = "asked")
<1>1. HlInit => Inv
  BY LayoutInit DEF HlInit, IdleLayout
<1>2. Inv /\ [HlNext]_<<part, vars, qlVars>> => Inv'
  <2> SUFFICES ASSUME Inv, [HlNext]_<<part, vars, qlVars>> PROVE Inv'
    OBVIOUS
  <2>1. CASE part = "layout" /\ QlNext /\ part' = part
    <3>1. LayoutInv
      BY <2>1
    <3>2. LayoutInv'
      BY <2>1, <3>1, LayoutStep
    <3> QED BY <2>1, <3>2
  <2>2. CASE part' = part /\ UNCHANGED qlVars
    <3>1. stage' = stage
      BY <2>2 DEF qlVars
    <3>2. LayoutInv => LayoutInv'
      BY <2>2, LayoutStep
    <3> QED BY <2>2, <3>1, <3>2
  <2> QED BY <2>1, <2>2 DEF HlNext
<1>3. Inv => RoomAsAsked /\ DeviceAgrees
  <2>1. stage = "asked" => RoomAsAsked /\ DeviceAgrees
    BY DEF RoomAsAsked, DeviceAgrees, ExportedAsMade, IsMade
  <2> QED BY <2>1, RoomHolds, AgreementHolds
<1> QED BY <1>1, <1>2, <1>3, PTL DEF HlSpec

-----------------------------------------------------------------------------
(* The creation: its plan, and the place of each stage in it.              *)

(* The stages of one QP in their order.  A record in host memory is made   *)
(* at the stage of the one in GPU memory.                                  *)
Rank == [cq_attr |-> 1, cq_mem |-> 2, ring |-> 3, cq_copy |-> 4, cq_umem |-> 5, cq |-> 6,
         qp_attr |-> 7, qp_mem |-> 8, qp_umem |-> 9, dbr_mem |-> 10, dbr_host |-> 10,
         dbr_umem |-> 11, qp |-> 12, gverbs |-> 13]
Never == 100
(* The place in the plan of the stage that makes k for QP r.               *)
When(k, r) ==
  IF asked.group THEN IF k = "uar" THEN IF r = "main" THEN 1 ELSE Never
                      ELSE Rank[k] + (IF r = "main" THEN 1 ELSE 14)
  ELSE IF r = "companion" THEN Never
  ELSE IF k = "uar" THEN 7
  ELSE Rank[k] + (IF Rank[k] > 6 THEN 1 ELSE 0)
(* The plans, stage by stage.                                              *)
LEMMA OneQpTable ==
  /\ Len(OneQp) = 14
  /\ OneQp[1] = <<"cq_attr", "main">> /\ OneQp[2] = <<"cq_mem", "main">> /\ OneQp[3] = <<"ring", "main">>
  /\ OneQp[4] = <<"cq_copy", "main">> /\ OneQp[5] = <<"cq_umem", "main">> /\ OneQp[6] = <<"cq", "main">>
  /\ OneQp[7] = <<"uar", "main">> /\ OneQp[8] = <<"qp_attr", "main">> /\ OneQp[9] = <<"qp_mem", "main">>
  /\ OneQp[10] = <<"qp_umem", "main">> /\ OneQp[11] = <<"dbr_mem", "main">> /\ OneQp[12] = <<"dbr_umem", "main">>
  /\ OneQp[13] = <<"qp", "main">> /\ OneQp[14] = <<"gverbs", "main">>
BY DEF OneQp, For, CqStages, QpStages

LEMMA QpTable ==
  /\ DOMAIN QpOfGroup = 1 .. 13
  /\ QpOfGroup[1] = "cq_attr" /\ QpOfGroup[2] = "cq_mem" /\ QpOfGroup[3] = "ring"
  /\ QpOfGroup[4] = "cq_copy" /\ QpOfGroup[5] = "cq_umem" /\ QpOfGroup[6] = "cq"
  /\ QpOfGroup[7] = "qp_attr" /\ QpOfGroup[8] = "qp_mem" /\ QpOfGroup[9] = "qp_umem"
  /\ QpOfGroup[10] = "dbr_mem" /\ QpOfGroup[11] = "dbr_umem" /\ QpOfGroup[12] = "qp"
  /\ QpOfGroup[13] = "gverbs"
BY DEF QpOfGroup, CqStages, QpStages

LEMMA GroupTable ==
  /\ Len(QpGroup) = 27 /\ QpGroup[1] = <<"uar", "main">>
  /\ QpGroup[2] = <<"cq_attr", "main">> /\ QpGroup[3] = <<"cq_mem", "main">> /\ QpGroup[4] = <<"ring", "main">>
  /\ QpGroup[5] = <<"cq_copy", "main">> /\ QpGroup[6] = <<"cq_umem", "main">> /\ QpGroup[7] = <<"cq", "main">>
  /\ QpGroup[8] = <<"qp_attr", "main">> /\ QpGroup[9] = <<"qp_mem", "main">> /\ QpGroup[10] = <<"qp_umem", "main">>
  /\ QpGroup[11] = <<"dbr_mem", "main">> /\ QpGroup[12] = <<"dbr_umem", "main">> /\ QpGroup[13] = <<"qp", "main">>
  /\ QpGroup[14] = <<"gverbs", "main">>
  /\ QpGroup[15] = <<"cq_attr", "companion">> /\ QpGroup[16] = <<"cq_mem", "companion">> /\ QpGroup[17] = <<"ring", "companion">>
  /\ QpGroup[18] = <<"cq_copy", "companion">> /\ QpGroup[19] = <<"cq_umem", "companion">> /\ QpGroup[20] = <<"cq", "companion">>
  /\ QpGroup[21] = <<"qp_attr", "companion">> /\ QpGroup[22] = <<"qp_mem", "companion">> /\ QpGroup[23] = <<"qp_umem", "companion">>
  /\ QpGroup[24] = <<"dbr_mem", "companion">> /\ QpGroup[25] = <<"dbr_umem", "companion">> /\ QpGroup[26] = <<"qp", "companion">>
  /\ QpGroup[27] = <<"gverbs", "companion">>
BY QpTable DEF QpGroup, For

(* The places, stage by stage: of one QP, and of the two of a group.       *)
LEMMA WhenSingle == ~asked.group =>
     /\ When("cq_attr", "main") = 1 /\ When("cq_mem", "main") = 2 /\ When("ring", "main") = 3
     /\ When("cq_copy", "main") = 4 /\ When("cq_umem", "main") = 5 /\ When("cq", "main") = 6
     /\ When("qp_attr", "main") = 8 /\ When("qp_mem", "main") = 9 /\ When("qp_umem", "main") = 10
     /\ When("dbr_mem", "main") = 11 /\ When("dbr_umem", "main") = 12 /\ When("qp", "main") = 13
     /\ When("gverbs", "main") = 14 /\ When("dbr_host", "main") = 11 /\ When("uar", "main") = 7
     /\ \A k : When(k, "companion") = Never
BY DEF When, Rank, Never

LEMMA WhenMain == asked.group =>
     /\ When("cq_attr", "main") = 2 /\ When("cq_mem", "main") = 3 /\ When("ring", "main") = 4
     /\ When("cq_copy", "main") = 5 /\ When("cq_umem", "main") = 6 /\ When("cq", "main") = 7
     /\ When("qp_attr", "main") = 8 /\ When("qp_mem", "main") = 9 /\ When("qp_umem", "main") = 10
     /\ When("dbr_mem", "main") = 11 /\ When("dbr_umem", "main") = 12 /\ When("qp", "main") = 13
     /\ When("gverbs", "main") = 14 /\ When("dbr_host", "main") = 11 /\ When("uar", "main") = 1
BY DEF When, Rank, Never

LEMMA WhenCompanion == asked.group =>
     /\ When("cq_attr", "companion") = 15 /\ When("cq_mem", "companion") = 16 /\ When("ring", "companion") = 17
     /\ When("cq_copy", "companion") = 18 /\ When("cq_umem", "companion") = 19 /\ When("cq", "companion") = 20
     /\ When("qp_attr", "companion") = 21 /\ When("qp_mem", "companion") = 22 /\ When("qp_umem", "companion") = 23
     /\ When("dbr_mem", "companion") = 24 /\ When("dbr_umem", "companion") = 25 /\ When("qp", "companion") = 26
     /\ When("gverbs", "companion") = 27 /\ When("dbr_host", "companion") = 24 /\ When("uar", "companion") = Never
BY DEF When, Rank, Never

LEMMA StageSets ==
  /\ {CqStages[i] : i \in DOMAIN CqStages} = {"cq_attr", "cq_mem", "ring", "cq_copy", "cq_umem", "cq"}
  /\ {QpStages[i] : i \in DOMAIN QpStages} =
       {"qp_attr", "qp_mem", "qp_umem", "dbr_mem", "dbr_umem", "qp"}
<1>1. DOMAIN CqStages = 1 .. 6 /\ DOMAIN QpStages = 1 .. 6
  BY DEF CqStages, QpStages
<1>2. \A i \in 1 .. 6 : i = 1 \/ i = 2 \/ i = 3 \/ i = 4 \/ i = 5 \/ i = 6
  OBVIOUS
<1>3. /\ CqStages[1] = "cq_attr" /\ CqStages[2] = "cq_mem" /\ CqStages[3] = "ring"
      /\ CqStages[4] = "cq_copy" /\ CqStages[5] = "cq_umem" /\ CqStages[6] = "cq"
  BY DEF CqStages
<1>4. /\ QpStages[1] = "qp_attr" /\ QpStages[2] = "qp_mem" /\ QpStages[3] = "qp_umem"
      /\ QpStages[4] = "dbr_mem" /\ QpStages[5] = "dbr_umem" /\ QpStages[6] = "qp"
  BY DEF QpStages
<1> QED BY <1>1, <1>2, <1>3, <1>4

LEMMA PlanLength == Len(Plan) = IF asked.group THEN 27 ELSE 14
BY OneQpTable, GroupTable DEF Plan

LEMMA UpToFourteen == \A i \in 1 .. 14 :
     i = 1 \/ i = 2 \/ i = 3 \/ i = 4 \/ i = 5 \/ i = 6 \/ i = 7 \/ i = 8 \/ i = 9
    \/ i = 10 \/ i = 11 \/ i = 12 \/ i = 13 \/ i = 14
OBVIOUS

LEMMA StageNames == Stages =
  {"cq_attr", "cq_mem", "ring", "cq_copy", "cq_umem", "cq", "uar", "qp_attr", "qp_mem",
   "qp_umem", "dbr_mem", "dbr_umem", "qp", "gverbs"}
BY StageSets DEF Stages

(* The plan of a group is the stages of a QP twice, after the UAR.         *)
LEMMA GroupPlan == \A i \in 1 .. 13 :
  QpGroup[i + 1] = <<QpOfGroup[i], "main">> /\ QpGroup[i + 14] = <<QpOfGroup[i], "companion">>
<1> TAKE i \in 1 .. 13
<1>1. i \in 1 .. 14 /\ i # 14
  OBVIOUS
<1>2. QpGroup[i + 1] = <<QpOfGroup[i], "main">>
  BY <1>1, UpToFourteen, QpTable, GroupTable
<1>3. QpGroup[i + 14] = <<QpOfGroup[i], "companion">>
  BY <1>1, UpToFourteen, QpTable, GroupTable
<1> QED BY <1>2, <1>3

LEMMA GroupWhen == asked.group => \A i \in 1 .. 13 :
  /\ QpOfGroup[i] \in Stages \ {"uar"}
  /\ When(QpOfGroup[i], "main") = i + 1 /\ When(QpOfGroup[i], "companion") = i + 14
<1> SUFFICES ASSUME asked.group, NEW i \in 1 .. 13
             PROVE  /\ QpOfGroup[i] \in Stages \ {"uar"}
                    /\ When(QpOfGroup[i], "main") = i + 1
                    /\ When(QpOfGroup[i], "companion") = i + 14
  OBVIOUS
<1>1. i \in 1 .. 14 /\ i # 14
  OBVIOUS
<1>2. QpOfGroup[i] \in Stages \ {"uar"}
  BY <1>1, UpToFourteen, QpTable, StageNames
<1>3. When(QpOfGroup[i], "main") = i + 1
  BY <1>1, UpToFourteen, QpTable, WhenMain
<1>4. When(QpOfGroup[i], "companion") = i + 14
  BY <1>1, UpToFourteen, QpTable, WhenCompanion
<1> QED BY <1>2, <1>3, <1>4

(* The stage at a position of the plan.                                    *)
LEMMA AtStage ==
  ASSUME pos \in 1 .. Len(Plan), NEW s, NEW r, Plan[pos] = <<s, r>>
  PROVE  /\ s \in Stages /\ r \in Roles
         /\ pos = When(s, r) /\ pos < Never
         /\ ~asked.group => r = "main"
         /\ s = "uar" => r = "main"
<1> DEFINE Right(t, q) == t \in Stages /\ pos = When(t, q)
<1>1. CASE ~asked.group
  <2>1. pos \in 1 .. 14 /\ OneQp[pos] = <<s, r>>
    BY <1>1, PlanLength DEF Plan
  <2>2. \E t : OneQp[pos] = <<t, "main">> /\ Right(t, "main")
    BY <1>1, <2>1, UpToFourteen, OneQpTable, WhenSingle, StageNames
  <2> HIDE DEF Right
  <2>3. r = "main" /\ Right(s, "main")
    BY <2>1, <2>2
  <2> QED BY <1>1, <2>1, <2>3 DEF Roles, Never, Right
<1>2. CASE asked.group
  <2>1. pos \in 1 .. 27 /\ QpGroup[pos] = <<s, r>>
    BY <1>2, PlanLength DEF Plan
  <2>2. CASE pos = 1
    BY <1>2, <2>1, <2>2, GroupTable, WhenMain, StageNames DEF Roles, Never
  <2>3. CASE pos \in 2 .. 14
    <3>1. pos - 1 \in 1 .. 13 /\ (pos - 1) + 1 = pos
      BY <2>3
    <3>2. QpGroup[pos] = <<QpOfGroup[pos - 1], "main">> /\ QpOfGroup[pos - 1] \in Stages \ {"uar"}
          /\ When(QpOfGroup[pos - 1], "main") = pos
      BY <1>2, <3>1, GroupPlan, GroupWhen
    <3> QED BY <1>2, <2>1, <3>2 DEF Roles, Never
  <2>4. CASE pos \in 15 .. 27
    <3>1. pos - 14 \in 1 .. 13 /\ (pos - 14) + 14 = pos
      BY <2>4
    <3>2. QpGroup[pos] = <<QpOfGroup[pos - 14], "companion">> /\ QpOfGroup[pos - 14] \in Stages \ {"uar"}
          /\ When(QpOfGroup[pos - 14], "companion") = pos
      BY <1>2, <3>1, GroupPlan, GroupWhen
    <3> QED BY <1>2, <2>1, <3>2 DEF Roles, Never
  <2> QED BY <2>1, <2>2, <2>3, <2>4
<1> QED BY <1>1, <1>2
(* What the proofs need of the order of the stages.                        *)
Planned(r) == r = "main" \/ asked.group
Stepped == Kinds \cup {"cq_copy"}

(* Two stages do not share a place.                                        *)
LEMMA RankInjective == \A k, l \in Stepped \ {"uar"} :
  /\ Rank[k] \in 1 .. 13
  /\ Rank[k] = Rank[l] => k = l \/ (k \in {"dbr_mem", "dbr_host"} /\ l \in {"dbr_mem", "dbr_host"})
BY DEF Rank, Stepped, Kinds

LEMMA WhenInjective ==
  ASSUME asked.group \in BOOLEAN,
         NEW k \in Stepped, NEW l \in Stepped, NEW r \in Roles, NEW q \in Roles,
         When(k, r) = When(l, q), When(k, r) < Never
  PROVE  r = q /\ (k = l \/ (k \in {"dbr_mem", "dbr_host"} /\ l \in {"dbr_mem", "dbr_host"}))
<1>1. r \in {"main", "companion"} /\ q \in {"main", "companion"}
  BY DEF Roles
<1>2. CASE k = "uar" \/ l = "uar"
  BY <1>1, <1>2, RankInjective DEF When, Never
<1>3. CASE k # "uar" /\ l # "uar"
  BY <1>1, <1>3, RankInjective DEF When, Never
<1> QED BY <1>2, <1>3

LEMMA WhenType ==
  ASSUME asked.group \in BOOLEAN, NEW k \in Stepped, NEW r \in Roles
  PROVE  When(k, r) \in 1 .. Never
<1>1. r \in {"main", "companion"}
  BY DEF Roles
<1>2. CASE k = "uar"
  BY <1>1, <1>2 DEF When, Never
<1>3. CASE k # "uar"
  BY <1>1, <1>3, RankInjective DEF When, Never
<1> QED BY <1>2, <1>3

(* The stages of a CQ follow one another, and so do those of a QP.         *)
LEMMA WhenOrder ==
  ASSUME asked.group \in BOOLEAN, NEW r \in Roles, Planned(r)
  PROVE  /\ When("cq_mem", r) = When("cq_attr", r) + 1
         /\ When("ring", r) = When("cq_attr", r) + 2
         /\ When("cq_copy", r) = When("cq_attr", r) + 3
         /\ When("cq_umem", r) = When("cq_attr", r) + 4
         /\ When("cq", r) = When("cq_attr", r) + 5
         /\ When("cq", r) < When("qp_attr", r)
         /\ When("uar", "main") < When("qp_attr", r)
         /\ When("qp_mem", r) = When("qp_attr", r) + 1
         /\ When("qp_umem", r) = When("qp_attr", r) + 2
         /\ When("dbr_mem", r) = When("qp_attr", r) + 3
         /\ When("dbr_host", r) = When("qp_attr", r) + 3
         /\ When("dbr_umem", r) = When("qp_attr", r) + 4
         /\ When("qp", r) = When("qp_attr", r) + 5
         /\ When("gverbs", r) = When("qp_attr", r) + 6
         /\ When("gverbs", r) <= Len(Plan)
<1>1. CASE ~asked.group
  <2>1. r = "main"
    BY <1>1 DEF Planned
  <2> QED BY <1>1, <2>1, WhenSingle, PlanLength
<1>2. CASE asked.group /\ r = "main"
  BY <1>2, WhenMain, PlanLength
<1>3. CASE asked.group /\ r = "companion"
  BY <1>3, WhenMain, WhenCompanion, PlanLength
<1> QED BY <1>1, <1>2, <1>3 DEF Roles

(* Where the plans end.                                                    *)
LEMMA WhenEnds ==
  ASSUME asked.group \in BOOLEAN
  PROVE  /\ ~asked.group => When("gverbs", "main") = Len(Plan) 
         /\ asked.group => When("gverbs", "companion") = Len(Plan)
         /\ Len(Plan) \in 14 .. 27
         /\ When("uar", "companion") = Never
         /\ ~asked.group => \A k : When(k, "companion") = Never
         /\ asked.group => /\ When("cq_attr", "main") = 2
                           /\ When("cq_attr", "companion") = When("gverbs", "main") + 1
         /\ ~asked.group => /\ When("uar", "main") = When("cq", "main") + 1
                            /\ When("qp_attr", "main") = When("uar", "main") + 1
         /\ asked.group => /\ When("uar", "main") = 1
                           /\ \A q \in Roles : When("qp_attr", q) = When("cq", q) + 1
<1>1. CASE ~asked.group
  BY <1>1, WhenSingle, PlanLength DEF Never
<1>2. CASE asked.group
  BY <1>2, WhenMain, WhenCompanion, PlanLength DEF Never, Roles
<1> QED BY <1>1, <1>2

-----------------------------------------------------------------------------
(* The paths, by the kind of what they release.                            *)
CqTurn == [cq_attr |-> 1, cq_umem |-> 2, ring |-> 3, cq_mem |-> 4]
QpTurn == [qp_attr |-> 1, qp_umem |-> 2, qp_mem |-> 3, dbr_umem |-> 4, dbr_mem |-> 5, dbr_host |-> 6]
EndTurn == [gverbs |-> 1, qp |-> 2, qp_umem |-> 3, qp_mem |-> 4, dbr_umem |-> 5, dbr_mem |-> 6,
            dbr_host |-> 7, uar |-> 8, cq |-> 9, cq_umem |-> 10, cq_mem |-> 11]
CqPathKinds == {"cq_attr", "cq_umem", "ring", "cq_mem"}
QpPathKinds == {"qp_attr", "qp_umem", "qp_mem", "dbr_umem", "dbr_mem", "dbr_host"}
EndKinds == {"gverbs", "qp", "qp_umem", "qp_mem", "dbr_umem", "dbr_mem", "dbr_host", "uar",
             "cq", "cq_umem", "cq_mem"}

(* A path has a release for each pointer that is set.                      *)
LEMMA HeldIs ==
  ASSUME NEW f, NEW r, NEW kinds, NEW from, NEW u
  PROVE  u \in Held(f, r, kinds, from) <=>
           \E i \in DOMAIN kinds : /\ f[r][kinds[i]] # Null
                                   /\ u = [turn |-> from + i, of |-> f[r][kinds[i]],
                                           by |-> Call(f[r][kinds[i]])]
BY DEF Held

LEMMA CqPathIs ==
  ASSUME NEW f, NEW r, NEW u
  PROVE  u \in CqErrorPath(f, r) <=>
           \E k \in CqPathKinds : /\ f[r][k] # Null
                                  /\ u = [turn |-> CqTurn[k], of |-> f[r][k], by |-> Call(f[r][k])]
<1> DEFINE kinds == <<"cq_attr", "cq_umem", "ring", "cq_mem">>
           Rec(t, k) == [turn |-> t, of |-> f[r][k], by |-> Call(f[r][k])]
<1>1. DOMAIN kinds = 1 .. 4
  OBVIOUS
<1>2. \A i \in 1 .. 4 : i = 1 \/ i = 2 \/ i = 3 \/ i = 4
  OBVIOUS
<1>3. u \in CqErrorPath(f, r) <=> \E i \in 1 .. 4 : f[r][kinds[i]] # Null /\ u = Rec(0 + i, kinds[i])
  BY <1>1, HeldIs DEF CqErrorPath
<1>4. kinds[1] = "cq_attr" /\ kinds[2] = "cq_umem" /\ kinds[3] = "ring" /\ kinds[4] = "cq_mem"
  OBVIOUS
<1>5. CqTurn["cq_attr"] = 0 + 1 /\ CqTurn["cq_umem"] = 0 + 2 /\ CqTurn["ring"] = 0 + 3 /\ CqTurn["cq_mem"] = 0 + 4
  BY DEF CqTurn
<1> HIDE DEF kinds, Rec
<1>6. u \in CqErrorPath(f, r) <=> \E k \in CqPathKinds : f[r][k] # Null /\ u = Rec(CqTurn[k], k)
  BY <1>2, <1>3, <1>4, <1>5 DEF CqPathKinds
<1> QED BY <1>6 DEF Rec

LEMMA QpPathIs ==
  ASSUME NEW f, NEW r, NEW u
  PROVE  u \in QpErrorPath(f, r) <=>
           \E k \in QpPathKinds :
             /\ f[r][k] # Null
             /\ u = [turn |-> QpTurn[k], of |-> f[r][k],
                     by |-> IF k # "dbr_host" THEN Call(f[r][k])
                            ELSE IF Resolved = "CPU_PROXY" THEN "free" ELSE "release"]
<1> DEFINE kinds == <<"qp_attr", "qp_umem", "qp_mem", "dbr_umem", "dbr_mem">>
           by == IF Resolved = "CPU_PROXY" THEN "free" ELSE "release"
           Rec(t, k) == [turn |-> t, of |-> f[r][k], by |-> Call(f[r][k])]
           Last == [turn |-> 6, of |-> f[r]["dbr_host"], by |-> by]
           Whose(k) == IF k # "dbr_host" THEN Call(f[r][k]) ELSE by
           Mine(k) == [turn |-> QpTurn[k], of |-> f[r][k], by |-> Whose(k)]
<1>1. DOMAIN kinds = 1 .. 5
  OBVIOUS
<1>2. \A i \in 1 .. 5 : i = 1 \/ i = 2 \/ i = 3 \/ i = 4 \/ i = 5
  OBVIOUS
<1>3. u \in QpErrorPath(f, r) <=> \/ \E i \in 1 .. 5 : f[r][kinds[i]] # Null /\ u = Rec(0 + i, kinds[i])
                                  \/ f[r]["dbr_host"] # Null /\ u = Last
  BY <1>1, HeldIs DEF QpErrorPath
<1>4. /\ kinds[1] = "qp_attr" /\ kinds[2] = "qp_umem" /\ kinds[3] = "qp_mem"
      /\ kinds[4] = "dbr_umem" /\ kinds[5] = "dbr_mem"
  OBVIOUS
<1>5. /\ Mine("qp_attr") = Rec(0 + 1, "qp_attr") /\ Mine("qp_umem") = Rec(0 + 2, "qp_umem")
      /\ Mine("qp_mem") = Rec(0 + 3, "qp_mem") /\ Mine("dbr_umem") = Rec(0 + 4, "dbr_umem")
      /\ Mine("dbr_mem") = Rec(0 + 5, "dbr_mem") /\ Mine("dbr_host") = Last
  BY DEF QpTurn
<1> HIDE DEF kinds, Rec, Last, Mine
<1>6. u \in QpErrorPath(f, r) <=> \E k \in QpPathKinds : f[r][k] # Null /\ u = Mine(k)
  BY <1>2, <1>3, <1>4, <1>5 DEF QpPathKinds
<1> QED BY <1>6 DEF Mine

LEMMA EndIs ==
  ASSUME NEW f, NEW r, NEW u
  PROVE  u \in DestroyInternal(f, r) <=>
           \E k \in EndKinds :
             /\ f[r][k] # Null /\ (k \in {"cq", "cq_umem", "cq_mem"} => f[r]["cq"] # Null)
             /\ u = [turn |-> Turns(r) + EndTurn[k], of |-> f[r][k], by |-> Call(f[r][k])]
<1> DEFINE kinds == <<"gverbs", "qp", "qp_umem", "qp_mem", "dbr_umem", "dbr_mem", "dbr_host", "uar">>
           more == <<"cq", "cq_umem", "cq_mem">>
           n == Turns(r)
           Rec(t, k) == [turn |-> t, of |-> f[r][k], by |-> Call(f[r][k])]
<1>0. n \in Nat
  BY DEF Turns
<1>1. DOMAIN kinds = 1 .. 8 /\ DOMAIN more = 1 .. 3
  OBVIOUS
<1>2. /\ \A i \in 1 .. 8 : i = 1 \/ i = 2 \/ i = 3 \/ i = 4 \/ i = 5 \/ i = 6 \/ i = 7 \/ i = 8
      /\ \A i \in 1 .. 3 : i = 1 \/ i = 2 \/ i = 3
  OBVIOUS
<1>3. u \in DestroyInternal(f, r) <=>
        \/ \E i \in 1 .. 8 : f[r][kinds[i]] # Null /\ u = Rec(n + i, kinds[i])
        \/ f[r]["cq"] # Null /\ \E i \in 1 .. 3 : f[r][more[i]] # Null /\ u = Rec((n + 8) + i, more[i])
  <2>1. u \in Held(f, r, kinds, n) <=> \E i \in 1 .. 8 : f[r][kinds[i]] # Null /\ u = Rec(n + i, kinds[i])
    BY <1>1, HeldIs
  <2>2. u \in Held(f, r, more, n + 8) <=> \E i \in 1 .. 3 : f[r][more[i]] # Null /\ u = Rec((n + 8) + i, more[i])
    BY <1>1, HeldIs
  <2>3. u \in DestroyInternal(f, r) <=> u \in Held(f, r, kinds, n) \/ (f[r]["cq"] # Null /\ u \in Held(f, r, more, n + 8))
    BY DEF DestroyInternal
  <2> QED BY <2>1, <2>2, <2>3
<1>4. /\ kinds[1] = "gverbs" /\ kinds[2] = "qp" /\ kinds[3] = "qp_umem" /\ kinds[4] = "qp_mem"
      /\ kinds[5] = "dbr_umem" /\ kinds[6] = "dbr_mem" /\ kinds[7] = "dbr_host" /\ kinds[8] = "uar"
      /\ more[1] = "cq" /\ more[2] = "cq_umem" /\ more[3] = "cq_mem"
  OBVIOUS
<1>5. /\ EndTurn["gverbs"] = 1 /\ EndTurn["qp"] = 2 /\ EndTurn["qp_umem"] = 3 /\ EndTurn["qp_mem"] = 4
      /\ EndTurn["dbr_umem"] = 5 /\ EndTurn["dbr_mem"] = 6 /\ EndTurn["dbr_host"] = 7
      /\ EndTurn["uar"] = 8 /\ n + EndTurn["cq"] = (n + 8) + 1 /\ n + EndTurn["cq_umem"] = (n + 8) + 2
      /\ n + EndTurn["cq_mem"] = (n + 8) + 3
  BY <1>0 DEF EndTurn
<1> HIDE DEF kinds, more, n, Rec
<1>6. u \in DestroyInternal(f, r) <=>
        \E k \in EndKinds : /\ f[r][k] # Null /\ (k \in {"cq", "cq_umem", "cq_mem"} => f[r]["cq"] # Null)
                            /\ u = Rec(n + EndTurn[k], k)
  BY <1>2, <1>3, <1>4, <1>5 DEF EndKinds
<1> QED BY <1>6 DEF Rec, n

-----------------------------------------------------------------------------
(* Types, and how far a call is.                                           *)
AskedOK ==
  /\ asked \in [group : BOOLEAN, handler : {"AUTO", "CPU_PROXY", "GPU_SM_DB", "GPU_SM_BF"},
                dbr : {"VALID_DBR", "NO_DBR_HW", "NO_DBR_SW_EMULATED"}, register : BOOLEAN]
  /\ asked.group => asked.handler # "GPU_SM_BF"
PosOK ==
  /\ status = "running" => pos \in 1 .. Len(Plan)
  /\ status = "success" => undo = {} /\ pos = Len(Plan) + 1
TypeInv == TypeOK /\ AskedOK /\ PosOK

(* What a stage makes has the place of the stage.                          *)
LEMMA KindFacts ==
  ASSUME NEW s \in Stages
  PROVE  /\ s # "cq_copy" => KindOf(s) \in Kinds
         /\ KindOf(s) \in Stepped
         /\ s # "dbr_mem" => KindOf(s) = s
         /\ KindOf("dbr_mem") \in {"dbr_mem", "dbr_host"}
         /\ When(KindOf(s), "main") = When(s, "main")
         /\ When(KindOf(s), "companion") = When(s, "companion")
<1>1. KindOf(s) = s \/ (s = "dbr_mem" /\ KindOf(s) = "dbr_host")
  BY DEF KindOf
<1>2. s # "cq_copy" => s \in Kinds
  BY StageNames DEF Kinds
<1>3. \A r \in Roles : When("dbr_host", r) = When("dbr_mem", r)
  <2>1. Rank["dbr_host"] = Rank["dbr_mem"]
    BY DEF Rank
  <2> QED BY <2>1 DEF When
<1>4. "dbr_host" \in Kinds
  BY DEF Kinds
<1> QED BY <1>1, <1>2, <1>3, <1>4 DEF Stepped, Roles, KindOf

LEMMA ResolvedType == AskedOK => Resolved \in {"CPU_PROXY", "GPU_SM_DB", "GPU_SM_BF", "GPU_SM_NO_DBR"}
BY DEF AskedOK, Resolved

LEMMA CallType == \A x : Call(x) \in {"free", "release"}
BY DEF Call

(* The type invariant.                                                     *)
LEMMA HlTypeInit == Init => TypeInv
<1> SUFFICES ASSUME Init PROVE TypeInv
  OBVIOUS
<1>1. AskedOK
  BY HighLevelAssumption DEF Init, AskedOK
<1>2. pos = 1 /\ Len(Plan) \in 14 .. 27 /\ status = "running" /\ undo = {}
  BY <1>1, WhenEnds DEF Init, AskedOK
<1>3. field \in [Roles -> [Kinds -> Resources \cup {Null}]]
  BY DEF Init, NoFields
<1>4. handler \in [Roles -> {"AUTO", "CPU_PROXY", "GPU_SM_DB", "GPU_SM_BF", "GPU_SM_NO_DBR"}]
  BY <1>1 DEF Init, AskedOK
<1>5. PosOK
  <2>1. \A n \in 14 .. 27 : 1 \in 1 .. n
    OBVIOUS
  <2>3. pos \in 1 .. Len(Plan)
    BY <1>2, <2>1, Zenon
  <2>2. status # "success"
    BY <1>2
  <2> QED BY <2>2, <2>3 DEF PosOK
<1>6. TypeOK
  BY <1>2, <1>3, <1>4 DEF Init, TypeOK
<1> QED BY <1>1, <1>5, <1>6 DEF TypeInv

(* Where a running call is.                                                *)
LEMMA RunningAt ==
  ASSUME TypeInv, NEW s, NEW r, Running(s, r)
  PROVE  /\ s \in Stages /\ r \in Roles /\ Planned(r)
         /\ pos = When(s, r) /\ pos \in 1 .. Len(Plan) /\ pos < Never
         /\ s = "uar" => r = "main"
         /\ status = "running" /\ undo = {}
         /\ asked.group \in BOOLEAN
<1>1. pos \in 1 .. Len(Plan) /\ Plan[pos] = <<s, r>> /\ status = "running" /\ undo = {}
  BY DEF Running, TypeInv, PosOK
<1>2. asked.group \in BOOLEAN
  BY DEF TypeInv, AskedOK
<1> QED BY <1>1, <1>2, AtStage DEF Planned

LEMMA HlTypeAcquire ==
  ASSUME TypeInv, NEW s \in Stages, NEW r \in Roles, Acquire(s, r)
  PROVE  TypeInv'
<1> DEFINE x == <<KindOf(s), r>>
<1>1. Running(s, r)
  BY DEF Acquire
<1>2. /\ pos \in 1 .. Len(Plan) /\ status = "running" /\ undo = {} /\ asked.group \in BOOLEAN
      /\ Len(Plan) \in 14 .. 27
  BY <1>1, RunningAt, WhenEnds
<1>3. s # "cq_copy" => x \in Resources
  BY KindFacts DEF Resources
<1>4. UNCHANGED asked /\ AskedOK' /\ Plan' = Plan
  BY DEF Acquire, TypeInv, AskedOK, Plan
<1>5. field' \in [Roles -> [Kinds -> Resources \cup {Null}]]
  <2>1. field \in [Roles -> [Kinds -> Resources \cup {Null}]]
    BY DEF TypeInv, TypeOK
  <2>2. CASE s = "cq_copy"
    BY <2>1, <2>2 DEF Acquire
  <2>3. CASE s # "cq_copy"
    <3>1. field' = [field EXCEPT ![r][x[1]] = x] /\ x[1] \in Kinds
      BY <2>3, KindFacts DEF Acquire
    <3> HIDE DEF x
    <3> QED BY <1>3, <2>1, <2>3, <3>1
  <2> QED BY <2>2, <2>3
<1>6. /\ handler' \in [Roles -> {"AUTO", "CPU_PROXY", "GPU_SM_DB", "GPU_SM_BF", "GPU_SM_NO_DBR"}]
      /\ \A q \in Roles : (handler'[q] = handler[q] \/ handler'[q] # "AUTO")
      /\ s = "qp" => handler'[r] # "AUTO"
  BY ResolvedType DEF Acquire, TypeInv, TypeOK
<1>7. live' \subseteq live \cup {x} /\ (s = "cq_copy" => live' \subseteq live)
  BY DEF Acquire
<1>8. live' \subseteq Resources \cup {<<"dmabuf", q>> : q \in Roles}
  BY <1>3, <1>7 DEF TypeInv, TypeOK
<1>9. ASSUME NEW q \in Roles, <<"qp", q>> \in live' PROVE handler'[q] # "AUTO"
  <2>1. <<"qp", q>> \in live \/ (s # "cq_copy" /\ <<"qp", q>> = x)
    BY <1>7, <1>9
  <2>2. CASE <<"qp", q>> \in live
    BY <1>6, <2>2 DEF TypeInv, TypeOK
  <2>3. CASE <<"qp", q>> = x
    <3>1. KindOf(s) = "qp" /\ q = r
      BY <2>3
    <3>2. s = "qp"
      BY <3>1 DEF KindOf
    <3> QED BY <1>6, <3>1, <3>2
  <2> QED BY <2>1, <2>2, <2>3
<1>10. onUar' \subseteq Resources
  <2>1. onUar' = onUar \/ (s # "cq_copy" /\ onUar' = onUar \cup {x})
    BY DEF Acquire
  <2> HIDE DEF x
  <2> QED BY <1>3, <2>1 DEF TypeInv, TypeOK
<1>11. /\ pos' = pos + 1 /\ pos' \in 1 .. Len(Plan) + 1
       /\ status' = IF pos = Len(Plan) THEN "success" ELSE "running"
       /\ undo' = {}
  BY <1>2 DEF Acquire
<1>12. UNCHANGED <<misused, leaky, list, listed>>
  BY DEF Acquire
<1>13. PosOK'
  BY <1>2, <1>4, <1>11 DEF PosOK
<1> QED BY <1>4, <1>5, <1>6, <1>8, <1>9, <1>10, <1>11, <1>12, <1>13 DEF TypeInv, TypeOK

(* What the paths release has a type.                                      *)
LEMMA PathTypes ==
  ASSUME asked.group \in BOOLEAN, NEW f \in [Roles -> [Kinds -> Resources \cup {Null}]], NEW r \in Roles
  PROVE  /\ CqErrorPath(f, r) \subseteq [turn : 1 .. 28, of : Resources, by : {"free", "release"}]
         /\ QpErrorPath(f, r) \subseteq [turn : 1 .. 28, of : Resources, by : {"free", "release"}]
         /\ DestroyAll(f) \subseteq [turn : 1 .. 28, of : Resources, by : {"free", "release"}]
<1> DEFINE T == [turn : 1 .. 28, of : Resources, by : {"free", "release"}]
<1>1. CqErrorPath(f, r) \subseteq T
  <2>1. \A k \in CqPathKinds : CqTurn[k] \in 1 .. 28 /\ k \in Kinds
    BY DEF CqPathKinds, CqTurn, Kinds
  <2> QED BY <2>1, CqPathIs, CallType
<1>2. QpErrorPath(f, r) \subseteq T
  <2>1. \A k \in QpPathKinds : QpTurn[k] \in 1 .. 28 /\ k \in Kinds
    BY DEF QpPathKinds, QpTurn, Kinds
  <2> QED BY <2>1, QpPathIs, CallType
<1>3. ASSUME NEW q \in Roles PROVE DestroyInternal(f, q) \subseteq T
  <2>1. \A k \in EndKinds : EndTurn[k] \in 1 .. 11 /\ k \in Kinds
    BY DEF EndKinds, EndTurn, Kinds
  <2>2. Turns(q) \in 6 .. 17
    BY DEF Turns
  <2>3. \A k \in EndKinds : Turns(q) + EndTurn[k] \in 1 .. 28
    BY <2>1, <2>2
  <2> QED BY <2>1, <2>3, EndIs, CallType
<1>4. DestroyAll(f) \subseteq T
  BY <1>3 DEF DestroyAll, Roles
<1> QED BY <1>1, <1>2, <1>4

-----------------------------------------------------------------------------
(* The invariant.  A call is going on until it has failed or the QP is     *)
(* destroyed; a stage is past when its place is behind the call's.         *)
Going == status \in {"running", "success"}
Past(p, k, r) == When(k, r) < p
Has(f, k, r) == f[r][k] # Null
CqKinds == {"cq_attr", "cq_mem", "cq_umem"}
QpKinds == {"qp_attr", "qp_mem", "qp_umem", KindOf("dbr_mem"), "dbr_umem"}

(* What the structure f holds of QP r for a call at place p: only what     *)
(* past stages made, all of it while the CQ or the QP is in the making,    *)
(* and never a thing without what it was made from.                        *)
Fields(f, p, r) ==
  /\ \A k \in Kinds : Has(f, k, r) => f[r][k] = <<k, r>> /\ Past(p, k, r)
  /\ Has(f, "dbr_mem", r) => ~DbrOnHost
  /\ Has(f, "dbr_host", r) => DbrOnHost
  /\ \A k \in CqKinds : Past(p, k, r) /\ ~Past(p, "cq", r) => Has(f, k, r)
  /\ Past(p, "ring", r) /\ ~Past(p, "cq", r) => (Has(f, "ring", r) <=> ~Past(p, "cq_copy", r))
  /\ \A k \in QpKinds : Past(p, k, r) /\ ~Past(p, "qp", r) => Has(f, k, r)
  /\ Past(p, "gverbs", r) => Has(f, "gverbs", r)
  /\ Has(f, "cq", r) => Has(f, "cq_mem", r) /\ Has(f, "cq_umem", r)
  /\ Has(f, "qp_attr", r) => Has(f, "uar", "main")
  /\ Has(f, "qp_umem", r) => Has(f, "qp_mem", r)
  /\ Has(f, "dbr_umem", r) => Has(f, KindOf("dbr_mem"), r)
  /\ Has(f, "qp", r) => Has(f, "cq", r) /\ \A k \in QpKinds : Has(f, k, r)
  /\ Has(f, "gverbs", r) => Has(f, "qp", r)

(* A pointer of the structure that is not stale: temporaries and the parts *)
(* of a CQ that failed silently are gone though their pointers are kept.   *)
Steady(f, p, k, r) ==
  /\ Has(f, k, r)
  /\ k \in {"cq_attr", "ring"} => ~Past(p, "cq", r)
  /\ k \in {"cq_mem", "cq_umem"} => Has(f, "cq", r) \/ ~Past(p, "cq", r)
  /\ k = "qp_attr" => ~Has(f, "qp", r)

FieldInv == Going => \A r \in Roles :
  /\ Fields(field, pos, r)
  /\ Has(field, "qp", r) => handler[r] = Resolved

(* While the call goes on, what is live is in the structure or about to be *)
(* released by the path of a silent failure, not both.                     *)
LiveInv == Going =>
  /\ live \subseteq Resources
  /\ \A k \in Kinds, r \in Roles :
       <<k, r>> \in live <=> Steady(field, pos, k, r) \/ \E u \in undo : u.of = <<k, r>>
  /\ \A u \in undo : ~Steady(field, pos, u.of[1], u.of[2]) /\ u.of[1] # "dbr_host"
  /\ \A u, v \in undo : u.of = v.of => u = v
  /\ leaky \cap {"leftover", "emulated", "dmabuf"} = {}

(* After a failure or a destruction, a path owes the release of all that   *)
(* is left, once.  The rings' memory alone can be named twice, by a        *)
(* pointer left behind: doca_gpu_mem_free() refuses the second.            *)
NoneLeaky == leaky \cap {"gverbs", "dbr_host", "dmabuf", "emulated"} = {}
ErrInv == ~Going /\ NoneLeaky => \A x \in live : \E u \in undo : u.of = x
Rings == {"cq_mem", "qp_mem"}
UndoInv ==
  /\ \A u \in undo : u.of[1] # "dbr_host" => u.by = "release"
  /\ \A u \in undo : u.of \in live \/ u.of[1] \in Rings
  /\ \A u, v \in undo : u.of = v.of => u = v \/ u.of[1] \in Rings
  /\ misused = {}
  /\ \A x \in onUar : ~asked.group => x \in {<<"qp", "main">>, <<"gverbs", "main">>}

(* What stands on a thing that is to be released goes at an earlier turn.  *)
OrderInv == "leftover" \notin leaky => \A x \in live :
   /\ StandsOn(x) \subseteq live
   /\ \A u \in undo : u.of \in StandsOn(x) => \E v \in undo : v.of = x /\ v.turn < u.turn

IInv == TypeInv /\ FieldInv /\ LiveInv /\ ErrInv /\ UndoInv /\ OrderInv

-----------------------------------------------------------------------------
(* The definitions that read the request alone do not change.              *)
LEMMA AskedFrozen ==
  ASSUME asked' = asked
  PROVE  /\ Plan' = Plan /\ Resolved' = Resolved /\ DbrOnHost' = DbrOnHost
         /\ \A s : KindOf(s)' = KindOf(s)
         /\ \A k, r : When(k, r)' = When(k, r)
<1>1. Plan' = Plan
  BY DEF Plan
<1>2. Resolved' = Resolved
  BY DEF Resolved
<1>3. DbrOnHost' = DbrOnHost
  BY <1>2 DEF DbrOnHost
<1>4. \A s : KindOf(s)' = KindOf(s)
  BY <1>3 DEF KindOf
<1>5. \A k, r : When(k, r)' = When(k, r)
  BY DEF When
<1> QED BY <1>1, <1>2, <1>3, <1>4, <1>5

(* The parts of the invariant read the request and their arguments only.   *)
LEMMA FieldsFrozen ==
  ASSUME asked' = asked, NEW r
  PROVE  Fields(field, pos, r)' <=> Fields(field', pos', r)
<1>1. /\ \A p, k, q : Past(p, k, q)' <=> Past(p', k, q)
      /\ \A f, k, q : Has(f, k, q)' <=> Has(f', k, q)
  BY AskedFrozen DEF Past, Has
<1>2. KindOf("dbr_mem")' = KindOf("dbr_mem") /\ QpKinds' = QpKinds /\ DbrOnHost' = DbrOnHost
  BY AskedFrozen DEF QpKinds
<1> QED BY <1>1, <1>2 DEF Fields

LEMMA SteadyFrozen ==
  ASSUME asked' = asked
  PROVE  \A k, r : Steady(field, pos, k, r)' <=> Steady(field', pos', k, r)
<1>1. /\ \A p, k, q : Past(p, k, q)' <=> Past(p', k, q)
      /\ \A f, k, q : Has(f, k, q)' <=> Has(f', k, q)
  BY AskedFrozen DEF Past, Has
<1> QED BY <1>1 DEF Steady

(* Stages pass in their order.                                             *)
LEMMA PastChain ==
  ASSUME asked.group \in BOOLEAN, NEW p \in 1 .. 28, NEW r \in Roles
  PROVE  /\ Past(p, "cq_mem", r) => Past(p, "cq_attr", r)
         /\ Past(p, "ring", r) => Past(p, "cq_mem", r)
         /\ Past(p, "cq_copy", r) => Past(p, "ring", r)
         /\ Past(p, "cq_umem", r) => Past(p, "cq_copy", r)
         /\ Past(p, "cq", r) => Past(p, "cq_umem", r)
         /\ Past(p, "qp_attr", r) => Past(p, "cq", r) /\ Past(p, "uar", "main")
         /\ Past(p, "qp_mem", r) => Past(p, "qp_attr", r)
         /\ Past(p, "qp_umem", r) => Past(p, "qp_mem", r)
         /\ Past(p, "dbr_mem", r) => Past(p, "qp_umem", r)
         /\ Past(p, "dbr_host", r) <=> Past(p, "dbr_mem", r)
         /\ Past(p, "dbr_umem", r) => Past(p, "dbr_mem", r)
         /\ Past(p, "qp", r) => Past(p, "dbr_umem", r)
         /\ Past(p, "gverbs", r) => Past(p, "qp", r)
<1>1. CASE Planned(r)
  <2>1. When("cq_attr", r) \in 1 .. Never /\ When("qp_attr", r) \in 1 .. Never /\ When("uar", "main") \in 1 .. Never
    BY WhenType DEF Stepped, Kinds, Roles
  <2>2. /\ When("cq_mem", r) = When("cq_attr", r) + 1
        /\ When("ring", r) = When("cq_attr", r) + 2
        /\ When("cq_copy", r) = When("cq_attr", r) + 3
        /\ When("cq_umem", r) = When("cq_attr", r) + 4
        /\ When("cq", r) = When("cq_attr", r) + 5
        /\ When("cq", r) < When("qp_attr", r)
        /\ When("uar", "main") < When("qp_attr", r)
        /\ When("qp_mem", r) = When("qp_attr", r) + 1
        /\ When("qp_umem", r) = When("qp_attr", r) + 2
        /\ When("dbr_mem", r) = When("qp_attr", r) + 3
        /\ When("dbr_host", r) = When("qp_attr", r) + 3
        /\ When("dbr_umem", r) = When("qp_attr", r) + 4
        /\ When("qp", r) = When("qp_attr", r) + 5
        /\ When("gverbs", r) = When("qp_attr", r) + 6
    BY <1>1, WhenOrder
  <2> QED BY <2>1, <2>2 DEF Past
<1>2. CASE ~Planned(r)
  <2>1. \A k : When(k, r) = Never
    BY <1>2, WhenSingle DEF Planned, Roles
  <2>2. ~(Never < p)
    BY DEF Never
  <2>3. \A k : ~Past(p, k, r)
    BY <2>1, <2>2 DEF Past
  <2> QED BY <2>3
<1> QED BY <1>1, <1>2

(* The record is in GPU memory or in host memory.                          *)
LEMMA KindOfDbr == KindOf("dbr_mem") \in {"dbr_mem", "dbr_host"} /\ (KindOf("dbr_mem") = "dbr_host" <=> DbrOnHost)
BY DEF KindOf

(* What has passed when a call is at a stage.                              *)
LEMMA AtIs ==
  ASSUME TypeInv, NEW s, NEW r, Running(s, r)
  PROVE  /\ ~Past(pos, s, r)
         /\ s = "cq_mem" => Past(pos, "cq_attr", r)
         /\ s = "ring" => Past(pos, "cq_mem", r)
         /\ s = "cq_copy" => Past(pos, "ring", r)
         /\ s = "cq_umem" => Past(pos, "cq_copy", r)
         /\ s = "cq" => Past(pos, "cq_umem", r)
         /\ s = "qp_attr" => Past(pos, "cq", r) /\ Past(pos, "uar", "main")
         /\ s = "qp_mem" => Past(pos, "qp_attr", r)
         /\ s = "qp_umem" => Past(pos, "qp_mem", r)
         /\ s = "dbr_mem" => Past(pos, "qp_umem", r)
         /\ s = "dbr_umem" => Past(pos, "dbr_mem", r)
         /\ s = "qp" => Past(pos, "dbr_umem", r)
         /\ s = "gverbs" => Past(pos, "qp", r)
<1>1. pos = When(s, r) /\ asked.group \in BOOLEAN /\ r \in Roles /\ Planned(r) /\ s \in Stages
  BY RunningAt
<1>4. pos \in 1 .. Never
  BY <1>1, WhenType, StageNames DEF Stepped, Kinds
<1>2. When("cq_attr", r) \in 1 .. Never /\ When("qp_attr", r) \in 1 .. Never /\ When("uar", "main") \in 1 .. Never
  BY <1>1, WhenType DEF Stepped, Kinds, Roles
<1>3. /\ When("cq_mem", r) = When("cq_attr", r) + 1
      /\ When("ring", r) = When("cq_attr", r) + 2
      /\ When("cq_copy", r) = When("cq_attr", r) + 3
      /\ When("cq_umem", r) = When("cq_attr", r) + 4
      /\ When("cq", r) = When("cq_attr", r) + 5
      /\ When("cq", r) < When("qp_attr", r)
      /\ When("uar", "main") < When("qp_attr", r)
      /\ When("qp_mem", r) = When("qp_attr", r) + 1
      /\ When("qp_umem", r) = When("qp_attr", r) + 2
      /\ When("dbr_mem", r) = When("qp_attr", r) + 3
      /\ When("dbr_host", r) = When("qp_attr", r) + 3
      /\ When("dbr_umem", r) = When("qp_attr", r) + 4
      /\ When("qp", r) = When("qp_attr", r) + 5
      /\ When("gverbs", r) = When("qp_attr", r) + 6
  BY <1>1, WhenOrder
<1> QED BY <1>1, <1>2, <1>3, <1>4 DEF Past

(* The stages of the other QP are all behind or all ahead.                 *)
LEMMA OtherRole ==
  ASSUME TypeInv, NEW s, NEW r, Running(s, r), s # "uar", NEW q \in Roles, q # r
  PROVE  \/ Past(pos, "gverbs", q)
         \/ ~Past(pos, "cq_attr", q) /\ (asked.group => When("cq_attr", q) = When("gverbs", r) + 1)
<1>1. /\ pos = When(s, r) /\ asked.group \in BOOLEAN /\ r \in Roles /\ Planned(r)
      /\ s \in Stages /\ pos \in 1 .. Len(Plan) /\ pos < Never
  BY RunningAt
<1>2. CASE ~asked.group
  <2>1. q = "companion"
    BY <1>1, <1>2 DEF Planned, Roles
  <2>2. ~Past(pos, "cq_attr", q)
    BY <1>1, <1>2, <2>1, WhenEnds DEF Past, Never
  <2> QED BY <1>2, <2>2
<1>3. CASE asked.group /\ r = "main"
  <2>1. s \in Stages \ {"uar"} /\ pos = When(s, "main")
    BY <1>1, <1>3
  <2>2. pos \in 2 .. 14
    BY <1>3, <2>1, WhenMain, StageNames
  <2> QED BY <1>3, <2>2, WhenMain, WhenCompanion DEF Past, Roles
<1>4. CASE asked.group /\ r = "companion"
  <2>1. s \in Stages \ {"uar"} /\ pos = When(s, "companion")
    BY <1>1, <1>4
  <2>2. pos \in 15 .. 27
    BY <1>4, <2>1, WhenCompanion, StageNames
  <2> QED BY <1>4, <2>2, WhenMain, WhenCompanion DEF Past, Roles
<1> QED BY <1>1, <1>2, <1>3, <1>4 DEF Roles

(* At the UAR, every QP has its CQ behind and its QP ahead, or all ahead.  *)
LEMMA AtUar ==
  ASSUME TypeInv, NEW r, Running("uar", r), NEW q \in Roles
  PROVE  /\ ~Past(pos, "qp_attr", q)
         /\ Past(pos, "cq", q) \/ ~Past(pos, "cq_attr", q)
<1>1. /\ pos = When("uar", "main") /\ asked.group \in BOOLEAN /\ q \in {"main", "companion"}
  BY RunningAt DEF Roles
<1>2. CASE ~asked.group
  BY <1>1, <1>2, WhenSingle DEF Past, Never
<1>3. CASE asked.group
  BY <1>1, <1>3, WhenMain, WhenCompanion DEF Past
<1> QED BY <1>1, <1>2, <1>3

(* At the end, all of a QP of the plan is behind.                          *)
LEMMA AtEnd ==
  ASSUME TypeInv, status = "success", NEW q \in Roles
  PROVE  IF Planned(q) THEN Past(pos, "gverbs", q) ELSE ~Past(pos, "cq_attr", q)
<1>1. /\ pos = Len(Plan) + 1 /\ asked.group \in BOOLEAN /\ q \in {"main", "companion"}
  BY DEF TypeInv, PosOK, AskedOK, Roles
<1>2. CASE ~asked.group
  BY <1>1, <1>2, WhenSingle, PlanLength DEF Past, Never, Planned
<1>3. CASE asked.group
  BY <1>1, <1>3, WhenMain, WhenCompanion, PlanLength DEF Past, Planned
<1> QED BY <1>1, <1>2, <1>3

-----------------------------------------------------------------------------
(* FieldInv: what the structure holds at each stage.                       *)
LEMMA PastNext ==
  ASSUME TypeInv, NEW s, NEW r, Running(s, r), NEW k \in Stepped, NEW q \in Roles
  PROVE  Past(pos + 1, k, q) <=>
           \/ Past(pos, k, q)
           \/ q = r /\ (k = s \/ (s = "dbr_mem" /\ k = "dbr_host"))
<1>1. /\ pos = When(s, r) /\ asked.group \in BOOLEAN /\ r \in Roles /\ s \in Stages /\ pos < Never
  BY RunningAt
<1>2. s \in Stepped /\ s # "dbr_host"
  BY <1>1, StageNames DEF Stepped, Kinds
<1>3. When(k, q) \in 1 .. Never /\ When(s, r) \in 1 .. Never
  BY <1>1, <1>2, WhenType
<1>4. When(k, q) = When(s, r) => q = r /\ (k = s \/ (s = "dbr_mem" /\ k = "dbr_host"))
  BY <1>1, <1>2, WhenInjective
<1>5. When("dbr_host", r) = When("dbr_mem", r)
  BY <1>1, KindFacts, RankInjective DEF When, Rank
<1>6. Past(pos + 1, k, q) <=> Past(pos, k, q) \/ When(k, q) = When(s, r)
  BY <1>1, <1>3 DEF Past
<1> QED BY <1>1, <1>4, <1>5, <1>6

(* A successful stage sets the pointer it makes, and no other.             *)
LEMMA AcquireFields ==
  ASSUME TypeInv, NEW s, NEW r, Acquire(s, r)
  PROVE  /\ asked' = asked /\ pos' = pos + 1 /\ s \in Stages /\ r \in Roles
         /\ \A q \in Roles, k \in Kinds :
              Has(field', k, q) <=> IF s = "cq_copy" THEN Has(field, k, q) /\ ~(q = r /\ k = "ring")
                                    ELSE Has(field, k, q) \/ (q = r /\ k = KindOf(s))
         /\ \A q \in Roles, k \in Kinds :
              Has(field', k, q) => field'[q][k] = field[q][k] \/ field'[q][k] = <<k, q>>
<1>1. Running(s, r) /\ asked' = asked /\ pos' = pos + 1
  BY DEF Acquire
<1>2. s \in Stages /\ r \in Roles
  BY <1>1, RunningAt
<1>3. field \in [Roles -> [Kinds -> Resources \cup {Null}]]
  BY DEF TypeInv, TypeOK
<1>4. CASE s = "cq_copy"
  <2>1. field' = [field EXCEPT ![r]["ring"] = Null]
    BY <1>4 DEF Acquire
  <2>2. \A q \in Roles, k \in Kinds : field'[q][k] = IF q = r /\ k = "ring" THEN Null ELSE field[q][k]
    BY <1>2, <1>3, <2>1
  <2> QED BY <1>1, <1>2, <1>4, <2>2 DEF Has
<1>5. CASE s # "cq_copy"
  <2>1. field' = [field EXCEPT ![r][KindOf(s)] = <<KindOf(s), r>>]
    BY <1>5 DEF Acquire
  <2>2. \A q \in Roles, k \in Kinds : field'[q][k] = IF q = r /\ k = KindOf(s) THEN <<k, q>> ELSE field[q][k]
    BY <1>2, <1>3, <2>1
  <2>3. r # "null"
    BY <1>2 DEF Roles
  <2>4. \A k : <<k, r>> # Null
    BY <2>3 DEF Null
  <2> QED BY <1>1, <1>2, <1>5, <2>2, <2>4 DEF Has
<1> QED BY <1>4, <1>5

(* A stage passed leaves the structure as it has to be for the next.       *)
LEMMA StepFields ==
  ASSUME TypeInv, NEW s, NEW r, Running(s, r), Fields(field, pos, r),
         s = "qp_attr" => Has(field, "uar", "main"),
         s = "qp" => Has(field, "cq", r),
         s = "gverbs" => Has(field, "qp", r),
         NEW g, NEW p,
         \A k \in Stepped : Past(p, k, r) <=>
           Past(pos, k, r) \/ k = s \/ (s = "dbr_mem" /\ k = "dbr_host"),
         \A k \in Kinds : Has(g, k, r) <=> IF s = "cq_copy" THEN Has(field, k, r) /\ k # "ring"
                                           ELSE Has(field, k, r) \/ k = KindOf(s),
         \A k \in Kinds : Has(g, k, r) => g[r][k] = field[r][k] \/ g[r][k] = <<k, r>>,
         Has(field, "uar", "main") => Has(g, "uar", "main")
  PROVE  Fields(g, p, r)
<1>1. s \in Stages /\ KindOf(s) = IF s = "dbr_mem" THEN KindOf("dbr_mem") ELSE s
  BY RunningAt DEF KindOf
<1>2. \A k \in Kinds : k \in Stepped
  BY DEF Stepped
<1>3. QpKinds \subseteq Kinds
  BY KindOfDbr DEF QpKinds, Kinds
<1>4. /\ \A k \in {"cq_attr", "cq_mem", "ring", "cq_umem", "cq", "uar", "qp_attr", "qp_mem",
          "qp_umem", "dbr_mem", "dbr_host", "dbr_umem", "qp", "gverbs"} : k \in Kinds
      /\ "cq_copy" \in Stepped
  BY DEF Kinds, Stepped
<1> DEFINE Chain ==
     /\ Past(pos, "cq_mem", r) => Past(pos, "cq_attr", r)
     /\ Past(pos, "ring", r) => Past(pos, "cq_mem", r)
     /\ Past(pos, "cq_copy", r) => Past(pos, "ring", r)
     /\ Past(pos, "cq_umem", r) => Past(pos, "cq_copy", r)
     /\ Past(pos, "cq", r) => Past(pos, "cq_umem", r)
     /\ Past(pos, "qp_attr", r) => Past(pos, "cq", r)
     /\ Past(pos, "qp_mem", r) => Past(pos, "qp_attr", r)
     /\ Past(pos, "qp_umem", r) => Past(pos, "qp_mem", r)
     /\ Past(pos, "dbr_mem", r) => Past(pos, "qp_umem", r)
     /\ Past(pos, "dbr_host", r) <=> Past(pos, "dbr_mem", r)
     /\ Past(pos, "dbr_umem", r) => Past(pos, "dbr_mem", r)
     /\ Past(pos, "qp", r) => Past(pos, "dbr_umem", r)
     /\ Past(pos, "gverbs", r) => Past(pos, "qp", r)
<1>5. Chain
  <2>1. asked.group \in BOOLEAN /\ pos \in 1 .. Len(Plan) /\ Len(Plan) \in 14 .. 27 /\ r \in Roles
    BY RunningAt, WhenEnds
  <2>2. \A n \in 14 .. 27 : 1 .. n \subseteq 1 .. 28
    OBVIOUS
  <2>3. pos \in 1 .. 28
    BY <2>1, <2>2, Zenon
  <2> QED BY <2>1, <2>3, PastChain
<1>6. \A k \in Kinds : Has(g, k, r) => g[r][k] = <<k, r>> /\ Past(p, k, r)
  <2>1. \A k \in Kinds : Has(field, k, r) => field[r][k] = <<k, r>> /\ Past(pos, k, r)
    BY DEF Fields
  <2>2. \A k \in Kinds : k = KindOf(s) => k = s \/ (s = "dbr_mem" /\ k = "dbr_host")
    BY <1>1, KindOfDbr
  <2>3. ASSUME NEW k \in Kinds, Has(g, k, r) PROVE g[r][k] = <<k, r>>
    BY <2>1, <2>3 DEF Has
  <2>4. ASSUME NEW k \in Kinds, Has(g, k, r) PROVE Past(p, k, r)
    BY <1>2, <2>1, <2>2, <2>4
  <2> QED BY <2>3, <2>4
<1> HIDE DEF Chain
<1>7. Has(g, "dbr_mem", r) => ~DbrOnHost
  BY <1>1, <1>4, KindOfDbr DEF Fields
<1>8. Has(g, "dbr_host", r) => DbrOnHost
  BY <1>1, <1>4, KindOfDbr, StageNames DEF Fields
<1>9. \A k \in CqKinds : Past(p, k, r) /\ ~Past(p, "cq", r) => Has(g, k, r)
  BY <1>1, <1>2, <1>4 DEF Fields, CqKinds
<1>10. Past(p, "ring", r) /\ ~Past(p, "cq", r) => (Has(g, "ring", r) <=> ~Past(p, "cq_copy", r))
  BY <1>1, <1>2, <1>4, <1>5, AtIs DEF Fields, Chain
<1>11. \A k \in QpKinds : Past(p, k, r) /\ ~Past(p, "qp", r) => Has(g, k, r)
  BY <1>1, <1>2, <1>3, <1>4, KindOfDbr DEF Fields, QpKinds
<1>12. Past(p, "gverbs", r) => Has(g, "gverbs", r)
  BY <1>1, <1>2, <1>4 DEF Fields
<1>13. Has(g, "cq", r) => Has(g, "cq_mem", r) /\ Has(g, "cq_umem", r)
  BY <1>1, <1>4, <1>5, AtIs, KindOfDbr DEF Fields, Chain, CqKinds
<1>14. Has(g, "qp_attr", r) => Has(g, "uar", "main")
  BY <1>1, <1>4, KindOfDbr DEF Fields
<1>15. Has(g, "qp_umem", r) => Has(g, "qp_mem", r)
  BY <1>1, <1>4, <1>5, AtIs, KindOfDbr DEF Fields, Chain, QpKinds
<1>16. Has(g, "dbr_umem", r) => Has(g, KindOf("dbr_mem"), r)
  BY <1>1, <1>3, <1>4, <1>5, AtIs, KindOfDbr DEF Fields, Chain, QpKinds
<1>17. Has(g, "qp", r) => Has(g, "cq", r) /\ \A k \in QpKinds : Has(g, k, r)
  BY <1>1, <1>3, <1>4, <1>5, AtIs, KindOfDbr DEF Fields, Chain, QpKinds
<1>18. Has(g, "gverbs", r) => Has(g, "qp", r)
  BY <1>1, <1>4, <1>5, AtIs, KindOfDbr DEF Fields, Chain
<1> QED BY <1>6, <1>7, <1>8, <1>9, <1>10, <1>11, <1>12, <1>13, <1>14, <1>15, <1>16, <1>17, <1>18 DEF Fields

(* A QP that a step does not touch.                                        *)
LEMMA SameFields ==
  ASSUME NEW f, NEW g, NEW n, NEW p, NEW q, Fields(f, n, q), g[q] = f[q],
         \A k \in Stepped : (Past(p, k, q) <=> Past(n, k, q)) \/ (k = "uar" /\ Past(p, k, q)),
         Has(f, "uar", "main") => Has(g, "uar", "main")
  PROVE  Fields(g, p, q)
<1>1. \A k : Has(g, k, q) <=> Has(f, k, q)
  BY DEF Has
<1>2. \A k \in Kinds : k \in Stepped
  BY DEF Stepped
<1>3. QpKinds \subseteq Stepped \ {"uar"} /\ CqKinds \subseteq Stepped \ {"uar"}
  BY KindOfDbr DEF QpKinds, CqKinds, Kinds, Stepped
<1>4. {"cq", "ring", "cq_copy", "qp", "gverbs"} \subseteq Stepped \ {"uar"}
  BY DEF Kinds, Stepped
<1> QED BY <1>1, <1>2, <1>3, <1>4 DEF Fields

(* The structure after a successful stage.                                 *)
LEMMA FieldAcquire ==
  ASSUME TypeInv, FieldInv, NEW s, NEW r, Acquire(s, r)
  PROVE  FieldInv'
<1>1. Running(s, r) /\ Needs(s, r) /\ pos' = pos + 1
  BY DEF Acquire
<1>2. status = "running" /\ r \in Roles /\ s \in Stages /\ asked' = asked /\ (s = "uar" => r = "main")
  BY <1>1, RunningAt, AcquireFields
<1>3. \A q \in Roles : Fields(field, pos, q) /\ (Has(field, "qp", q) => handler[q] = Resolved)
  BY <1>2 DEF FieldInv, Going
<1>4. Has(field, "uar", "main") => Has(field', "uar", "main")
  BY AcquireFields DEF Kinds, Roles
<1>5. \A k \in Stepped, q \in Roles : Past(pos', k, q) <=>
           Past(pos, k, q) \/ (q = r /\ (k = s \/ (s = "dbr_mem" /\ k = "dbr_host")))
  BY <1>1, PastNext
<1>6. Fields(field', pos', r)
  <2>1. /\ s = "qp_attr" => Has(field, "uar", "main")
        /\ s = "qp" => Has(field, "cq", r)
        /\ s = "gverbs" => Has(field, "qp", r)
    BY <1>1 DEF Needs, UarOf, Has
  <2>2. \A k \in Stepped : Past(pos', k, r) <=>
           Past(pos, k, r) \/ k = s \/ (s = "dbr_mem" /\ k = "dbr_host")
    BY <1>2, <1>5
  <2>3. \A k \in Kinds : Has(field', k, r) <=> IF s = "cq_copy" THEN Has(field, k, r) /\ k # "ring"
                                           ELSE Has(field, k, r) \/ k = KindOf(s)
    BY <1>2, AcquireFields
  <2>4. \A k \in Kinds : Has(field', k, r) => field'[r][k] = field[r][k] \/ field'[r][k] = <<k, r>>
    BY <1>2, AcquireFields
  <2>5. Fields(field, pos, r)
    BY <1>2, <1>3
  <2> QED BY <1>1, <1>4, <2>1, <2>2, <2>3, <2>4, <2>5, StepFields
<1>7. ASSUME NEW q \in Roles, q # r PROVE Fields(field', pos', q)
  <2>1. field'[q] = field[q]
    <3>1. field \in [Roles -> [Kinds -> Resources \cup {Null}]]
      BY DEF TypeInv, TypeOK
    <3> QED BY <1>2, <1>7, <3>1 DEF Acquire
  <2>2. \A k \in Stepped : Past(pos', k, q) <=> Past(pos, k, q)
    BY <1>5, <1>7
  <2> QED BY <1>3, <1>4, <1>7, <2>1, <2>2, SameFields
<1>8. ASSUME NEW q \in Roles, Has(field', "qp", q) PROVE handler'[q] = Resolved
  <2>1. "qp" \in Kinds /\ (KindOf(s) = "qp" => s = "qp")
    BY DEF Kinds, KindOf
  <2>2. Has(field, "qp", q) \/ (q = r /\ s = "qp")
    BY <1>8, <2>1, AcquireFields
  <2>3. handler' = IF s = "qp" THEN [handler EXCEPT ![r] = Resolved] ELSE handler
    BY DEF Acquire
  <2>4. DOMAIN handler = Roles
    BY DEF TypeInv, TypeOK
  <2> QED BY <1>3, <2>2, <2>3, <2>4
<1>9. \A q \in Roles : Fields(field, pos, q)'
  BY <1>2, <1>6, <1>7, FieldsFrozen
<1>10. \A q \in Roles : Has(field, "qp", q)' => handler'[q] = Resolved'
  BY <1>2, <1>8, AskedFrozen DEF Has
<1> QED BY <1>9, <1>10 DEF FieldInv

(* A silent failure: past the CQ, or past the QP.                          *)
LEMMA CqSkip ==
  ASSUME TypeInv, NEW r, Running("cq_copy", r), NEW k \in Stepped, NEW q \in Roles
  PROVE  Past(pos + 3, k, q) <=> Past(pos, k, q) \/ (q = r /\ k \in {"cq_copy", "cq_umem", "cq"})
<1>1. pos = When("cq_copy", r) /\ asked.group \in BOOLEAN /\ r \in Roles /\ Planned(r)
  BY RunningAt
<1>2. CASE ~asked.group
  <2>1. r = "main"
    BY <1>1, <1>2 DEF Planned
  <2>2. pos = 4
    BY <1>1, <1>2, <2>1, WhenSingle
  <2>3. CASE q = "companion"
    BY <1>2, <2>1, <2>2, <2>3, WhenSingle DEF Past, Never
  <2>4. CASE q = "main"
    BY <1>2, <2>1, <2>2, <2>4, WhenSingle DEF Past, Stepped, Kinds
  <2> QED BY <2>3, <2>4 DEF Roles
<1>3. CASE asked.group /\ r = "main"
  <2>2. pos = 5
    BY <1>1, <1>3, WhenMain
  <2>3. CASE q = "companion"
    BY <1>3, <2>2, <2>3, WhenCompanion DEF Past, Never, Stepped, Kinds
  <2>4. CASE q = "main"
    BY <1>3, <2>2, <2>4, WhenMain DEF Past, Stepped, Kinds
  <2> QED BY <2>3, <2>4 DEF Roles
<1>4. CASE asked.group /\ r = "companion"
  <2>2. pos = 18
    BY <1>1, <1>4, WhenCompanion
  <2>3. CASE q = "companion"
    BY <1>4, <2>2, <2>3, WhenCompanion DEF Past, Never, Stepped, Kinds
  <2>4. CASE q = "main"
    BY <1>4, <2>2, <2>4, WhenMain DEF Past, Stepped, Kinds
  <2> QED BY <2>3, <2>4 DEF Roles
<1> QED BY <1>1, <1>2, <1>3, <1>4 DEF Roles

LEMMA QpSkip ==
  ASSUME TypeInv, NEW r, Running("dbr_mem", r), NEW k \in Stepped, NEW q \in Roles
  PROVE  Past(pos + 3, k, q) <=>
           Past(pos, k, q) \/ (q = r /\ k \in {"dbr_mem", "dbr_host", "dbr_umem", "qp"})
<1>1. pos = When("dbr_mem", r) /\ asked.group \in BOOLEAN /\ r \in Roles /\ Planned(r)
  BY RunningAt
<1>2. CASE ~asked.group
  <2>1. r = "main"
    BY <1>1, <1>2 DEF Planned
  <2>2. pos = 11
    BY <1>1, <1>2, <2>1, WhenSingle
  <2>3. CASE q = "companion"
    BY <1>2, <2>1, <2>2, <2>3, WhenSingle DEF Past, Never
  <2>4. CASE q = "main"
    BY <1>2, <2>1, <2>2, <2>4, WhenSingle DEF Past, Stepped, Kinds
  <2> QED BY <2>3, <2>4 DEF Roles
<1>3. CASE asked.group /\ r = "main"
  <2>2. pos = 11
    BY <1>1, <1>3, WhenMain
  <2>3. CASE q = "companion"
    BY <1>3, <2>2, <2>3, WhenCompanion DEF Past, Never, Stepped, Kinds
  <2>4. CASE q = "main"
    BY <1>3, <2>2, <2>4, WhenMain DEF Past, Stepped, Kinds
  <2> QED BY <2>3, <2>4 DEF Roles
<1>4. CASE asked.group /\ r = "companion"
  <2>2. pos = 24
    BY <1>1, <1>4, WhenCompanion
  <2>3. CASE q = "companion"
    BY <1>4, <2>2, <2>3, WhenCompanion DEF Past, Never, Stepped, Kinds
  <2>4. CASE q = "main"
    BY <1>4, <2>2, <2>4, WhenMain DEF Past, Stepped, Kinds
  <2> QED BY <2>3, <2>4 DEF Roles
<1> QED BY <1>1, <1>2, <1>3, <1>4 DEF Roles

-----------------------------------------------------------------------------
(* Failures: silent, when the call goes on, or told.                       *)
Silent(s) == \/ s = "cq_copy"
             \/ s = "dbr_mem" /\ DbrOnHost
             \/ s = "uar" /\ asked.handler # "GPU_SM_BF"
(* The pointers a failed allocation can leave, the structure with one, and *)
(* the path of a failure the caller is told of.                            *)
Left(s, r) == IF s \in {"cq_mem", "qp_mem"} \/ (s = "dbr_mem" /\ ~DbrOnHost)
              THEN FailedAlloc(s, r) ELSE {Null}
With(s, r, left) == IF left = Null THEN field ELSE [field EXCEPT ![r][s] = left]
Undone(s, r, f) ==
  IF s \in {"cq_attr", "cq_mem", "ring", "cq_umem", "cq"} THEN CqErrorPath(f, r) \cup DestroyAll(f)
  ELSE IF s = "uar" THEN DestroyAll(f)
  ELSE IF s = "gverbs" THEN {}
  ELSE QpErrorPath(f, r) \cup DestroyAll(WithoutQp(f, r))

(* What a failure does, silent or told.                                    *)
LEMMA FailCases ==
  ASSUME TypeInv, NEW s, NEW r, Fail(s, r)
  PROVE  /\ Running(s, r) /\ UNCHANGED <<asked, handler, onUar, misused, list, listed>>
         /\ Silent(s) =>
              /\ live' = live /\ status' = "running"
              /\ pos' = IF s = "uar" THEN pos + 1 ELSE pos + 3
              /\ undo' = CASE s = "cq_copy" -> CqErrorPath(field, r)
                           [] s = "dbr_mem" -> QpErrorPath(field, r)
                           [] OTHER -> {}
              /\ field' = IF s = "dbr_mem" THEN WithoutQp(field, r) ELSE field
              /\ leaky' = IF s = "dbr_mem" THEN leaky \cup {"dbr_host"} ELSE leaky
         /\ ~Silent(s) => \E left \in Left(s, r), fd \in BOOLEAN :
              /\ status' = "error" /\ pos' = pos
              /\ undo' = Undone(s, r, With(s, r, left))
              /\ field' = (IF s \in {"qp_attr", "qp_mem", "qp_umem", "dbr_mem", "dbr_umem", "qp"}
                           THEN WithoutQp(With(s, r, left), r) ELSE With(s, r, left))
              /\ live' = (IF fd THEN live \cup {<<"dmabuf", r>>} ELSE live)
              /\ leaky' = leaky \cup (IF fd THEN {"dmabuf"} ELSE {})
                            \cup ({s} \cap {"gverbs"})
                            \cup (IF left \in live /\ s # "dbr_mem" THEN {"leftover"} ELSE {})
<1>1. Running(s, r) /\ UNCHANGED <<asked, handler, onUar, misused, list, listed>>
  BY DEF Fail
<1>2. s \in Stages /\ r \in Roles
  BY <1>1, RunningAt
<1>3. PICK left \in Left(s, r), fd \in BOOLEAN :
       /\ fd => s \in Umems
       /\ CASE s \in {CqStages[i] : i \in DOMAIN CqStages} -> FailCq(s, r, With(s, r, left))
                [] s = "uar" -> FailUar(With(s, r, left))
                [] s = "gverbs" -> FailExport
                [] OTHER -> FailQp(s, r, With(s, r, left))
       /\ live' = IF fd THEN live \cup {<<"dmabuf", r>>} ELSE live
       /\ leaky' = leaky \cup (IF fd THEN {"dmabuf"} ELSE {})
                        \cup ({KindOf(s)} \cap {"gverbs", "dbr_host"})
                        \cup (IF left \in live /\ s # "dbr_mem" THEN {"leftover"} ELSE {})
       /\ field' = IF s \in {QpStages[i] : i \in DOMAIN QpStages}
                   THEN WithoutQp(With(s, r, left), r) ELSE With(s, r, left)
  BY DEF Fail, Left, With
<1>4. /\ (s \in {CqStages[i] : i \in DOMAIN CqStages}
          <=> s \in {"cq_attr", "cq_mem", "ring", "cq_copy", "cq_umem", "cq"})
      /\ (s \in {QpStages[i] : i \in DOMAIN QpStages}
          <=> s \in {"qp_attr", "qp_mem", "qp_umem", "dbr_mem", "dbr_umem", "qp"})
  BY StageSets
<1>5. Null \notin live
  <2>1. \A q \in Roles : q # "null"
    BY DEF Roles
  <2> QED BY <2>1 DEF TypeInv, TypeOK, Null, Resources
<1>6. KindOf(s) = IF s = "dbr_mem" /\ DbrOnHost THEN "dbr_host" ELSE s
  BY DEF KindOf
<1>7. CASE Silent(s)
  <2>1. left = Null /\ With(s, r, left) = field /\ ~fd /\ left \notin live
    BY <1>3, <1>5, <1>7 DEF Silent, Left, With, Umems
  <2>2. CASE s = "cq_copy"
    BY <1>1, <1>3, <1>4, <1>6, <1>7, <2>1, <2>2 DEF FailCq
  <2>3. CASE s = "dbr_mem" /\ DbrOnHost
    <3>1. FailQp(s, r, field) /\ KindOf(s) = "dbr_host"
      BY <1>3, <1>4, <1>6, <2>1, <2>3
    <3> QED BY <1>1, <1>3, <1>4, <1>6, <1>7, <2>1, <2>3, <3>1 DEF FailQp
  <2>4. CASE s = "uar" /\ asked.handler # "GPU_SM_BF"
    <3>1. FailUar(field)
      BY <1>3, <1>4, <2>1, <2>4
    <3> QED BY <1>1, <1>3, <1>4, <1>6, <1>7, <2>1, <2>4, <3>1 DEF FailUar
  <2> QED BY <1>7, <2>2, <2>3, <2>4 DEF Silent
<1>8. CASE ~Silent(s)
  <2> DEFINE f == With(s, r, left)
  <2>1. /\ status' = "error" /\ pos' = pos
        /\ undo' = Undone(s, r, f)
    <3> HIDE DEF f
    <3>1. CASE s \in {"cq_attr", "cq_mem", "ring", "cq_copy", "cq_umem", "cq"}
      <4>1. FailCq(s, r, f) /\ s # "cq_copy"
        BY <1>3, <1>4, <1>8, <3>1 DEF Silent, f
      <4> QED BY <3>1, <4>1 DEF FailCq, Undone
    <3>2. CASE s = "uar"
      <4>1. FailUar(f) /\ asked.handler = "GPU_SM_BF"
        BY <1>3, <1>4, <1>8, <3>2 DEF Silent, f
      <4> QED BY <3>2, <4>1 DEF FailUar, Undone
    <3>3. CASE s = "gverbs"
      <4>1. FailExport
        BY <1>3, <1>4, <3>3
      <4> QED BY <3>3, <4>1 DEF FailExport, Undone
    <3>4. CASE s \in {"qp_attr", "qp_mem", "qp_umem", "dbr_mem", "dbr_umem", "qp"}
      <4>1. FailQp(s, r, f) /\ KindOf(s) # "dbr_host"
        BY <1>3, <1>4, <1>6, <1>8, <3>4 DEF Silent, f
      <4> QED BY <3>4, <4>1 DEF FailQp, Undone
    <3> QED BY <1>2, <3>1, <3>2, <3>3, <3>4, StageNames
  <2>2. field' = (IF s \in {"qp_attr", "qp_mem", "qp_umem", "dbr_mem", "dbr_umem", "qp"}
                  THEN WithoutQp(With(s, r, left), r) ELSE With(s, r, left))
    BY <1>3, <1>4
  <2>3. {KindOf(s)} \cap {"gverbs", "dbr_host"} = {s} \cap {"gverbs"}
    BY <1>2, <1>6, <1>8, StageNames DEF Silent
  <2>4. leaky' = leaky \cup (IF fd THEN {"dmabuf"} ELSE {})
                            \cup ({s} \cap {"gverbs"})
                            \cup (IF left \in live /\ s # "dbr_mem" THEN {"leftover"} ELSE {})
    BY <1>3, <2>3
  <2>5. live' = (IF fd THEN live \cup {<<"dmabuf", r>>} ELSE live)
    BY <1>3
  <2> QED BY <1>1, <1>8, <2>1, <2>2, <2>4, <2>5
<1> QED BY <1>7, <1>8

(* Failures keep the types.                                                *)
LEMMA LeftTyped ==
  ASSUME TypeInv, NEW s \in Stages, NEW r \in Roles, NEW left \in Left(s, r)
  PROVE  /\ left \in Resources \cup {Null}
         /\ With(s, r, left) \in [Roles -> [Kinds -> Resources \cup {Null}]]
         /\ WithoutQp(With(s, r, left), r) \in [Roles -> [Kinds -> Resources \cup {Null}]]
<1>1. field \in [Roles -> [Kinds -> Resources \cup {Null}]]
  BY DEF TypeInv, TypeOK
<1>2. left \in Resources \cup {Null}
  <2>1. \A x \in live : x[1] \in {"cq_mem", "qp_mem"} => x \in Resources
    <3>1. \A q : <<"dmabuf", q>>[1] \notin {"cq_mem", "qp_mem"}
      OBVIOUS
    <3> QED BY <3>1 DEF TypeInv, TypeOK
  <2>2. field[r]["qp_mem"] \in Resources \cup {Null}
    BY <1>1 DEF Kinds
  <2> QED BY <2>1, <2>2 DEF Left, FailedAlloc
<1>3. With(s, r, left) \in [Roles -> [Kinds -> Resources \cup {Null}]]
  BY <1>1, <1>2 DEF With
<1>4. \A f \in [Roles -> [Kinds -> Resources \cup {Null}]] :
        WithoutQp(f, r) \in [Roles -> [Kinds -> Resources \cup {Null}]]
  BY DEF WithoutQp
<1> QED BY <1>2, <1>3, <1>4

LEMMA UndoneTyped ==
  ASSUME TypeInv, NEW s \in Stages, NEW r \in Roles, NEW left \in Left(s, r)
  PROVE  Undone(s, r, With(s, r, left)) \subseteq
           [turn : 1 .. 28, of : Resources, by : {"free", "release"}]
<1>1. asked.group \in BOOLEAN
  BY DEF TypeInv, AskedOK
<1>2. /\ With(s, r, left) \in [Roles -> [Kinds -> Resources \cup {Null}]]
      /\ WithoutQp(With(s, r, left), r) \in [Roles -> [Kinds -> Resources \cup {Null}]]
  BY LeftTyped
<1> DEFINE T == [turn : 1 .. 28, of : Resources, by : {"free", "release"}]
           f == With(s, r, left)
           g == WithoutQp(f, r)
<1> HIDE DEF f, g
<1>3. /\ CqErrorPath(f, r) \subseteq T /\ QpErrorPath(f, r) \subseteq T
      /\ DestroyAll(f) \subseteq T
  BY <1>1, <1>2, PathTypes DEF f, g
<1>4. DestroyAll(g) \subseteq T
  BY <1>1, <1>2, PathTypes DEF f, g
<1> HIDE DEF T
<1>5. Undone(s, r, f) \subseteq T
  BY <1>3, <1>4 DEF Undone, g
<1> QED BY <1>5 DEF f, T

LEMMA HlTypeFail ==
  ASSUME TypeInv, NEW s, NEW r, Fail(s, r)
  PROVE  TypeInv'
<1>1. Running(s, r) /\ UNCHANGED <<asked, handler, onUar, misused, list, listed>>
  BY FailCases
<1>2. /\ s \in Stages /\ r \in Roles /\ asked.group \in BOOLEAN /\ pos \in 1 .. Len(Plan)
      /\ Planned(r) /\ pos = When(s, r)
  BY <1>1, RunningAt
<1>3. Plan' = Plan /\ Len(Plan) \in 14 .. 27 /\ AskedOK'
  BY <1>1, <1>2, AskedFrozen, WhenEnds DEF TypeInv, AskedOK
<1>4. field \in [Roles -> [Kinds -> Resources \cup {Null}]]
  BY DEF TypeInv, TypeOK
<1>5. /\ pos' \in 1 .. Len(Plan) + 1
      /\ undo' \subseteq [turn : 1 .. 28, of : Resources, by : {"free", "release"}]
      /\ field' \in [Roles -> [Kinds -> Resources \cup {Null}]]
      /\ live' \subseteq Resources \cup {<<"dmabuf", q>> : q \in Roles}
      /\ \A q \in Roles : <<"qp", q>> \in live' => <<"qp", q>> \in live
      /\ leaky' \subseteq Kinds \cup {"dmabuf", "leftover", "emulated"}
      /\ status' \in {"running", "error"}
      /\ status' = "running" => pos' \in 1 .. Len(Plan)
  <2>1. CASE Silent(s)
    <3>1. /\ live' = live /\ status' = "running"
          /\ pos' = IF s = "uar" THEN pos + 1 ELSE pos + 3
          /\ undo' = CASE s = "cq_copy" -> CqErrorPath(field, r)
                       [] s = "dbr_mem" -> QpErrorPath(field, r)
                       [] OTHER -> {}
          /\ field' = IF s = "dbr_mem" THEN WithoutQp(field, r) ELSE field
          /\ leaky' = IF s = "dbr_mem" THEN leaky \cup {"dbr_host"} ELSE leaky
      BY <2>1, FailCases
    <3>2. s = "cq_copy" \/ s = "dbr_mem" \/ s = "uar"
      BY <2>1 DEF Silent
    <3>3. /\ CqErrorPath(field, r) \subseteq [turn : 1 .. 28, of : Resources, by : {"free", "release"}]
          /\ QpErrorPath(field, r) \subseteq [turn : 1 .. 28, of : Resources, by : {"free", "release"}]
      BY <1>2, <1>4, PathTypes
    <3>4. undo' \subseteq [turn : 1 .. 28, of : Resources, by : {"free", "release"}]
      BY <3>1, <3>2, <3>3
    <3>5. WithoutQp(field, r) \in [Roles -> [Kinds -> Resources \cup {Null}]]
      BY <1>4 DEF WithoutQp
    <3>6. leaky' \subseteq Kinds \cup {"dmabuf", "leftover", "emulated"}
      BY <3>1 DEF TypeInv, TypeOK, Kinds
    <3>7. pos' \in 1 .. Len(Plan)
      <4>0. \A q \in Roles : When("gverbs", q) \in 1 .. Never
        BY <1>2, WhenType DEF Stepped, Kinds
      <4>8. /\ When("cq_copy", r) = When("cq_attr", r) + 3 /\ When("cq", r) = When("cq_attr", r) + 5
            /\ When("cq", r) < When("qp_attr", r) /\ When("dbr_mem", r) = When("qp_attr", r) + 3
            /\ When("gverbs", r) = When("qp_attr", r) + 6
        BY <1>2, WhenOrder
      <4>9. When("cq_attr", r) \in 1 .. Never /\ When("qp_attr", r) \in 1 .. Never
        BY <1>2, WhenType DEF Stepped, Kinds
      <4>1. s = "cq_copy" => pos' <= When("gverbs", r)
        BY <1>2, <3>1, <4>0, <4>8, <4>9
      <4>2. s = "dbr_mem" => pos' = When("gverbs", r)
        BY <1>2, <3>1, <4>8, <4>9
      <4>3. s = "uar" => pos' <= When("gverbs", "main")
        <5>1. s = "uar" => pos = When("uar", "main") /\ pos' = pos + 1
          BY <1>1, <3>1, RunningAt
        <5>2. When("uar", "main") < When("qp_attr", "main") /\ When("gverbs", "main") = When("qp_attr", "main") + 6
          BY <1>2, WhenOrder DEF Planned, Roles
        <5>3. When("uar", "main") \in 1 .. Never /\ When("qp_attr", "main") \in 1 .. Never
          BY <1>2, WhenType DEF Stepped, Kinds, Roles
        <5> QED BY <5>1, <5>2, <5>3
      <4>4. When("gverbs", r) <= Len(Plan) /\ When("gverbs", "main") <= Len(Plan)
        BY <1>2, WhenOrder DEF Planned, Roles
      <4>5. pos' \in Nat /\ pos' >= 1
        <5>1. \A n \in 14 .. 27 : \A i \in 1 .. n : i \in Nat /\ i >= 1
          OBVIOUS
        <5>2. pos \in Nat /\ pos >= 1
          BY <1>2, <1>3, <5>1, Zenon
        <5> QED BY <3>1, <5>2
      <4>6. \A n \in 14 .. 27, i \in Nat, j \in 1 .. Never : i >= 1 /\ i <= j /\ j <= n => i \in 1 .. n
        BY DEF Never
      <4>7. \E j \in 1 .. Never : pos' <= j /\ j <= Len(Plan)
        <5>1. \A j \in 1 .. Never : j <= j
          OBVIOUS
        <5> QED BY <1>2, <3>2, <4>0, <4>1, <4>2, <4>3, <4>4, <5>1 DEF Roles
      <4> QED BY <1>3, <4>5, <4>6, <4>7, Zenon
    <3>8. pos' \in 1 .. Len(Plan) + 1
      <4>1. \A n \in 14 .. 27 : 1 .. n \subseteq 1 .. n + 1
        OBVIOUS
      <4> QED BY <1>3, <3>7, <4>1, Zenon
    <3> QED BY <1>4, <3>1, <3>4, <3>5, <3>6, <3>7, <3>8 DEF TypeInv, TypeOK
  <2>2. CASE ~Silent(s)
    <3>1. PICK left \in Left(s, r), fd \in BOOLEAN :
            /\ status' = "error" /\ pos' = pos
            /\ undo' = Undone(s, r, With(s, r, left))
            /\ field' = (IF s \in {"qp_attr", "qp_mem", "qp_umem", "dbr_mem", "dbr_umem", "qp"}
                         THEN WithoutQp(With(s, r, left), r) ELSE With(s, r, left))
            /\ live' = (IF fd THEN live \cup {<<"dmabuf", r>>} ELSE live)
            /\ leaky' = leaky \cup (IF fd THEN {"dmabuf"} ELSE {})
                              \cup ({s} \cap {"gverbs"})
                              \cup (IF left \in live /\ s # "dbr_mem" THEN {"leftover"} ELSE {})
      BY <2>2, FailCases
    <3>2. undo' \subseteq [turn : 1 .. 28, of : Resources, by : {"free", "release"}]
      BY <1>2, <3>1, UndoneTyped
    <3>3. field' \in [Roles -> [Kinds -> Resources \cup {Null}]]
      BY <1>2, <3>1, LeftTyped
    <3>4. leaky' \subseteq Kinds \cup {"dmabuf", "leftover", "emulated"}
      BY <3>1 DEF TypeInv, TypeOK, Kinds
    <3>5. live' \subseteq Resources \cup {<<"dmabuf", q>> : q \in Roles}
      BY <1>2, <3>1 DEF TypeInv, TypeOK
    <3>6. \A q \in Roles : <<"qp", q>> \in live' => <<"qp", q>> \in live
      BY <3>1
    <3> QED BY <3>1, <3>2, <3>3, <3>4, <3>5, <3>6 DEF TypeInv, TypeOK
  <2> QED BY <2>1, <2>2
<1>6. PosOK'
  BY <1>3, <1>5 DEF PosOK
<1>7. TypeOK'
  BY <1>1, <1>3, <1>5 DEF TypeInv, TypeOK
<1> QED BY <1>3, <1>6, <1>7 DEF TypeInv

(* So do the other steps.                                                  *)
LEMMA HlTypeRest ==
  ASSUME TypeInv, Release \/ Destroy \/ FlatListCreate \/ FlatListDestroy \/ UNCHANGED vars
  PROVE  TypeInv'
<1>1. UNCHANGED <<asked, pos, handler, onUar>> /\ AskedOK /\ asked.group \in BOOLEAN
  BY DEF Release, Destroy, FlatListCreate, FlatListDestroy, vars, qpVars, TypeInv, AskedOK
<1>2. Plan' = Plan /\ AskedOK'
  BY <1>1, AskedFrozen DEF AskedOK
<1>3. CASE Release
  <2>1. PICK u \in undo :
          /\ live' = IF Refused(u) THEN live ELSE live \ {u.of}
          /\ leaky' = IF Refused(u) /\ u.of \in live THEN leaky \cup {"emulated"} ELSE leaky
          /\ misused' = IF Refused(u) \/ u.of \in live THEN misused ELSE misused \cup {u.of}
          /\ undo' = undo \ {u}
          /\ UNCHANGED <<field, status, list, listed>>
    BY <1>3 DEF Release
  <2>2. u.of \in Resources
    BY DEF TypeInv, TypeOK
  <2>3. misused' \subseteq Resources /\ live' \subseteq live /\ undo' \subseteq undo
    BY <2>1, <2>2 DEF TypeInv, TypeOK
  <2>4. leaky' \subseteq Kinds \cup {"dmabuf", "leftover", "emulated"}
    BY <2>1 DEF TypeInv, TypeOK
  <2>5. PosOK'
    BY <1>1, <1>2, <2>1, <2>3 DEF TypeInv, PosOK
  <2>6. TypeOK'
    BY <1>1, <1>2, <2>1, <2>3, <2>4 DEF TypeInv, TypeOK
  <2> QED BY <1>2, <2>5, <2>6 DEF TypeInv
<1>4. CASE Destroy
  <2>1. DestroyAll(field) \subseteq [turn : 1 .. 28, of : Resources, by : {"free", "release"}]
    BY <1>1, PathTypes DEF TypeInv, TypeOK, Roles
  <2>2. field' \in [Roles -> [Kinds -> Resources \cup {Null}]]
    BY <1>4 DEF Destroy, NoFields
  <2>3. /\ status' = "destroyed" /\ undo' = DestroyAll(field)
        /\ UNCHANGED <<live, misused, leaky, list, listed>>
    BY <1>4 DEF Destroy
  <2>4. PosOK'
    BY <2>3 DEF PosOK
  <2>5. TypeOK'
    BY <1>1, <1>2, <2>1, <2>2, <2>3 DEF TypeInv, TypeOK
  <2> QED BY <1>2, <2>4, <2>5 DEF TypeInv
<1>5. CASE FlatListCreate \/ FlatListDestroy \/ UNCHANGED vars
  <2>1. UNCHANGED <<undo, field, status, live, misused, leaky>>
    BY <1>5 DEF FlatListCreate, FlatListDestroy, vars, qpVars
  <2>2. list' \in {"none", "delivered", "lost"} /\ listed' \in {"none", "success", "error"}
    BY <1>5 DEF FlatListCreate, FlatListDestroy, vars, TypeInv, TypeOK
  <2>3. PosOK'
    BY <1>1, <1>2, <2>1 DEF TypeInv, PosOK
  <2>4. TypeOK'
    BY <1>1, <1>2, <2>1, <2>2 DEF TypeInv, TypeOK
  <2> QED BY <1>2, <2>3, <2>4 DEF TypeInv
<1> QED BY <1>3, <1>4, <1>5

(* The stages behind a running call.                                       *)
LEMMA RunningChain ==
  ASSUME TypeInv, NEW s, NEW r, Running(s, r), NEW q \in Roles
  PROVE  /\ Past(pos, "cq_mem", q) => Past(pos, "cq_attr", q)
         /\ Past(pos, "ring", q) => Past(pos, "cq_mem", q)
         /\ Past(pos, "cq_copy", q) => Past(pos, "ring", q)
         /\ Past(pos, "cq_umem", q) => Past(pos, "cq_copy", q)
         /\ Past(pos, "cq", q) => Past(pos, "cq_umem", q)
         /\ Past(pos, "qp_attr", q) => Past(pos, "cq", q) /\ Past(pos, "uar", "main")
         /\ Past(pos, "qp_mem", q) => Past(pos, "qp_attr", q)
         /\ Past(pos, "qp_umem", q) => Past(pos, "qp_mem", q)
         /\ Past(pos, "dbr_mem", q) => Past(pos, "qp_umem", q)
         /\ Past(pos, "dbr_host", q) <=> Past(pos, "dbr_mem", q)
         /\ Past(pos, "dbr_umem", q) => Past(pos, "dbr_mem", q)
         /\ Past(pos, "qp", q) => Past(pos, "dbr_umem", q)
         /\ Past(pos, "gverbs", q) => Past(pos, "qp", q)
<1>1. asked.group \in BOOLEAN /\ pos \in 1 .. Len(Plan) /\ Len(Plan) \in 14 .. 27
  BY RunningAt, WhenEnds
<1>2. \A n \in 14 .. 27 : 1 .. n \subseteq 1 .. 28
  OBVIOUS
<1>3. pos \in 1 .. 28
  BY <1>1, <1>2, Zenon
<1> QED BY <1>1, <1>3, PastChain

(* Clearing the pointers of a QP clears those and no other.                *)
LEMMA WithoutQpIs ==
  ASSUME NEW f \in [Roles -> [Kinds -> Resources \cup {Null}]], NEW r \in Roles
  PROVE  /\ \A q \in Roles \ {r} : WithoutQp(f, r)[q] = f[q]
         /\ \A q \in Roles, k \in Kinds : WithoutQp(f, r)[q][k] =
              IF q = r /\ k \in QpPathKinds THEN Null ELSE f[q][k]
         /\ \A q \in Roles, k \in Kinds : Has(WithoutQp(f, r), k, q) <=>
              Has(f, k, q) /\ ~(q = r /\ k \in QpPathKinds)
<1>1. \A q \in Roles \ {r} : WithoutQp(f, r)[q] = f[q]
  BY DEF WithoutQp
<1>2. \A q \in Roles, k \in Kinds : WithoutQp(f, r)[q][k] =
              IF q = r /\ k \in QpPathKinds THEN Null ELSE f[q][k]
  BY DEF WithoutQp, QpPathKinds
<1>3. \A q \in Roles, k \in Kinds : Has(WithoutQp(f, r), k, q) <=>
              Has(f, k, q) /\ ~(q = r /\ k \in QpPathKinds)
  BY <1>2 DEF Has
<1> QED BY <1>1, <1>2, <1>3

(* The structure after a failure.                                          *)
LEMMA FieldFail ==
  ASSUME TypeInv, FieldInv, NEW s, NEW r, Fail(s, r)
  PROVE  FieldInv'
<1>1. Running(s, r) /\ asked' = asked /\ handler' = handler
  BY FailCases
<1>2. status = "running" /\ r \in Roles /\ s \in Stages /\ (s = "uar" => r = "main")
  BY <1>1, RunningAt
<1>3. \A q \in Roles : Fields(field, pos, q) /\ (Has(field, "qp", q) => handler[q] = Resolved)
  BY <1>2 DEF FieldInv, Going
<1>4. CASE ~Silent(s)
  BY <1>4, FailCases DEF FieldInv, Going
<1>5. CASE Silent(s)
  <2>1. field' = IF s = "dbr_mem" THEN WithoutQp(field, r) ELSE field
    BY <1>5, FailCases
  <2>2. field \in [Roles -> [Kinds -> Resources \cup {Null}]]
    BY DEF TypeInv, TypeOK
  <2>3. \A q \in Roles, k \in Kinds : Has(field', k, q) <=>
          Has(field, k, q) /\ ~(s = "dbr_mem" /\ q = r /\ k \in QpPathKinds)
    BY <1>2, <2>1, <2>2, WithoutQpIs
  <2>4. \A q \in Roles : q # r \/ s # "dbr_mem" => field'[q] = field[q]
    BY <1>2, <2>1, <2>2, WithoutQpIs
  <2>5. "uar" \in Kinds /\ "main" \in Roles /\ "uar" \notin QpPathKinds
    BY DEF Kinds, Roles, QpPathKinds
  <2>6. Has(field, "uar", "main") => Has(field', "uar", "main")
    BY <2>3, <2>5
  <2>7. ASSUME NEW q \in Roles PROVE Fields(field', pos', q)
    <3>0. Fields(field, pos, q)
      BY <1>3
    <3>1. CASE s = "uar"
      <4>1. pos' = pos + 1 /\ field'[q] = field[q]
        BY <1>5, <2>4, <3>1, FailCases
      <4>2. \A k \in Stepped : (Past(pos', k, q) <=> Past(pos, k, q)) \/ (k = "uar" /\ Past(pos', k, q))
        BY <1>1, <3>1, <4>1, PastNext
      <4> QED BY <2>6, <3>0, <4>1, <4>2, SameFields
    <3>2. CASE s # "uar" /\ q # r
      <4>1. pos' = pos + 3 /\ field'[q] = field[q]
        BY <1>5, <2>4, <3>2, FailCases
      <4>2. s = "cq_copy" \/ s = "dbr_mem"
        BY <1>5, <3>2 DEF Silent
      <4>3. \A k \in Stepped : (Past(pos', k, q) <=> Past(pos, k, q)) \/ (k = "uar" /\ Past(pos', k, q))
        BY <1>1, <3>2, <4>1, <4>2, CqSkip, QpSkip
      <4> QED BY <2>6, <3>0, <4>1, <4>3, SameFields
    <3>3. CASE s = "cq_copy" /\ q = r
      <4>1. pos' = pos + 3 /\ field' = field
        BY <1>5, <2>1, <3>3, FailCases
      <4>2. \A k \in Stepped : Past(pos', k, r) <=> Past(pos, k, r) \/ k \in {"cq_copy", "cq_umem", "cq"}
        BY <1>1, <1>2, <3>3, <4>1, CqSkip
      <4>3. QpKinds \subseteq Stepped \ {"cq_copy", "cq_umem", "cq"}
        BY KindOfDbr DEF QpKinds, Kinds, Stepped
      <4>4. {"cq_copy", "cq", "qp", "gverbs"} \subseteq Stepped /\ Kinds \subseteq Stepped
        BY DEF Kinds, Stepped
      <4> QED BY <3>0, <3>3, <4>1, <4>2, <4>3, <4>4 DEF Fields
    <3>4. CASE s = "dbr_mem" /\ q = r
      <4>1. pos' = pos + 3
        BY <1>5, <3>4, FailCases
      <4>2. \A k \in Stepped : Past(pos', k, r) <=> Past(pos, k, r) \/ k \in {"dbr_mem", "dbr_host", "dbr_umem", "qp"}
        BY <1>1, <1>2, <3>4, <4>1, QpSkip
      <4>3. \A k \in Kinds : Has(field', k, r) <=> Has(field, k, r) /\ k \notin QpPathKinds
        BY <1>2, <2>3, <3>4
      <4>4. /\ QpPathKinds = {"qp_attr", "qp_umem", "qp_mem", "dbr_umem", "dbr_mem", "dbr_host"}
            /\ {"ring", "cq_attr", "cq_mem", "cq_umem", "cq", "qp", "gverbs", "qp_attr",
                "qp_umem", "dbr_umem", "dbr_mem", "dbr_host"} \subseteq Kinds
            /\ {"cq_copy", "cq", "qp", "gverbs", "ring", "cq_attr", "cq_mem", "cq_umem"} \subseteq Stepped
            /\ Kinds \subseteq Stepped
        BY DEF QpPathKinds, Kinds, Stepped
      <4>5. \A k \in Kinds : Has(field', k, r) => field'[r][k] = <<k, r>> /\ Past(pos', k, r)
        <5>1. \A k \in Kinds : k \notin QpPathKinds => field'[r][k] = field[r][k]
          BY <1>2, <2>1, <2>2, <3>4, WithoutQpIs
        <5> QED BY <3>0, <3>4, <4>2, <4>3, <4>4, <5>1 DEF Fields
      <4>6. \A k \in CqKinds : Past(pos', k, r) /\ ~Past(pos', "cq", r) => Has(field', k, r)
        BY <3>0, <3>4, <4>2, <4>3, <4>4 DEF Fields, CqKinds
      <4>7. Past(pos', "ring", r) /\ ~Past(pos', "cq", r) => (Has(field', "ring", r) <=> ~Past(pos', "cq_copy", r))
        BY <3>0, <3>4, <4>2, <4>3, <4>4 DEF Fields
      <4>8. Past(pos', "qp", r)
        BY <4>2, <4>4
      <4>9. ~Has(field', "qp", r)
        <5>1. ~Past(pos, "qp", r)
          BY <1>1, <1>2, <3>4, AtIs, RunningChain
        <5> QED BY <3>0, <3>4, <4>3, <4>4, <5>1 DEF Fields
      <4>10. Past(pos', "gverbs", r) => Has(field', "gverbs", r)
        BY <3>0, <3>4, <4>2, <4>3, <4>4 DEF Fields
      <4>11. Has(field', "cq", r) => Has(field', "cq_mem", r) /\ Has(field', "cq_umem", r)
        BY <3>0, <3>4, <4>3, <4>4 DEF Fields
      <4>12. Has(field', "gverbs", r) => Has(field', "qp", r)
        BY <3>0, <3>4, <4>3, <4>4 DEF Fields
      <4>13. /\ ~Has(field', "dbr_mem", r) /\ ~Has(field', "dbr_host", r) /\ ~Has(field', "qp_attr", r)
             /\ ~Has(field', "qp_umem", r) /\ ~Has(field', "dbr_umem", r)
        BY <4>3, <4>4
      <4> QED BY <3>4, <4>5, <4>6, <4>7, <4>8, <4>9, <4>10, <4>11, <4>12, <4>13 DEF Fields
    <3> QED BY <1>5, <3>1, <3>2, <3>3, <3>4 DEF Silent
  <2>8. \A q \in Roles : Fields(field, pos, q)'
    BY <1>1, <2>7, FieldsFrozen
  <2>9. \A q \in Roles : Has(field, "qp", q)' => handler'[q] = Resolved'
    <3>1. "qp" \in Kinds
      BY DEF Kinds
    <3>2. \A q \in Roles : Has(field', "qp", q) => handler[q] = Resolved
      BY <1>3, <2>3, <3>1
    <3> QED BY <1>1, <3>2, AskedFrozen DEF Has
  <2> QED BY <2>8, <2>9 DEF FieldInv
<1> QED BY <1>4, <1>5

(* The structure is not read from once a call has failed, and only a       *)
(* creation changes it.                                                    *)
LEMMA FieldRest ==
  ASSUME TypeInv, FieldInv, Release \/ Destroy \/ FlatListCreate \/ FlatListDestroy \/ UNCHANGED vars
  PROVE  FieldInv'
<1>1. CASE Destroy
  BY <1>1 DEF Destroy, FieldInv, Going
<1>2. CASE ~Destroy
  <2>1. UNCHANGED <<asked, pos, field, handler, status>>
    BY <1>2 DEF Release, FlatListCreate, FlatListDestroy, vars, qpVars
  <2>2. SUFFICES ASSUME Going', NEW q \in Roles
                 PROVE  Fields(field, pos, q)' /\ (Has(field, "qp", q)' => handler'[q] = Resolved')
    BY DEF FieldInv
  <2>3. Fields(field, pos, q) /\ (Has(field, "qp", q) => handler[q] = Resolved)
    BY <2>1, <2>2 DEF FieldInv, Going
  <2>4. Fields(field, pos, q)'
    BY <2>1, <2>3, FieldsFrozen
  <2>5. Has(field, "qp", q)' => handler'[q] = Resolved'
    BY <2>1, <2>3, AskedFrozen DEF Has
  <2> QED BY <2>4, <2>5
<1> QED BY <1>1, <1>2

-----------------------------------------------------------------------------
(* LiveInv: what is live while a call goes on.                             *)
LEMMA StepSteady ==
  ASSUME TypeInv, NEW s, NEW r, Running(s, r), Fields(field, pos, r),
         NEW g, NEW p,
         \A k \in Stepped : Past(p, k, r) <=>
           Past(pos, k, r) \/ k = s \/ (s = "dbr_mem" /\ k = "dbr_host"),
         \A k \in Kinds : Has(g, k, r) <=> IF s = "cq_copy" THEN Has(field, k, r) /\ k # "ring"
                                           ELSE Has(field, k, r) \/ k = KindOf(s),
         NEW k \in Kinds
  PROVE  Steady(g, p, k, r) <=>
           /\ Steady(field, pos, k, r) \/ (s # "cq_copy" /\ k = KindOf(s))
           /\ s = "cq_copy" => k # "ring"
           /\ s = "cq" => k # "cq_attr"
           /\ s = "qp" => k # "qp_attr"
<1>1. s \in Stages /\ KindOf(s) = (IF s = "dbr_mem" THEN KindOf("dbr_mem") ELSE s) /\ r \in Roles
  BY RunningAt DEF KindOf
<1>2. /\ {"cq_attr", "ring", "cq_mem", "cq_umem", "cq", "qp_attr", "qp", "dbr_mem", "dbr_host"} \subseteq Kinds
      /\ {"cq", "cq_copy", "ring", "cq_attr", "qp"} \subseteq Stepped /\ Kinds \subseteq Stepped
  BY DEF Kinds, Stepped
<1>3. (Past(p, "cq", r) <=> Past(pos, "cq", r) \/ s = "cq") /\ (s = "cq" => ~Past(pos, "cq", r))
  BY <1>2, AtIs
<1>4. (Has(g, "cq", r) <=> Has(field, "cq", r) \/ s = "cq") /\ (Has(g, "qp", r) <=> Has(field, "qp", r) \/ s = "qp")
  BY <1>1, <1>2, KindOfDbr
<1>5. Has(g, k, r) <=> IF s = "cq_copy" THEN Has(field, k, r) /\ k # "ring"
                                           ELSE Has(field, k, r) \/ k = KindOf(s)
  OBVIOUS
<1>6. s \in {"cq_attr", "cq_mem", "ring", "cq_copy", "cq_umem"} => ~Past(pos, "cq", r)
  BY <1>1, AtIs, RunningChain
<1>7. s = "qp_attr" => ~Has(field, "qp", r)
  BY <1>1, <1>2, AtIs, RunningChain DEF Fields
<1>8. s = "cq" => ~Has(field, "ring", r)
  BY <1>1, <1>2, AtIs, RunningChain DEF Fields
<1>9. CASE k \in {"cq_attr", "ring"}
  BY <1>1, <1>3, <1>5, <1>6, <1>8, <1>9, KindOfDbr DEF Steady
<1>10. CASE k \in {"cq_mem", "cq_umem"}
  BY <1>1, <1>3, <1>4, <1>5, <1>6, <1>10, KindOfDbr DEF Steady
<1>11. CASE k = "qp_attr"
  BY <1>1, <1>4, <1>5, <1>7, <1>11, KindOfDbr DEF Steady
<1>12. CASE k \notin {"cq_attr", "ring", "cq_mem", "cq_umem", "qp_attr"}
  BY <1>5, <1>12 DEF Steady
<1> QED BY <1>9, <1>10, <1>11, <1>12

(* A QP that a step does not touch.                                        *)
LEMMA SameSteady ==
  ASSUME NEW f, NEW g, NEW n, NEW p, NEW q, g[q] = f[q], Past(p, "cq", q) <=> Past(n, "cq", q)
  PROVE  \A k : Steady(g, p, k, q) <=> Steady(f, n, k, q)
<1>1. \A k : Has(g, k, q) <=> Has(f, k, q)
  BY DEF Has
<1> QED BY <1>1 DEF Steady

(* A successful stage adds what it makes and drops its temporaries.        *)
LEMMA LiveAcquire ==
  ASSUME TypeInv, FieldInv, LiveInv, NEW s, NEW r, Acquire(s, r)
  PROVE  LiveInv'
<1>1. Running(s, r) /\ pos' = pos + 1 /\ undo' = undo /\ leaky' = leaky
  BY DEF Acquire
<1>2. /\ status = "running" /\ undo = {} /\ r \in Roles /\ s \in Stages /\ asked' = asked /\ Going
      /\ (s = "uar" => r = "main")
  BY <1>1, RunningAt, AcquireFields DEF Going
<1>3. /\ live \subseteq Resources
      /\ \A k \in Kinds, q \in Roles : <<k, q>> \in live <=> Steady(field, pos, k, q)
      /\ leaky \cap {"leftover", "emulated", "dmabuf"} = {}
  BY <1>2 DEF LiveInv
<1>4. live' = (live \cup (IF s = "cq_copy" THEN {} ELSE {<<KindOf(s), r>>})) \ Temporary(s, r)
  BY DEF Acquire
<1>5. Temporary(s, r) = CASE s = "cq_copy" -> {<<"ring", r>>}
                          [] s = "cq" -> {<<"cq_attr", r>>}
                          [] s = "qp" -> {<<"qp_attr", r>>}
                          [] OTHER -> {}
  BY DEF Temporary
<1>6. \A k, q : <<k, q>> \in live' <=>
        /\ <<k, q>> \in live \/ (s # "cq_copy" /\ k = KindOf(s) /\ q = r)
        /\ s = "cq_copy" => ~(k = "ring" /\ q = r)
        /\ s = "cq" => ~(k = "cq_attr" /\ q = r)
        /\ s = "qp" => ~(k = "qp_attr" /\ q = r)
  <2> SUFFICES ASSUME NEW k, NEW q
               PROVE  <<k, q>> \in live' <=>
        /\ <<k, q>> \in live \/ (s # "cq_copy" /\ k = KindOf(s) /\ q = r)
        /\ s = "cq_copy" => ~(k = "ring" /\ q = r)
        /\ s = "cq" => ~(k = "cq_attr" /\ q = r)
        /\ s = "qp" => ~(k = "qp_attr" /\ q = r)
    OBVIOUS
  <2>1. <<k, q>> \in (IF s = "cq_copy" THEN {} ELSE {<<KindOf(s), r>>}) <=>
          (s # "cq_copy" /\ k = KindOf(s) /\ q = r)
    OBVIOUS
  <2>2. <<k, q>> \in Temporary(s, r) <=>
          \/ s = "cq_copy" /\ k = "ring" /\ q = r
          \/ s = "cq" /\ k = "cq_attr" /\ q = r
          \/ s = "qp" /\ k = "qp_attr" /\ q = r
    BY <1>5
  <2> QED BY <1>4, <2>1, <2>2
<1>7. \A k \in Stepped, q \in Roles : Past(pos', k, q) <=>
           Past(pos, k, q) \/ (q = r /\ (k = s \/ (s = "dbr_mem" /\ k = "dbr_host")))
  BY <1>1, PastNext
<1>8. ASSUME NEW k \in Kinds, NEW q \in Roles
      PROVE  <<k, q>> \in live' <=> Steady(field', pos', k, q)
  <2>1. CASE q # r
    <3>1. field'[q] = field[q]
      <4>1. field \in [Roles -> [Kinds -> Resources \cup {Null}]]
        BY DEF TypeInv, TypeOK
      <4> QED BY <1>2, <2>1, <4>1 DEF Acquire
    <3>2. Past(pos', "cq", q) <=> Past(pos, "cq", q)
      BY <1>7, <2>1 DEF Stepped, Kinds
    <3>3. Steady(field', pos', k, q) <=> Steady(field, pos, k, q)
      BY <3>1, <3>2, SameSteady
    <3> QED BY <1>3, <1>6, <2>1, <3>3
  <2>2. CASE q = r
    <3>1. \A l \in Stepped : Past(pos', l, r) <=>
             Past(pos, l, r) \/ l = s \/ (s = "dbr_mem" /\ l = "dbr_host")
      BY <1>2, <1>7
    <3>2. \A l \in Kinds : Has(field', l, r) <=> IF s = "cq_copy" THEN Has(field, l, r) /\ l # "ring"
                                             ELSE Has(field, l, r) \/ l = KindOf(s)
      BY <1>2, AcquireFields
    <3>3. Fields(field, pos, r)
      BY <1>2 DEF FieldInv
    <3>4. Steady(field', pos', k, r) <=>
           /\ Steady(field, pos, k, r) \/ (s # "cq_copy" /\ k = KindOf(s))
           /\ s = "cq_copy" => k # "ring"
           /\ s = "cq" => k # "cq_attr"
           /\ s = "qp" => k # "qp_attr"
      BY <1>1, <3>1, <3>2, <3>3, StepSteady
    <3> QED BY <1>3, <1>6, <2>2, <3>4
  <2> QED BY <2>1, <2>2
<1>9. live' \subseteq Resources
  BY <1>2, <1>3, <1>4, KindFacts DEF Resources
<1>10. \A k \in Kinds, q \in Roles : <<k, q>> \in live' <=> Steady(field, pos, k, q)' \/ \E u \in undo' : u.of = <<k, q>>
  BY <1>1, <1>2, <1>8, SteadyFrozen
<1> QED BY <1>1, <1>2, <1>3, <1>9, <1>10 DEF LiveInv

-----------------------------------------------------------------------------
(* A path that releases all there is, each thing at its turn.              *)
PathTurn(pk, tf, r, k, q) == IF q = r /\ k \in pk THEN tf[k] ELSE Turns(q) + EndTurn[k]
(* The releases S name each live resource once, at the turn of its path:   *)
(* pk and tf are the kinds and turns of the function that failed, for QP   *)
(* r.                                                                      *)
Match(S, pk, tf, r) ==
  /\ \A u \in S : /\ u.of \in live /\ u.turn = PathTurn(pk, tf, r, u.of[1], u.of[2])
                  /\ u.of[1] # "dbr_host" => u.by = "release"
  /\ \A u, v \in S : u.of = v.of => u = v
  /\ \A x \in live : \E u \in S : u.of = x

(* The releases of destroy_qp_hl_internal, one by one.                     *)
EndRec(k, q) == [turn |-> Turns(q) + EndTurn[k], of |-> <<k, q>>, by |-> Call(<<k, q>>)]
InEnd(f, k, q) == Has(f, k, q) /\ (k \in {"cq", "cq_umem", "cq_mem"} => Has(f, "cq", q))

(* What destroying a structure releases: what it points to, at its turn.   *)
LEMMA DestroyAllIs ==
  ASSUME asked.group \in BOOLEAN, NEW f,
         \A q \in Roles, k \in Kinds : Has(f, k, q) => f[q][k] = <<k, q>> /\ Planned(q),
         NEW u
  PROVE  u \in DestroyAll(f) <=>
           \E q \in Roles, k \in EndKinds : InEnd(f, k, q) /\ u = EndRec(k, q)
<1>1. \A k \in EndKinds : k \in Kinds
  BY DEF EndKinds, Kinds
<1>2. ASSUME NEW q \in Roles
      PROVE  u \in DestroyInternal(f, q) <=>
               \E k \in EndKinds : InEnd(f, k, q) /\ u = EndRec(k, q)
  <2>1. u \in DestroyInternal(f, q) <=>
           \E k \in EndKinds :
             /\ f[q][k] # Null /\ (k \in {"cq", "cq_umem", "cq_mem"} => f[q]["cq"] # Null)
             /\ u = [turn |-> Turns(q) + EndTurn[k], of |-> f[q][k], by |-> Call(f[q][k])]
    BY EndIs
  <2>2. \A k \in EndKinds : f[q][k] # Null => f[q][k] = <<k, q>>
    BY <1>1 DEF Has
  <2> QED BY <2>1, <2>2 DEF Has, InEnd, EndRec
<1>3. u \in DestroyAll(f) <=> u \in DestroyInternal(f, "main")
                              \/ (asked.group /\ u \in DestroyInternal(f, "companion"))
  BY DEF DestroyAll
<1>4. Roles = {"main", "companion"}
  BY DEF Roles
<1>5. \A k \in EndKinds : Has(f, k, "companion") => asked.group
  BY <1>1, <1>4 DEF Planned
<1>6. \A k, q : InEnd(f, k, q) => Has(f, k, q)
  BY DEF InEnd
<1> QED BY <1>2, <1>3, <1>4, <1>5, <1>6

(* The structure points only to what the call is about.                    *)
LEMMA HasPlanned ==
  ASSUME TypeInv, FieldInv, Going
  PROVE  \A q \in Roles, k \in Kinds : Has(field, k, q) => field[q][k] = <<k, q>> /\ Planned(q)
<1>1. \A q \in Roles : Fields(field, pos, q)
  BY DEF FieldInv
<1>2. ASSUME NEW q \in Roles, NEW k \in Kinds, Has(field, k, q) PROVE Planned(q)
  <2>1. When(k, q) < pos /\ asked.group \in BOOLEAN
    BY <1>1, <1>2 DEF Fields, Past, TypeInv, AskedOK
  <2>2. Len(Plan) \in 14 .. 27
    BY <2>1, WhenEnds
  <2>3. pos \in 1 .. Len(Plan) + 1
    BY DEF TypeInv, TypeOK
  <2>4. \A n \in 14 .. 27 : \A i \in 1 .. n + 1 : ~(Never < i)
    BY DEF Never
  <2>5. ~(Never < pos)
    BY <2>2, <2>3, <2>4, Zenon
  <2>6. ~asked.group => When(k, "companion") = Never
    BY WhenSingle
  <2> QED BY <2>1, <2>5, <2>6 DEF Planned, Roles
<1> QED BY <1>1, <1>2 DEF Fields

(* With nothing to undo, what is live is what the structure holds.         *)
LEMMA LiveIs ==
  ASSUME TypeInv, FieldInv, LiveInv, Going, undo = {}
  PROVE  /\ live \subseteq Resources
         /\ \A k \in Kinds, q \in Roles : <<k, q>> \in live <=> Steady(field, pos, k, q)
         /\ \A k \in Kinds, q \in Roles : Steady(field, pos, k, q) => Has(field, k, q)
BY DEF LiveInv, Steady

(* What is steady but has a temporary place is in the CQ or QP being made. *)
LEMMA WholeEnds ==
  ASSUME TypeInv, NEW q \in Roles, Fields(field, pos, q),
         NEW k \in Kinds, Steady(field, pos, k, q),
         Past(pos, "gverbs", q) \/ ~Past(pos, "cq_attr", q)
           \/ (Past(pos, "cq", q) /\ ~Past(pos, "qp_attr", q)),
         pos \in 1 .. 28
  PROVE  k \in EndKinds /\ (k \in {"cq", "cq_umem", "cq_mem"} => Has(field, "cq", q))
<1>1. Has(field, k, q) /\ Past(pos, k, q)
  BY DEF Steady, Fields
<1>2. asked.group \in BOOLEAN
  BY DEF TypeInv, AskedOK
<1> DEFINE Chain ==
         /\ Past(pos, "cq_mem", q) => Past(pos, "cq_attr", q)
         /\ Past(pos, "ring", q) => Past(pos, "cq_mem", q)
         /\ Past(pos, "cq_copy", q) => Past(pos, "ring", q)
         /\ Past(pos, "cq_umem", q) => Past(pos, "cq_copy", q)
         /\ Past(pos, "cq", q) => Past(pos, "cq_umem", q)
         /\ Past(pos, "qp_attr", q) => Past(pos, "cq", q)
         /\ Past(pos, "qp_mem", q) => Past(pos, "qp_attr", q)
         /\ Past(pos, "qp_umem", q) => Past(pos, "qp_mem", q)
         /\ Past(pos, "dbr_mem", q) => Past(pos, "qp_umem", q)
         /\ Past(pos, "dbr_umem", q) => Past(pos, "dbr_mem", q)
         /\ Past(pos, "qp", q) => Past(pos, "dbr_umem", q)
         /\ Past(pos, "gverbs", q) => Past(pos, "qp", q)
<1>3. Chain
  BY <1>2, PastChain
<1>4. /\ Past(pos, "gverbs", q) => Has(field, "qp", q)
      /\ Has(field, "qp", q) => Has(field, "cq", q)
      /\ Past(pos, "gverbs", q) => Past(pos, "cq", q)
  BY <1>3 DEF Fields
<1>5. k \in {"cq_attr", "ring", "cq_mem", "cq_umem"} => Past(pos, "cq_attr", q)
  BY <1>1, <1>3
<1>6. k \notin {"cq_attr", "ring"}
  BY <1>4, <1>5 DEF Steady
<1>7. k \in {"cq_mem", "cq_umem"} => Has(field, "cq", q)
  BY <1>4, <1>5 DEF Steady
<1>8. k # "qp_attr"
  BY <1>1, <1>3, <1>4 DEF Steady
<1>9. k \in EndKinds
  BY <1>6, <1>8 DEF Kinds, EndKinds
<1> QED BY <1>1, <1>7, <1>9

(* Destroying all of it.                                                   *)
LEMMA MatchDestroy ==
  ASSUME TypeInv, FieldInv, LiveInv, Going, undo = {}, pos \in 1 .. 28,
         \A q \in Roles : Past(pos, "gverbs", q) \/ ~Past(pos, "cq_attr", q)
                            \/ (Past(pos, "cq", q) /\ ~Past(pos, "qp_attr", q)),
         NEW r
  PROVE  Match(DestroyAll(field), {}, CqTurn, r)
<1> DEFINE S == DestroyAll(field)
<1>1. \A u : u \in S <=> \E q \in Roles, k \in EndKinds : InEnd(field, k, q) /\ u = EndRec(k, q)
  <2>1. asked.group \in BOOLEAN
    BY DEF TypeInv, AskedOK
  <2>2. \A q \in Roles, k \in Kinds : Has(field, k, q) => field[q][k] = <<k, q>> /\ Planned(q)
    BY HasPlanned
  <2> TAKE u
  <2>3. u \in DestroyAll(field) <=>
           \E q \in Roles, k \in EndKinds : InEnd(field, k, q) /\ u = EndRec(k, q)
    BY <2>1, <2>2, DestroyAllIs
  <2> QED BY <2>3
<1>2. \A k \in EndKinds : k \in Kinds
  BY DEF EndKinds, Kinds
<1>3. /\ live \subseteq Resources
      /\ \A k \in Kinds, q \in Roles : <<k, q>> \in live <=> Steady(field, pos, k, q)
      /\ \A k \in Kinds, q \in Roles : Steady(field, pos, k, q) => Has(field, k, q)
  BY LiveIs
<1>4. \A q \in Roles, k \in EndKinds : InEnd(field, k, q) <=> <<k, q>> \in live
  <2> TAKE q \in Roles, k \in EndKinds
  <2>1. k \notin {"cq_attr", "ring", "qp_attr"}
    BY DEF EndKinds
  <2>2. InEnd(field, k, q) => Steady(field, pos, k, q)
    BY <2>1 DEF Steady, InEnd
  <2>3. Steady(field, pos, k, q) => InEnd(field, k, q)
    BY <1>2, <1>3, WholeEnds DEF FieldInv, InEnd
  <2> QED BY <1>2, <1>3, <2>2, <2>3
<1>5. \A x \in live : \E q \in Roles, k \in EndKinds : x = <<k, q>>
  <2> SUFFICES ASSUME NEW x \in live PROVE \E q \in Roles, k \in EndKinds : x = <<k, q>>
    OBVIOUS
  <2>1. PICK k \in Kinds, q \in Roles : x = <<k, q>>
    BY <1>3 DEF Resources
  <2>2. k \in EndKinds
    BY <1>3, <2>1, WholeEnds DEF FieldInv
  <2> QED BY <2>1, <2>2
<1>6. \A k, q : /\ EndRec(k, q).of = <<k, q>> /\ EndRec(k, q).turn = PathTurn({}, CqTurn, r, k, q)
                /\ k # "dbr_host" => EndRec(k, q).by = "release"
                /\ EndRec(k, q).of[1] = k /\ EndRec(k, q).of[2] = q
  BY DEF PathTurn, Call, EndRec
<1> HIDE DEF S
<1>7. \A u \in S : /\ u.of \in live /\ u.turn = PathTurn({}, CqTurn, r, u.of[1], u.of[2])
                   /\ u.of[1] # "dbr_host" => u.by = "release"
  <2> TAKE u \in S
  <2>1. PICK q \in Roles, k \in EndKinds : InEnd(field, k, q) /\ u = EndRec(k, q)
    BY <1>1
  <2>2. u.of = <<k, q>> /\ u.of[1] = k /\ u.of[2] = q
    BY <1>6, <2>1
  <2>3. u.turn = PathTurn({}, CqTurn, r, k, q) /\ (k # "dbr_host" => u.by = "release")
    BY <1>6, <2>1
  <2>4. u.of \in live
    BY <1>4, <2>1, <2>2
  <2> QED BY <2>2, <2>3, <2>4
<1>8. \A u, v \in S : u.of = v.of => u = v
  <2> SUFFICES ASSUME NEW u \in S, NEW v \in S, u.of = v.of PROVE u = v
    OBVIOUS
  <2>1. PICK q \in Roles, k \in EndKinds : u = EndRec(k, q)
    BY <1>1
  <2>2. PICK p \in Roles, l \in EndKinds : v = EndRec(l, p)
    BY <1>1
  <2>3. k = l /\ q = p
    BY <1>6, <2>1, <2>2
  <2> QED BY <2>1, <2>2, <2>3
<1>9. \A x \in live : \E u \in S : u.of = x
  BY <1>1, <1>4, <1>5, <1>6
<1> QED BY <1>7, <1>8, <1>9 DEF Match, S

(* The releases of the error paths of create_cq and create_qp, one by one. *)
CqRec(k, r) == [turn |-> CqTurn[k], of |-> <<k, r>>, by |-> Call(<<k, r>>)]
QpRec(k, r) == [turn |-> QpTurn[k], of |-> <<k, r>>,
                by |-> IF k # "dbr_host" THEN Call(<<k, r>>)
                       ELSE IF Resolved = "CPU_PROXY" THEN "free" ELSE "release"]

(* What the two error paths release.                                       *)
LEMMA CqErrorPathIs ==
  ASSUME TypeInv, FieldInv, Going, NEW r \in Roles, NEW u
  PROVE  u \in CqErrorPath(field, r) <=> \E k \in CqPathKinds : Has(field, k, r) /\ u = CqRec(k, r)
<1>1. \A k \in CqPathKinds : field[r][k] # Null => field[r][k] = <<k, r>>
  BY HasPlanned DEF Has, CqPathKinds, Kinds
<1> DEFINE Raw(k) == field[r][k] # Null /\ u = [turn |-> CqTurn[k], of |-> field[r][k], by |-> Call(field[r][k])]
<1>2. u \in CqErrorPath(field, r) <=> \E k \in CqPathKinds : Raw(k)
  BY CqPathIs
<1>3. \A k \in CqPathKinds : Raw(k) <=> Has(field, k, r) /\ u = CqRec(k, r)
  BY <1>1 DEF Has, CqRec
<1> HIDE DEF Raw
<1> QED BY <1>2, <1>3

LEMMA QpErrorPathIs ==
  ASSUME TypeInv, FieldInv, Going, NEW r \in Roles, NEW u
  PROVE  u \in QpErrorPath(field, r) <=> \E k \in QpPathKinds : Has(field, k, r) /\ u = QpRec(k, r)
<1>1. \A k \in QpPathKinds : field[r][k] # Null => field[r][k] = <<k, r>>
  BY HasPlanned DEF Has, QpPathKinds, Kinds
<1> DEFINE Raw(k) == field[r][k] # Null /\ u = [turn |-> QpTurn[k], of |-> field[r][k],
                       by |-> IF k # "dbr_host" THEN Call(field[r][k])
                              ELSE IF Resolved = "CPU_PROXY" THEN "free" ELSE "release"]
<1>2. u \in QpErrorPath(field, r) <=> \E k \in QpPathKinds : Raw(k)
  BY QpPathIs
<1>3. \A k \in QpPathKinds : Raw(k) <=> Has(field, k, r) /\ u = QpRec(k, r)
  BY <1>1 DEF Has, QpRec
<1> HIDE DEF Raw
<1> QED BY <1>2, <1>3

(* What a release is of, when and by which call.                           *)
LEMMA RecFacts ==
  ASSUME NEW k, NEW q
  PROVE  /\ EndRec(k, q).of = <<k, q>> /\ CqRec(k, q).of = <<k, q>> /\ QpRec(k, q).of = <<k, q>>
         /\ EndRec(k, q).turn = Turns(q) + EndTurn[k] /\ CqRec(k, q).turn = CqTurn[k] /\ QpRec(k, q).turn = QpTurn[k]
         /\ k # "dbr_host" => EndRec(k, q).by = "release" /\ CqRec(k, q).by = "release" /\ QpRec(k, q).by = "release"
         /\ <<k, q>>[1] = k /\ <<k, q>>[2] = q
BY DEF EndRec, CqRec, QpRec, Call

(* A running call is at a stage.                                           *)
LEMMA RunningPos ==
  ASSUME TypeInv, NEW s, NEW r, Running(s, r)
  PROVE  pos \in 1 .. 28
<1>1. asked.group \in BOOLEAN /\ pos \in 1 .. Len(Plan) /\ Len(Plan) \in 14 .. 27
  BY RunningAt, WhenEnds
<1>2. \A n \in 14 .. 27 : 1 .. n \subseteq 1 .. 28
  OBVIOUS
<1> QED BY <1>1, <1>2, Zenon

(* The error path of the CQ, then that of its callers.                     *)
LEMMA MatchCq ==
  ASSUME TypeInv, FieldInv, LiveInv, NEW s, NEW r, Running(s, r),
         s \in {"cq_attr", "cq_mem", "ring", "cq_copy", "cq_umem", "cq"}
  PROVE  Match(CqErrorPath(field, r) \cup DestroyAll(field), CqPathKinds, CqTurn, r)
<1> DEFINE E == CqErrorPath(field, r)
           D == DestroyAll(field)
           S == E \cup D
<1>0. /\ Going /\ undo = {} /\ r \in Roles /\ asked.group \in BOOLEAN /\ s # "uar" /\ pos \in 1 .. 28
      /\ \A q \in Roles : Fields(field, pos, q)
  BY RunningAt, RunningPos DEF Going, FieldInv
<1>1. \A u : u \in E <=> \E k \in CqPathKinds : Has(field, k, r) /\ u = CqRec(k, r)
  BY <1>0, CqErrorPathIs
<1>2. \A u : u \in D <=> \E q \in Roles, k \in EndKinds : InEnd(field, k, q) /\ u = EndRec(k, q)
  <2>1. \A q \in Roles, k \in Kinds : Has(field, k, q) => field[q][k] = <<k, q>> /\ Planned(q)
    BY <1>0, HasPlanned
  <2> QED BY <1>0, <2>1, DestroyAllIs
<1>3. /\ live \subseteq Resources
      /\ \A k \in Kinds, q \in Roles : <<k, q>> \in live <=> Steady(field, pos, k, q)
      /\ \A k \in Kinds, q \in Roles : Steady(field, pos, k, q) => Has(field, k, q)
  BY <1>0, LiveIs
<1>4. /\ CqPathKinds \subseteq Kinds /\ EndKinds \subseteq Kinds
      /\ "qp_attr" \notin CqPathKinds /\ "qp_attr" \notin EndKinds
      /\ \A k \in EndKinds : k \notin {"cq_attr", "ring"}
      /\ Kinds \subseteq CqPathKinds \cup EndKinds \cup {"qp_attr"}
      /\ "cq" \in EndKinds /\ "cq" \notin CqPathKinds
      /\ {"cq_umem", "cq_mem"} \subseteq CqPathKinds
      /\ CqPathKinds = {"cq_attr", "cq_umem", "ring", "cq_mem"}
  BY DEF CqPathKinds, EndKinds, Kinds
<1>5. ~Past(pos, "cq", r) /\ ~Has(field, "cq", r) /\ ~Has(field, "qp_attr", r) /\ ~Has(field, "qp", r)
  <2>1. ~Past(pos, "cq", r)
    BY <1>0, AtIs, RunningChain
  <2>2. ~Past(pos, "qp_attr", r) /\ ~Past(pos, "qp", r)
    BY <1>0, <2>1, RunningChain
  <2>3. {"cq", "qp_attr", "qp"} \subseteq Kinds
    BY DEF Kinds
  <2> QED BY <1>0, <2>1, <2>2, <2>3 DEF Fields
<1>6. \A k \in CqPathKinds : Has(field, k, r) <=> <<k, r>> \in live
  <2> TAKE k \in CqPathKinds
  <2>1. Has(field, k, r) => Steady(field, pos, k, r)
    BY <1>4, <1>5 DEF Steady
  <2> QED BY <1>0, <1>3, <1>4, <2>1
<1>7. \A q \in Roles, k \in EndKinds : InEnd(field, k, q) => <<k, q>> \in live /\ ~(q = r /\ k \in CqPathKinds)
  <2> TAKE q \in Roles, k \in EndKinds
  <2>1. InEnd(field, k, q) => Steady(field, pos, k, q)
    BY <1>4 DEF Steady, InEnd
  <2>2. InEnd(field, k, q) => ~(q = r /\ k \in CqPathKinds)
    BY <1>4, <1>5 DEF InEnd
  <2> QED BY <1>3, <1>4, <2>1, <2>2
<1>8. \A k \in Kinds, q \in Roles : <<k, q>> \in live =>
        (q = r /\ k \in CqPathKinds) \/ (k \in EndKinds /\ InEnd(field, k, q))
  <2> SUFFICES ASSUME NEW k \in Kinds, NEW q \in Roles, <<k, q>> \in live, ~(q = r /\ k \in CqPathKinds)
               PROVE  k \in EndKinds /\ InEnd(field, k, q)
    OBVIOUS
  <2>1. Steady(field, pos, k, q) /\ Has(field, k, q)
    BY <1>3
  <2>2. CASE q = r
    BY <1>4, <1>5, <2>1, <2>2 DEF InEnd
  <2>3. CASE q # r
    <3>1. Past(pos, "gverbs", q) \/ ~Past(pos, "cq_attr", q)
      BY <1>0, <2>3, OtherRole
    <3> QED BY <1>0, <2>1, <3>1, WholeEnds DEF InEnd
  <2> QED BY <2>2, <2>3
<1> HIDE DEF E, D
<1>9. \A u \in S : /\ u.of \in live /\ u.turn = PathTurn(CqPathKinds, CqTurn, r, u.of[1], u.of[2])
                   /\ u.of[1] # "dbr_host" => u.by = "release"
  <2> TAKE u \in S
  <2>1. CASE u \in E
    <3>1. PICK k \in CqPathKinds : Has(field, k, r) /\ u = CqRec(k, r)
      BY <1>1, <2>1
    <3>2. u.of = <<k, r>> /\ u.of[1] = k /\ u.of[2] = r /\ u.turn = CqTurn[k] /\ (k # "dbr_host" => u.by = "release")
      BY <3>1, RecFacts
    <3> QED BY <1>6, <3>1, <3>2 DEF PathTurn
  <2>2. CASE u \in D
    <3>1. PICK q \in Roles, k \in EndKinds : InEnd(field, k, q) /\ u = EndRec(k, q)
      BY <1>2, <2>2
    <3>2. u.of = <<k, q>> /\ u.of[1] = k /\ u.of[2] = q /\ u.turn = Turns(q) + EndTurn[k] /\ (k # "dbr_host" => u.by = "release")
      BY <3>1, RecFacts
    <3> QED BY <1>7, <3>1, <3>2 DEF PathTurn
  <2> QED BY <2>1, <2>2
<1>10. \A u, v \in S : u.of = v.of => u = v
  <2> SUFFICES ASSUME NEW u \in S, NEW v \in S, u.of = v.of PROVE u = v
    OBVIOUS
  <2>1. \A w \in E : \E k \in CqPathKinds : w.of = <<k, r>> /\ w = CqRec(k, r)
    BY <1>1, RecFacts
  <2>2. \A w \in D : \E q \in Roles, k \in EndKinds :
           w.of = <<k, q>> /\ w = EndRec(k, q) /\ ~(q = r /\ k \in CqPathKinds)
    <3> TAKE w \in D
    <3>1. PICK q \in Roles, k \in EndKinds : InEnd(field, k, q) /\ w = EndRec(k, q)
      BY <1>2
    <3>2. w.of = <<k, q>>
      BY <3>1, RecFacts
    <3>3. ~(q = r /\ k \in CqPathKinds)
      BY <1>7, <3>1
    <3> QED BY <3>1, <3>2, <3>3
  <2>3. CASE u \in E /\ v \in E
    BY <2>1, <2>3
  <2>4. CASE u \in D /\ v \in D
    BY <2>2, <2>4
  <2>5. CASE (u \in E /\ v \in D) \/ (u \in D /\ v \in E)
    BY <2>1, <2>2, <2>5
  <2> QED BY <2>3, <2>4, <2>5
<1>11. \A x \in live : \E u \in S : u.of = x
  <2> TAKE x \in live
  <2>1. PICK k \in Kinds, q \in Roles : x = <<k, q>>
    BY <1>3 DEF Resources
  <2>2. CASE q = r /\ k \in CqPathKinds
    <3>1. CqRec(k, r) \in E /\ CqRec(k, r).of = x
      BY <1>1, <1>6, <2>1, <2>2, RecFacts
    <3> QED BY <3>1
  <2>3. CASE k \in EndKinds /\ InEnd(field, k, q)
    <3>1. EndRec(k, q) \in D /\ EndRec(k, q).of = x
      BY <1>2, <2>1, <2>3, RecFacts
    <3> QED BY <3>1
  <2> QED BY <1>8, <2>1, <2>2, <2>3
<1> QED BY <1>9, <1>10, <1>11 DEF Match, E, D

(* The error path of the QP, then that of its callers.                     *)
LEMMA MatchQp ==
  ASSUME TypeInv, FieldInv, LiveInv, NEW s, NEW r, Running(s, r),
         s \in {"qp_attr", "qp_mem", "qp_umem", "dbr_mem", "dbr_umem", "qp"}
  PROVE  Match(QpErrorPath(field, r) \cup DestroyAll(WithoutQp(field, r)), QpPathKinds, QpTurn, r)
<1> DEFINE g == WithoutQp(field, r)
           E == QpErrorPath(field, r)
           D == DestroyAll(g)
           S == E \cup D
<1>0. /\ Going /\ undo = {} /\ r \in Roles /\ asked.group \in BOOLEAN /\ s # "uar" /\ pos \in 1 .. 28
      /\ \A q \in Roles : Fields(field, pos, q)
  BY RunningAt, RunningPos DEF Going, FieldInv
<1>1. \A u : u \in E <=> \E k \in QpPathKinds : Has(field, k, r) /\ u = QpRec(k, r)
  BY <1>0, QpErrorPathIs
<1>2. /\ live \subseteq Resources
      /\ \A k \in Kinds, q \in Roles : <<k, q>> \in live <=> Steady(field, pos, k, q)
      /\ \A k \in Kinds, q \in Roles : Steady(field, pos, k, q) => Has(field, k, q)
  BY <1>0, LiveIs
<1>3. /\ QpPathKinds \subseteq Kinds /\ EndKinds \subseteq Kinds
      /\ "qp_attr" \notin EndKinds
      /\ \A k \in EndKinds : k \notin {"cq_attr", "ring"}
      /\ \A k \in QpPathKinds : k \notin {"cq_attr", "ring", "cq_mem", "cq_umem", "cq"}
      /\ \A k \in Kinds : k \in QpPathKinds \/ k \in EndKinds \/ k \in {"cq_attr", "ring"}
      /\ "cq" \in Kinds /\ "qp" \in Kinds
      /\ "cq" \notin QpPathKinds
  BY DEF QpPathKinds, EndKinds, Kinds
<1>4. field \in [Roles -> [Kinds -> Resources \cup {Null}]]
  BY DEF TypeInv, TypeOK
<1>5. /\ \A q \in Roles, k \in Kinds : Has(g, k, q) <=> Has(field, k, q) /\ ~(q = r /\ k \in QpPathKinds)
      /\ \A q \in Roles, k \in Kinds : Has(g, k, q) => g[q][k] = field[q][k]
  <2>1. \A q \in Roles, k \in Kinds : Has(g, k, q) <=> Has(field, k, q) /\ ~(q = r /\ k \in QpPathKinds)
    BY <1>0, <1>4, WithoutQpIs
  <2>2. \A q \in Roles, k \in Kinds : ~(q = r /\ k \in QpPathKinds) => g[q][k] = field[q][k]
    BY <1>0, <1>4, WithoutQpIs
  <2> HIDE DEF g
  <2> QED BY <2>1, <2>2
<1> HIDE DEF g
<1>6. \A u : u \in D <=> \E q \in Roles, k \in EndKinds : InEnd(g, k, q) /\ u = EndRec(k, q)
  <2>1. \A q \in Roles, k \in Kinds : Has(field, k, q) => field[q][k] = <<k, q>> /\ Planned(q)
    BY <1>0, HasPlanned
  <2>2. \A q \in Roles, k \in Kinds : Has(g, k, q) => g[q][k] = <<k, q>> /\ Planned(q)
    BY <1>5, <2>1
  <2> QED BY <1>0, <2>2, DestroyAllIs
<1>7. \A q \in Roles, k \in EndKinds : InEnd(g, k, q) <=> InEnd(field, k, q) /\ ~(q = r /\ k \in QpPathKinds)
  <2> TAKE q \in Roles, k \in EndKinds
  <2>1. Has(g, "cq", q) <=> Has(field, "cq", q)
    BY <1>3, <1>5
  <2>2. Has(g, k, q) <=> Has(field, k, q) /\ ~(q = r /\ k \in QpPathKinds)
    BY <1>3, <1>5
  <2> QED BY <2>1, <2>2 DEF InEnd
<1>8. Past(pos, "cq", r) /\ ~Has(field, "qp", r)
  <2>1. Past(pos, "cq", r) /\ ~Past(pos, "qp", r)
    BY <1>0, AtIs, RunningChain
  <2> QED BY <1>0, <1>3, <2>1 DEF Fields
<1>9. \A k \in QpPathKinds : Has(field, k, r) <=> <<k, r>> \in live
  <2> TAKE k \in QpPathKinds
  <2>1. Has(field, k, r) => Steady(field, pos, k, r)
    BY <1>3, <1>8 DEF Steady
  <2> QED BY <1>0, <1>2, <1>3, <2>1
<1>10. \A q \in Roles, k \in EndKinds : InEnd(field, k, q) => <<k, q>> \in live
  <2> TAKE q \in Roles, k \in EndKinds
  <2>1. InEnd(field, k, q) => Steady(field, pos, k, q)
    BY <1>3 DEF Steady, InEnd
  <2> QED BY <1>2, <1>3, <2>1
<1>11. \A k \in Kinds, q \in Roles : <<k, q>> \in live =>
        (q = r /\ k \in QpPathKinds) \/ (k \in EndKinds /\ InEnd(g, k, q))
  <2> SUFFICES ASSUME NEW k \in Kinds, NEW q \in Roles, <<k, q>> \in live, ~(q = r /\ k \in QpPathKinds)
               PROVE  k \in EndKinds /\ InEnd(field, k, q)
    BY <1>7
  <2>1. Steady(field, pos, k, q) /\ Has(field, k, q)
    BY <1>2
  <2>2. CASE q = r
    <3>1. k \notin {"cq_attr", "ring"}
      BY <1>8, <2>1, <2>2 DEF Steady
    <3>2. k \in {"cq_mem", "cq_umem"} => Has(field, "cq", r)
      BY <1>8, <2>1, <2>2 DEF Steady
    <3> QED BY <1>3, <2>1, <2>2, <3>1, <3>2 DEF InEnd
  <2>3. CASE q # r
    <3>1. Past(pos, "gverbs", q) \/ ~Past(pos, "cq_attr", q)
      BY <1>0, <2>3, OtherRole
    <3> QED BY <1>0, <2>1, <3>1, WholeEnds DEF InEnd
  <2> QED BY <2>2, <2>3
<1> HIDE DEF E, D
<1>12. \A u \in S : /\ u.of \in live /\ u.turn = PathTurn(QpPathKinds, QpTurn, r, u.of[1], u.of[2])
                    /\ u.of[1] # "dbr_host" => u.by = "release"
  <2> TAKE u \in S
  <2>1. CASE u \in E
    <3>1. PICK k \in QpPathKinds : Has(field, k, r) /\ u = QpRec(k, r)
      BY <1>1, <2>1
    <3>2. u.of = <<k, r>> /\ u.of[1] = k /\ u.of[2] = r /\ u.turn = QpTurn[k] /\ (k # "dbr_host" => u.by = "release")
      BY <3>1, RecFacts
    <3> QED BY <1>9, <3>1, <3>2 DEF PathTurn
  <2>2. CASE u \in D
    <3>1. PICK q \in Roles, k \in EndKinds : InEnd(g, k, q) /\ u = EndRec(k, q)
      BY <1>6, <2>2
    <3>2. u.of = <<k, q>> /\ u.of[1] = k /\ u.of[2] = q /\ u.turn = Turns(q) + EndTurn[k] /\ (k # "dbr_host" => u.by = "release")
      BY <3>1, RecFacts
    <3> QED BY <1>7, <1>10, <3>1, <3>2 DEF PathTurn
  <2> QED BY <2>1, <2>2
<1>13. \A u, v \in S : u.of = v.of => u = v
  <2> SUFFICES ASSUME NEW u \in S, NEW v \in S, u.of = v.of PROVE u = v
    OBVIOUS
  <2>1. \A w \in E : \E k \in QpPathKinds : w.of = <<k, r>> /\ w = QpRec(k, r)
    BY <1>1, RecFacts
  <2>2. \A w \in D : \E q \in Roles, k \in EndKinds :
           w.of = <<k, q>> /\ w = EndRec(k, q) /\ ~(q = r /\ k \in QpPathKinds)
    <3> TAKE w \in D
    <3>1. PICK q \in Roles, k \in EndKinds : InEnd(g, k, q) /\ w = EndRec(k, q)
      BY <1>6
    <3>2. w.of = <<k, q>>
      BY <3>1, RecFacts
    <3>3. ~(q = r /\ k \in QpPathKinds)
      BY <1>7, <3>1
    <3> QED BY <3>1, <3>2, <3>3
  <2>3. CASE u \in E /\ v \in E
    BY <2>1, <2>3
  <2>4. CASE u \in D /\ v \in D
    BY <2>2, <2>4
  <2>5. CASE (u \in E /\ v \in D) \/ (u \in D /\ v \in E)
    BY <2>1, <2>2, <2>5
  <2> QED BY <2>3, <2>4, <2>5
<1>14. \A x \in live : \E u \in S : u.of = x
  <2> TAKE x \in live
  <2>1. PICK k \in Kinds, q \in Roles : x = <<k, q>>
    BY <1>2 DEF Resources
  <2>2. CASE q = r /\ k \in QpPathKinds
    <3>1. QpRec(k, r) \in E /\ QpRec(k, r).of = x
      BY <1>1, <1>9, <2>1, <2>2, RecFacts
    <3> QED BY <3>1
  <2>3. CASE k \in EndKinds /\ InEnd(g, k, q)
    <3>1. EndRec(k, q) \in D /\ EndRec(k, q).of = x
      BY <1>6, <2>1, <2>3, RecFacts
    <3> QED BY <3>1
  <2> QED BY <1>11, <2>1, <2>2, <2>3
<1> QED BY <1>12, <1>13, <1>14 DEF Match, E, D, g

(* On such a path a thing goes before what it stands on.                   *)
PathOf(pk, tf, r) ==
  \/ pk = {}
  \/ pk = CqPathKinds /\ tf = CqTurn /\ <<"cq", r>> \notin live
  \/ pk = QpPathKinds /\ tf = QpTurn /\ <<"qp", r>> \notin live

(* What a thing can stand on.                                              *)
LEMMA StandsOnIs ==
  ASSUME NEW k, NEW q, NEW y, y \in StandsOn(<<k, q>>)
  PROVE  \/ k = "cq_umem" /\ y = <<"cq_mem", q>>
         \/ k = "cq" /\ y = <<"cq_umem", q>>
         \/ k = "qp_umem" /\ y = <<"qp_mem", q>>
         \/ k = "dbr_umem" /\ y = <<KindOf("dbr_mem"), q>>
         \/ k = "qp" /\ y \in {<<"cq", q>>, <<"qp_umem", q>>, <<"dbr_umem", q>>}
         \/ k = "gverbs" /\ y = <<"qp", q>>
         \/ <<k, q>> \in onUar /\ ~asked.group /\ y = <<"uar", "main">>
BY DEF StandsOn

(* A thing has an earlier turn than what it stands on.                     *)
LEMMA TurnOrder ==
  ASSUME NEW pk, NEW tf, NEW r \in Roles, PathOf(pk, tf, r), UndoInv,
         NEW k \in Kinds, NEW q \in Roles, <<k, q>> \in live,
         NEW l \in Kinds, NEW p \in Roles, <<l, p>> \in live,
         <<l, p>> \in StandsOn(<<k, q>>)
  PROVE  PathTurn(pk, tf, r, k, q) < PathTurn(pk, tf, r, l, p)
<1>1. \/ /\ p = q
         /\ \/ k = "cq_umem" /\ l = "cq_mem"
            \/ k = "cq" /\ l = "cq_umem"
            \/ k = "qp_umem" /\ l = "qp_mem"
            \/ k = "dbr_umem" /\ l \in {"dbr_mem", "dbr_host"}
            \/ k = "qp" /\ l \in {"cq", "qp_umem", "dbr_umem"}
            \/ k = "gverbs" /\ l = "qp"
      \/ k \in {"qp", "gverbs"} /\ q = "main" /\ l = "uar" /\ p = "main"
  <2>1. <<k, q>> \in onUar /\ ~asked.group => k \in {"qp", "gverbs"} /\ q = "main"
    BY DEF UndoInv
  <2> QED BY <2>1, StandsOnIs, KindOfDbr
<1>2. Turns(q) \in {6, 17} /\ Turns(p) \in {6, 17}
  BY DEF Turns
<1>3. /\ EndTurn["gverbs"] = 1 /\ EndTurn["qp"] = 2 /\ EndTurn["qp_umem"] = 3 /\ EndTurn["qp_mem"] = 4
      /\ EndTurn["dbr_umem"] = 5 /\ EndTurn["dbr_mem"] = 6 /\ EndTurn["dbr_host"] = 7
      /\ EndTurn["uar"] = 8 /\ EndTurn["cq"] = 9 /\ EndTurn["cq_umem"] = 10 /\ EndTurn["cq_mem"] = 11
  BY DEF EndTurn
<1>4. CASE pk = {}
  BY <1>1, <1>2, <1>3, <1>4 DEF PathTurn
<1>5. CASE pk = CqPathKinds /\ tf = CqTurn /\ <<"cq", r>> \notin live
  <2>1. CqTurn["cq_umem"] = 2 /\ CqTurn["cq_mem"] = 4
    BY DEF CqTurn
  <2> QED BY <1>1, <1>2, <1>3, <1>5, <2>1 DEF PathTurn, CqPathKinds
<1>6. CASE pk = QpPathKinds /\ tf = QpTurn /\ <<"qp", r>> \notin live
  <2>1. /\ QpTurn["qp_umem"] = 2 /\ QpTurn["qp_mem"] = 3 /\ QpTurn["dbr_umem"] = 4
        /\ QpTurn["dbr_mem"] = 5 /\ QpTurn["dbr_host"] = 6
    BY DEF QpTurn
  <2> QED BY <1>1, <1>2, <1>3, <1>6, <2>1 DEF PathTurn, QpPathKinds
<1> QED BY <1>4, <1>5, <1>6 DEF PathOf

(* So its release is among those still to be made.                         *)
LEMMA MatchReady ==
  ASSUME NEW S, NEW pk, NEW tf, NEW r \in Roles, Match(S, pk, tf, r), PathOf(pk, tf, r),
         UndoInv, live \subseteq Resources,
         NEW x \in live, NEW u \in S, u.of \in StandsOn(x)
  PROVE  \E v \in S : v.of = x /\ v.turn < u.turn
<1>1. PICK v \in S : v.of = x
  BY DEF Match
<1>2. u.of \in live /\ u.turn = PathTurn(pk, tf, r, u.of[1], u.of[2])
  BY DEF Match
<1>3. v.turn = PathTurn(pk, tf, r, x[1], x[2])
  BY <1>1 DEF Match
<1>4. PICK k \in Kinds, q \in Roles : x = <<k, q>>
  BY DEF Resources
<1>5. PICK l \in Kinds, p \in Roles : u.of = <<l, p>>
  BY <1>2 DEF Resources
<1>6. PathTurn(pk, tf, r, k, q) < PathTurn(pk, tf, r, l, p)
  BY <1>2, <1>4, <1>5, TurnOrder
<1> QED BY <1>1, <1>2, <1>3, <1>4, <1>5, <1>6

(* A pointer left behind adds one release to a path.                       *)
LEMMA CqLeft ==
  ASSUME TypeInv, FieldInv, NEW r, Running("cq_mem", r), NEW left, left # Null
  PROVE  LET f == [field EXCEPT ![r]["cq_mem"] = left]
             e == [turn |-> 4, of |-> left, by |-> Call(left)]
         IN  /\ CqErrorPath(f, r) = CqErrorPath(field, r) \cup {e}
             /\ DestroyAll(f) = DestroyAll(field)
<1> DEFINE f == [field EXCEPT ![r]["cq_mem"] = left]
           e == [turn |-> 4, of |-> left, by |-> Call(left)]
<1>0. /\ r \in Roles /\ Fields(field, pos, r) /\ asked.group \in BOOLEAN
  BY RunningAt DEF FieldInv, Going
<1>1. ~Past(pos, "cq_mem", r) /\ ~Past(pos, "cq", r)
  BY <1>0, AtIs, RunningChain
<1>2. field[r]["cq_mem"] = Null /\ field[r]["cq"] = Null
  BY <1>0, <1>1 DEF Fields, Has, Kinds
<1>3. /\ \A q \in Roles, k \in Kinds : f[q][k] = IF q = r /\ k = "cq_mem" THEN left ELSE field[q][k]
      /\ \A q \in Roles : q # r => f[q] = field[q]
  BY <1>0 DEF TypeInv, TypeOK, Kinds
<1> HIDE DEF f
<1>4. CqErrorPath(f, r) = CqErrorPath(field, r) \cup {e}
  <2> DEFINE Raw(g, k, u) == g[r][k] # Null /\ u = [turn |-> CqTurn[k], of |-> g[r][k], by |-> Call(g[r][k])]
  <2>1. \A u : /\ u \in CqErrorPath(f, r) <=> \E k \in CqPathKinds : Raw(f, k, u)
               /\ u \in CqErrorPath(field, r) <=> \E k \in CqPathKinds : Raw(field, k, u)
    BY CqPathIs
  <2>2. \A u : \A k \in CqPathKinds \ {"cq_mem"} : Raw(f, k, u) <=> Raw(field, k, u)
    <3>1. \A k \in CqPathKinds \ {"cq_mem"} : f[r][k] = field[r][k]
      BY <1>0, <1>3 DEF CqPathKinds, Kinds
    <3> QED BY <3>1
  <2>3. \A u : (Raw(f, "cq_mem", u) <=> u = e) /\ ~Raw(field, "cq_mem", u)
    <3>1. f[r]["cq_mem"] = left /\ CqTurn["cq_mem"] = 4
      BY <1>0, <1>3 DEF CqTurn, Kinds
    <3> QED BY <1>2, <3>1
  <2>4. "cq_mem" \in CqPathKinds
    BY DEF CqPathKinds
  <2> HIDE DEF Raw, e
  <2>5. \A u : u \in CqErrorPath(f, r) <=> u \in CqErrorPath(field, r) \/ u = e
    BY <2>1, <2>2, <2>3, <2>4
  <2> QED BY <2>5
<1>5. DestroyAll(f) = DestroyAll(field)
  <2>1. ASSUME NEW q \in Roles PROVE DestroyInternal(f, q) = DestroyInternal(field, q)
    <3> DEFINE Raw(g, k, u) ==
           /\ g[q][k] # Null /\ (k \in {"cq", "cq_umem", "cq_mem"} => g[q]["cq"] # Null)
           /\ u = [turn |-> Turns(q) + EndTurn[k], of |-> g[q][k], by |-> Call(g[q][k])]
    <3>1. \A u : /\ u \in DestroyInternal(f, q) <=> \E k \in EndKinds : Raw(f, k, u)
                 /\ u \in DestroyInternal(field, q) <=> \E k \in EndKinds : Raw(field, k, u)
      BY EndIs
    <3>2. \A u : \A k \in EndKinds : Raw(f, k, u) <=> Raw(field, k, u)
      <4>1. \A k \in EndKinds : k \in Kinds
        BY DEF EndKinds, Kinds
      <4>2. f[q]["cq"] = field[q]["cq"]
        BY <1>3 DEF Kinds
      <4>3. \A k \in EndKinds : f[q][k] = field[q][k] \/ (k = "cq_mem" /\ f[q]["cq"] = Null)
        BY <1>2, <1>3, <4>1, <4>2
      <4> QED BY <4>2, <4>3
    <3> HIDE DEF Raw
    <3>3. \A u : u \in DestroyInternal(f, q) <=> u \in DestroyInternal(field, q)
      BY <3>1, <3>2
    <3>4. DestroyInternal(f, q) \subseteq DestroyInternal(field, q) /\ DestroyInternal(field, q) \subseteq DestroyInternal(f, q)
      BY <3>3
    <3> QED BY <3>4
  <2> QED BY <2>1 DEF DestroyAll, Roles
<1> QED BY <1>4, <1>5 DEF f

LEMMA QpLeft ==
  ASSUME TypeInv, FieldInv, NEW s \in {"qp_mem", "dbr_mem"}, NEW r, Running(s, r),
         NEW left, left # Null, left[1] \in Rings
  PROVE  LET f == [field EXCEPT ![r][s] = left]
             e == [turn |-> QpTurn[s], of |-> left, by |-> Call(left)]
         IN  /\ QpErrorPath(f, r) = QpErrorPath(field, r) \cup {e}
             /\ WithoutQp(f, r) = WithoutQp(field, r)
<1> DEFINE f == [field EXCEPT ![r][s] = left]
           e == [turn |-> QpTurn[s], of |-> left, by |-> Call(left)]
<1>0. /\ r \in Roles /\ Fields(field, pos, r) /\ s \in Kinds /\ s \in QpPathKinds /\ s # "dbr_host"
  BY RunningAt DEF FieldInv, Going, Kinds, QpPathKinds
<1>1. ~Past(pos, s, r)
  BY AtIs
<1>2. field[r][s] = Null
  BY <1>0, <1>1 DEF Fields, Has
<1>3. /\ \A q \in Roles, k \in Kinds : f[q][k] = IF q = r /\ k = s THEN left ELSE field[q][k]
      /\ \A q \in Roles : q # r => f[q] = field[q]
  BY <1>0 DEF TypeInv, TypeOK
<1>4. QpErrorPath(f, r) = QpErrorPath(field, r) \cup {e}
  <2> HIDE DEF f
  <2> DEFINE Raw(g, k, u) ==
        /\ g[r][k] # Null
        /\ u = [turn |-> QpTurn[k], of |-> g[r][k],
                by |-> IF k # "dbr_host" THEN Call(g[r][k])
                       ELSE IF Resolved = "CPU_PROXY" THEN "free" ELSE "release"]
  <2>1. \A u : /\ u \in QpErrorPath(f, r) <=> \E k \in QpPathKinds : Raw(f, k, u)
               /\ u \in QpErrorPath(field, r) <=> \E k \in QpPathKinds : Raw(field, k, u)
    BY QpPathIs
  <2>2. \A u : \A k \in QpPathKinds \ {s} : Raw(f, k, u) <=> Raw(field, k, u)
    <3>1. \A k \in QpPathKinds \ {s} : f[r][k] = field[r][k]
      BY <1>0, <1>3 DEF QpPathKinds, Kinds
    <3> QED BY <3>1
  <2>3. \A u : (Raw(f, s, u) <=> u = e) /\ ~Raw(field, s, u)
    <3>1. f[r][s] = left
      BY <1>0, <1>3
    <3> QED BY <1>0, <1>2, <3>1
  <2> HIDE DEF Raw, e
  <2>5. \A u : u \in QpErrorPath(f, r) <=> u \in QpErrorPath(field, r) \/ u = e
    BY <1>0, <2>1, <2>2, <2>3
  <2> QED BY <2>5
<1>5. WithoutQp(f, r) = WithoutQp(field, r)
  <2>1. \A k \in Kinds : (IF k \in {"qp_attr", "qp_umem", "qp_mem", "dbr_umem", "dbr_mem", "dbr_host"}
                          THEN Null ELSE f[r][k])
                       = (IF k \in {"qp_attr", "qp_umem", "qp_mem", "dbr_umem", "dbr_mem", "dbr_host"}
                          THEN Null ELSE field[r][k])
    BY <1>0, <1>3
  <2> DEFINE m(g) == [k \in Kinds |-> IF k \in {"qp_attr", "qp_umem", "qp_mem", "dbr_umem", "dbr_mem", "dbr_host"}
                          THEN Null ELSE g[r][k]]
  <2>2. m(f) = m(field)
    BY <2>1
  <2>3. WithoutQp(f, r) = [f EXCEPT ![r] = m(f)] /\ WithoutQp(field, r) = [field EXCEPT ![r] = m(field)]
    BY DEF WithoutQp
  <2> HIDE DEF m
  <2>4. \A z : [f EXCEPT ![r] = z] = [field EXCEPT ![r] = z]
    BY <1>0 DEF TypeInv, TypeOK
  <2> QED BY <2>2, <2>3, <2>4
<1> QED BY <1>4, <1>5 DEF f

-----------------------------------------------------------------------------
(* The invariant where a path begins.                                      *)
LEMMA StandsFrozen ==
  ASSUME asked' = asked, onUar' = onUar
  PROVE  \A x : StandsOn(x)' = StandsOn(x)
BY AskedFrozen DEF StandsOn

(* A path that names all that is live, with at most a leftover pointer     *)
(* beside it, starts with the invariant.                                   *)
LEMMA PathBegins ==
  ASSUME NEW r \in Roles, NEW S, NEW X, NEW pk, NEW tf, Match(S, pk, tf, r), PathOf(pk, tf, r),
         UndoInv, OrderInv, live \subseteq Resources,
         UNCHANGED <<asked, onUar, misused>>, undo' = S \cup X, leaky \subseteq leaky',
         live' = live \/ (live' = live \cup {<<"dmabuf", r>>} /\ "dmabuf" \in leaky'),
         \A d, e \in X : d = e,
         \A e \in X : /\ e.of[1] \in Rings /\ e.by = "release"
                      /\ \/ "leftover" \in leaky'
                         \/ e.of = <<"qp_mem", r>> /\ e.turn = 5 /\ pk = QpPathKinds /\ tf = QpTurn,
         ~Going'
  PROVE  LiveInv' /\ ErrInv' /\ UndoInv' /\ OrderInv'
<1>1. /\ \A u \in S : u.of \in live /\ (u.of[1] # "dbr_host" => u.by = "release")
      /\ \A u, v \in S : u.of = v.of => u = v
      /\ \A x \in live : \E u \in S : u.of = x
  BY DEF Match
<1>2. LiveInv'
  BY DEF LiveInv
<1>3. live \subseteq live'
  OBVIOUS
<1>4. ErrInv'
  <2> SUFFICES ASSUME NoneLeaky', NEW x \in live' PROVE \E u \in undo' : u.of = x
    BY DEF ErrInv
  <2>1. "dmabuf" \notin leaky'
    BY DEF NoneLeaky
  <2>2. x \in live
    BY <2>1
  <2> QED BY <1>1, <2>2
<1>5. UndoInv'
  <2>1. \A u \in undo' : u.of[1] # "dbr_host" => u.by = "release"
    BY <1>1
  <2>2. \A u \in undo' : u.of \in live' \/ u.of[1] \in Rings
    BY <1>1, <1>3
  <2>3. \A u, v \in undo' : u.of = v.of => u = v \/ u.of[1] \in Rings
    BY <1>1
  <2>4. misused' = {} /\ \A x \in onUar' : ~asked'.group => x \in {<<"qp", "main">>, <<"gverbs", "main">>}
    BY DEF UndoInv
  <2> QED BY <2>1, <2>2, <2>3, <2>4 DEF UndoInv, Rings
<1>6. OrderInv'
  <2> SUFFICES ASSUME "leftover" \notin leaky', NEW x \in live'
               PROVE  /\ StandsOn(x) \subseteq live'
                      /\ \A u \in undo' : u.of \in StandsOn(x) => \E v \in undo' : v.of = x /\ v.turn < u.turn
    BY StandsFrozen DEF OrderInv
  <2>1. "leftover" \notin leaky
    OBVIOUS
  <2>2. CASE x \in live
    <3>1. StandsOn(x) \subseteq live
      BY <2>1, <2>2 DEF OrderInv
    <3>2. ASSUME NEW u \in S, u.of \in StandsOn(x) PROVE \E v \in S : v.of = x /\ v.turn < u.turn
      BY <2>2, <3>2, MatchReady
    <3>3. ASSUME NEW u \in X, u.of \in StandsOn(x) PROVE \E v \in S : v.of = x /\ v.turn < u.turn
      <4>1. u.of = <<"qp_mem", r>> /\ u.turn = 5 /\ pk = QpPathKinds /\ tf = QpTurn
        BY <3>3
      <4>2. PICK k \in Kinds, q \in Roles : x = <<k, q>>
        BY <2>2 DEF Resources
      <4>3. k = "qp_umem" /\ q = r
        <5>1. <<"qp_mem", r>> \in StandsOn(<<k, q>>)
          BY <3>3, <4>1, <4>2
        <5> QED BY <5>1, StandsOnIs, KindOfDbr
      <4>4. PICK v \in S : v.of = x
        BY <1>1, <2>2
      <4>5. v.turn = PathTurn(QpPathKinds, QpTurn, r, v.of[1], v.of[2])
        BY <4>1 DEF Match
      <4>6. v.turn = PathTurn(QpPathKinds, QpTurn, r, "qp_umem", r)
        BY <4>2, <4>3, <4>4, <4>5
      <4>7. v.turn = 2
        BY <4>6 DEF PathTurn, QpPathKinds, QpTurn
      <4> QED BY <4>1, <4>4, <4>7
    <3> QED BY <1>3, <3>1, <3>2, <3>3
  <2>3. CASE x \notin live
    <3>1. x = <<"dmabuf", r>>
      BY <2>3
    <3>2. <<"dmabuf", r>> \in onUar => asked.group
      BY DEF UndoInv
    <3>3. StandsOn(<<"dmabuf", r>>) = {}
      BY <3>2 DEF StandsOn
    <3> QED BY <3>1, <3>3
  <2> QED BY <2>2, <2>3
<1> QED BY <1>2, <1>4, <1>5, <1>6

(* The part of a path that a silent failure takes.                         *)
LEMMA PartBegins ==
  ASSUME NEW r \in Roles, NEW S, NEW pk, NEW tf, Match(S, pk, tf, r), PathOf(pk, tf, r),
         UndoInv, OrderInv, live \subseteq Resources,
         UNCHANGED <<asked, onUar, misused, live>>,
         undo' \subseteq S, \A u \in undo', v \in S : v.turn < u.turn => v \in undo',
         leaky \subseteq leaky', Going'
  PROVE  ErrInv' /\ UndoInv' /\ OrderInv'
<1>1. /\ \A u \in S : u.of \in live /\ (u.of[1] # "dbr_host" => u.by = "release")
      /\ \A u, v \in S : u.of = v.of => u = v
  BY DEF Match
<1>2. ErrInv'
  BY DEF ErrInv
<1>3. UndoInv'
  BY <1>1 DEF UndoInv, Rings
<1>4. OrderInv'
  <2> SUFFICES ASSUME "leftover" \notin leaky', NEW x \in live
               PROVE  /\ StandsOn(x) \subseteq live
                      /\ \A u \in undo' : u.of \in StandsOn(x) => \E v \in undo' : v.of = x /\ v.turn < u.turn
    BY StandsFrozen DEF OrderInv
  <2>1. StandsOn(x) \subseteq live
    BY DEF OrderInv
  <2>2. ASSUME NEW u \in undo', u.of \in StandsOn(x) PROVE \E v \in undo' : v.of = x /\ v.turn < u.turn
    <3>1. PICK v \in S : v.of = x /\ v.turn < u.turn
      BY <2>2, MatchReady
    <3> QED BY <3>1
  <2> QED BY <2>1, <2>2
<1> QED BY <1>2, <1>3, <1>4

(* With nothing to undo, what is live stands on what is live.              *)
LEMMA Closed ==
  ASSUME TypeInv, FieldInv, LiveInv, UndoInv, Going, undo = {}
  PROVE  OrderInv
<1>1. /\ live \subseteq Resources
      /\ \A k \in Kinds, q \in Roles : <<k, q>> \in live <=> Steady(field, pos, k, q)
      /\ \A k \in Kinds, q \in Roles : Steady(field, pos, k, q) => Has(field, k, q)
  BY LiveIs
<1>2. SUFFICES ASSUME NEW x \in live, NEW y \in StandsOn(x) PROVE y \in live
  BY DEF OrderInv
<1>3. PICK k \in Kinds, q \in Roles : x = <<k, q>>
  BY <1>1 DEF Resources
<1>4. Fields(field, pos, q) /\ Fields(field, pos, "main") /\ Steady(field, pos, k, q) /\ Has(field, k, q)
  BY <1>1, <1>3 DEF FieldInv, Roles
<1>5. /\ {"cq_mem", "cq_umem", "cq", "qp_mem", "qp_umem", "dbr_mem", "dbr_host", "dbr_umem", "qp", "uar", "qp_attr"} \subseteq Kinds
      /\ "main" \in Roles
  BY DEF Kinds, Roles
<1>6. CASE k = "cq_umem" /\ y = <<"cq_mem", q>>
  <2>1. asked.group \in BOOLEAN /\ pos \in 1 .. 28
    <3>1. asked.group \in BOOLEAN /\ pos \in 1 .. Len(Plan) + 1
      BY DEF TypeInv, TypeOK, AskedOK
    <3>2. Len(Plan) \in 14 .. 27
      BY <3>1, WhenEnds
    <3>3. \A n \in 14 .. 27 : 1 .. n + 1 \subseteq 1 .. 28
      OBVIOUS
    <3> QED BY <3>1, <3>2, <3>3, Zenon
  <2>2. Past(pos, "cq_umem", q)
    BY <1>4, <1>5, <1>6 DEF Fields
  <2>3. Past(pos, "cq_mem", q)
    BY <2>1, <2>2, PastChain
  <2>4. Has(field, "cq_mem", q) /\ (Has(field, "cq", q) \/ ~Past(pos, "cq", q))
    BY <1>4, <1>6, <2>3 DEF Fields, Steady, CqKinds
  <2>5. Steady(field, pos, "cq_mem", q)
    BY <2>4 DEF Steady
  <2> QED BY <1>1, <1>5, <1>6, <2>5
<1>7. CASE k = "cq" /\ y = <<"cq_umem", q>>
  <2>1. Steady(field, pos, "cq_umem", q)
    BY <1>4, <1>7 DEF Fields, Steady
  <2> QED BY <1>1, <1>5, <1>7, <2>1
<1>8. CASE k = "qp_umem" /\ y = <<"qp_mem", q>>
  <2>1. Steady(field, pos, "qp_mem", q)
    BY <1>4, <1>8 DEF Fields, Steady
  <2> QED BY <1>1, <1>5, <1>8, <2>1
<1>9. CASE k = "dbr_umem" /\ y = <<KindOf("dbr_mem"), q>>
  <2>1. Steady(field, pos, KindOf("dbr_mem"), q)
    BY <1>4, <1>9, KindOfDbr DEF Fields, Steady
  <2> QED BY <1>1, <1>5, <1>9, <2>1, KindOfDbr
<1>10. CASE k = "qp" /\ y \in {<<"cq", q>>, <<"qp_umem", q>>, <<"dbr_umem", q>>}
  <2>1. Steady(field, pos, "cq", q) /\ Steady(field, pos, "qp_umem", q) /\ Steady(field, pos, "dbr_umem", q)
    BY <1>4, <1>10 DEF Fields, Steady, QpKinds
  <2> QED BY <1>1, <1>5, <1>10, <2>1
<1>11. CASE k = "gverbs" /\ y = <<"qp", q>>
  <2>1. Steady(field, pos, "qp", q)
    BY <1>4, <1>11 DEF Fields, Steady
  <2> QED BY <1>1, <1>5, <1>11, <2>1
<1>12. CASE <<k, q>> \in onUar /\ ~asked.group /\ y = <<"uar", "main">>
  <2>1. k \in {"qp", "gverbs"} /\ q = "main"
    BY <1>12 DEF UndoInv
  <2>2. Has(field, "qp", "main")
    BY <1>4, <2>1 DEF Fields
  <2>3. Has(field, "uar", "main")
    BY <1>4, <2>2 DEF Fields, QpKinds
  <2>4. Steady(field, pos, "uar", "main")
    BY <2>3 DEF Steady
  <2> QED BY <1>1, <1>5, <1>12, <2>4
<1> QED BY <1>2, <1>3, <1>6, <1>7, <1>8, <1>9, <1>10, <1>11, <1>12, StandsOnIs

-----------------------------------------------------------------------------
(* The steps keep the invariant.                                           *)
LEMMA StepRelease ==
  ASSUME IInv, Release
  PROVE  LiveInv' /\ ErrInv' /\ UndoInv' /\ OrderInv'
<1>1. PICK u \in undo :
        /\ \A v \in undo : u.turn <= v.turn
        /\ live' = IF Refused(u) THEN live ELSE live \ {u.of}
        /\ leaky' = IF Refused(u) /\ u.of \in live THEN leaky \cup {"emulated"} ELSE leaky
        /\ misused' = IF Refused(u) \/ u.of \in live THEN misused ELSE misused \cup {u.of}
        /\ undo' = undo \ {u}
        /\ UNCHANGED <<asked, pos, field, onUar, status>>
  BY DEF Release
<1>2. /\ u.of[1] # "dbr_host" => u.by = "release"
      /\ u.of \in live \/ u.of[1] \in Rings
      /\ \A v \in undo : u.of = v.of => u = v \/ u.of[1] \in Rings
  BY DEF IInv, UndoInv
<1>3. u.turn \in Nat /\ \A v \in undo : v.turn \in Nat
  <2>1. \A v \in undo : v.turn \in 1 .. 28
    BY DEF IInv, TypeInv, TypeOK
  <2>2. \A n \in 1 .. 28 : n \in Nat
    OBVIOUS
  <2> QED BY <2>1, <2>2
<1>4. u.of \notin live => Refused(u)
  BY <1>2 DEF Refused, Rings
<1>5. UndoInv'
  <2>1. misused' = {}
    BY <1>1, <1>4 DEF IInv, UndoInv
  <2>2. ASSUME NEW v \in undo' PROVE v.of \in live' \/ v.of[1] \in Rings
    <3>1. v \in undo /\ v # u
      BY <1>1
    <3>2. v.of = u.of => u.of[1] \in Rings
      BY <1>2, <3>1
    <3>3. v.of \in live \/ v.of[1] \in Rings
      BY <3>1 DEF IInv, UndoInv
    <3> QED BY <1>1, <3>2, <3>3
  <2>3. undo' \subseteq undo /\ asked' = asked /\ onUar' = onUar
    BY <1>1
  <2>4. /\ \A v \in undo : v.of[1] # "dbr_host" => v.by = "release"
        /\ \A v, w \in undo : v.of = w.of => v = w \/ v.of[1] \in Rings
        /\ \A x \in onUar : ~asked.group => x \in {<<"qp", "main">>, <<"gverbs", "main">>}
    BY DEF IInv, UndoInv
  <2> QED BY <2>1, <2>2, <2>3, <2>4 DEF UndoInv, Rings
<1>6. ErrInv'
  <2> SUFFICES ASSUME ~Going, NoneLeaky', NEW x \in live' PROVE \E v \in undo' : v.of = x
    BY <1>1 DEF ErrInv, Going
  <2>1. leaky \subseteq leaky' /\ live' \subseteq live /\ "emulated" \notin leaky'
    BY <1>1 DEF NoneLeaky
  <2>2. PICK v \in undo : v.of = x
    BY <2>1 DEF IInv, ErrInv, NoneLeaky
  <2>3. v # u
    BY <1>1, <2>1, <2>2
  <2> QED BY <1>1, <2>2, <2>3
<1>7. OrderInv'
  <2> SUFFICES ASSUME "leftover" \notin leaky', NEW x \in live'
               PROVE  /\ StandsOn(x) \subseteq live'
                      /\ \A w \in undo' : w.of \in StandsOn(x) => \E v \in undo' : v.of = x /\ v.turn < w.turn
    BY <1>1, StandsFrozen DEF OrderInv
  <2>1. x \in live /\ "leftover" \notin leaky
    BY <1>1
  <2>2. /\ StandsOn(x) \subseteq live
        /\ \A w \in undo : w.of \in StandsOn(x) => \E v \in undo : v.of = x /\ v.turn < w.turn
    BY <2>1 DEF IInv, OrderInv
  <2>3. u.of \notin StandsOn(x)
    <3>1. SUFFICES ASSUME u.of \in StandsOn(x) PROVE FALSE
      OBVIOUS
    <3>2. PICK v \in undo : v.of = x /\ v.turn < u.turn
      BY <2>2, <3>1
    <3>3. u.turn <= v.turn
      BY <1>1
    <3> QED BY <1>3, <3>2, <3>3
  <2>4. StandsOn(x) \subseteq live'
    BY <1>1, <2>2, <2>3
  <2>5. ASSUME NEW w \in undo', w.of \in StandsOn(x)
        PROVE  \E v \in undo' : v.of = x /\ v.turn < w.turn
    <3>1. PICK v \in undo : v.of = x /\ v.turn < w.turn
      BY <1>1, <2>2, <2>5
    <3>2. CASE v # u
      BY <1>1, <3>1, <3>2
    <3>3. CASE v = u
      <4>1. u.of = x /\ Refused(u)
        BY <1>1, <3>1, <3>3
      <4>2. u.of[1] = "dbr_host"
        BY <2>1, <4>1 DEF Refused
      <4>3. x = <<"dbr_host", x[2]>>
        BY <2>1, <4>1, <4>2 DEF IInv, TypeInv, TypeOK, Resources
      <4>4. x \notin onUar \/ asked.group
        BY <4>3 DEF IInv, UndoInv
      <4>5. StandsOn(x) = {}
        BY <4>1, <4>2, <4>4 DEF StandsOn
      <4> QED BY <2>5, <4>5
    <3> QED BY <3>2, <3>3
  <2> QED BY <2>4, <2>5
<1>8. LiveInv'
  <2> SUFFICES ASSUME Going PROVE LiveInv'
    BY <1>1 DEF LiveInv, Going
  <2>1. /\ live \subseteq Resources
        /\ \A k \in Kinds, r \in Roles :
             <<k, r>> \in live <=> Steady(field, pos, k, r) \/ \E v \in undo : v.of = <<k, r>>
        /\ \A v \in undo : ~Steady(field, pos, v.of[1], v.of[2]) /\ v.of[1] # "dbr_host"
        /\ \A v, w \in undo : v.of = w.of => v = w
        /\ leaky \cap {"leftover", "emulated", "dmabuf"} = {}
    BY DEF IInv, LiveInv
  <2>2. PICK l \in Kinds, p \in Roles : u.of = <<l, p>>
    BY DEF IInv, TypeInv, TypeOK, Resources
  <2>3. u.of \in live
    BY <2>1, <2>2
  <2>4. ~Refused(u)
    BY <2>1, <2>3 DEF Refused
  <2>5. live' = live \ {u.of} /\ leaky' = leaky
    BY <1>1, <2>4
  <2>6. \A k \in Kinds, r \in Roles :
          <<k, r>> \in live' <=> Steady(field, pos, k, r) \/ \E v \in undo' : v.of = <<k, r>>
    <3> TAKE k \in Kinds, r \in Roles
    <3>1. CASE <<k, r>> = u.of
      <4>1. ~Steady(field, pos, k, r)
        <5>1. u.of[1] = k /\ u.of[2] = r
          BY <3>1
        <5> QED BY <2>1, <5>1
      <4>2. \A v \in undo' : v.of # u.of
        BY <1>1, <2>1
      <4> QED BY <2>5, <3>1, <4>1, <4>2
    <3>2. CASE <<k, r>> # u.of
      <4>1. (\E v \in undo : v.of = <<k, r>>) <=> \E v \in undo' : v.of = <<k, r>>
        BY <1>1, <3>2
      <4> QED BY <2>1, <2>5, <3>2, <4>1
    <3> QED BY <3>1, <3>2
  <2>7. \A k, r : Steady(field, pos, k, r)' <=> Steady(field, pos, k, r)
    <3>1. \A k, r : Steady(field, pos, k, r)' <=> Steady(field', pos', k, r)
      BY <1>1, SteadyFrozen
    <3> QED BY <1>1, <3>1
  <2>8. undo' \subseteq undo /\ live' \subseteq Resources
    BY <1>1, <2>1, <2>5
  <2> QED BY <2>1, <2>5, <2>6, <2>7, <2>8 DEF LiveInv
<1> QED BY <1>5, <1>6, <1>7, <1>8

(* The same, as an implication.                                            *)
LEMMA ClosedNow == TypeInv /\ FieldInv /\ LiveInv /\ UndoInv /\ Going /\ undo = {} => OrderInv
BY Closed

(* A successful stage.                                                     *)
LEMMA StepAcquire ==
  ASSUME IInv, NEW s, NEW r, Acquire(s, r)
  PROVE  LiveInv' /\ ErrInv' /\ UndoInv' /\ OrderInv'
<1>1. Running(s, r) /\ UNCHANGED <<asked, undo, misused, leaky>>
  BY DEF Acquire
<1>2. undo = {} /\ undo' = {} /\ s \in Stages /\ r \in Roles /\ Planned(r)
  BY <1>1, RunningAt DEF IInv
<1>3. Going'
  BY DEF Acquire, Going
<1>4. TypeInv' /\ FieldInv' /\ LiveInv'
  BY <1>2, HlTypeAcquire, FieldAcquire, LiveAcquire DEF IInv
<1>5. ErrInv'
  BY <1>3 DEF ErrInv
<1>6. UndoInv'
  <2>1. ASSUME NEW x \in onUar', ~asked.group PROVE x \in {<<"qp", "main">>, <<"gverbs", "main">>}
    <3>1. onUar' \subseteq onUar \cup (IF s \in {"qp", "gverbs"} THEN {<<KindOf(s), r>>} ELSE {})
      BY <2>1 DEF Acquire
    <3>2. s \in {"qp", "gverbs"} => KindOf(s) = s
      BY DEF KindOf
    <3>3. r = "main"
      BY <1>2, <2>1 DEF Planned
    <3> QED BY <2>1, <3>1, <3>2, <3>3 DEF IInv, UndoInv
  <2> QED BY <1>1, <1>2, <2>1 DEF IInv, UndoInv
<1>7. OrderInv'
  <2>1. (undo = {})'
    BY <1>2
  <2> QED BY <1>3, <1>4, <1>6, <2>1, ClosedNow, PTL
<1> QED BY <1>4, <1>5, <1>6, <1>7

(* A failure the caller is told of begins a whole path, if any.            *)
LEMMA StepTold ==
  ASSUME IInv, NEW s, NEW r, Fail(s, r), ~Silent(s)
  PROVE  LiveInv' /\ ErrInv' /\ UndoInv' /\ OrderInv'
<1>1. /\ Running(s, r) /\ UNCHANGED <<asked, handler, onUar, misused, list, listed>>
      /\ TypeInv /\ FieldInv /\ LiveInv /\ UndoInv /\ OrderInv
  BY FailCases DEF IInv
<1>2. /\ s \in Stages /\ r \in Roles /\ undo = {} /\ Going /\ pos \in 1 .. 28
      /\ \A q \in Roles : Fields(field, pos, q)
  BY <1>1, RunningAt, RunningPos DEF Going, FieldInv
<1>3. PICK left \in Left(s, r), fd \in BOOLEAN :
              /\ status' = "error" /\ pos' = pos
              /\ undo' = Undone(s, r, With(s, r, left))
              /\ live' = (IF fd THEN live \cup {<<"dmabuf", r>>} ELSE live)
              /\ leaky' = leaky \cup (IF fd THEN {"dmabuf"} ELSE {})
                            \cup ({s} \cap {"gverbs"})
                            \cup (IF left \in live /\ s # "dbr_mem" THEN {"leftover"} ELSE {})
  BY <1>1, FailCases
<1>4. ~Going' /\ leaky \subseteq leaky' /\ live \subseteq Resources
      /\ (live' = live \/ (live' = live \cup {<<"dmabuf", r>>} /\ "dmabuf" \in leaky'))
  BY <1>1, <1>2, <1>3, LiveIs DEF Going
<1>5. <<"cq", r>> \notin live \/ Past(pos, "cq", r)
  <2>1. Steady(field, pos, "cq", r) => Past(pos, "cq", r)
    BY <1>2 DEF Fields, Steady, Kinds
  <2> QED BY <1>1, <1>2, <2>1, LiveIs DEF Kinds
<1>6. <<"qp", r>> \notin live \/ Past(pos, "qp", r)
  <2>1. Steady(field, pos, "qp", r) => Past(pos, "qp", r)
    BY <1>2 DEF Fields, Steady, Kinds
  <2> QED BY <1>1, <1>2, <2>1, LiveIs DEF Kinds
<1>7. left # Null => /\ left[1] \in Rings
                     /\ Call(left) = "release"
                     /\ s \in {"cq_mem", "qp_mem"} => left \in live
                     /\ s = "dbr_mem" => left = <<"qp_mem", r>>
                     /\ s \in {"cq_mem", "qp_mem", "dbr_mem"}
  <2>1. field[r]["qp_mem"] # Null => field[r]["qp_mem"] = <<"qp_mem", r>>
    BY <1>2 DEF Fields, Has, Kinds
  <2>2. left # Null => s \in {"cq_mem", "qp_mem", "dbr_mem"} /\ left \in FailedAlloc(s, r)
    BY <1>3 DEF Left
  <2>3. left # Null /\ s = "dbr_mem" => left = <<"qp_mem", r>>
    BY <2>1, <2>2 DEF FailedAlloc
  <2>4. left # Null /\ s # "dbr_mem" => left \in live /\ left[1] \in Rings
    BY <2>2 DEF FailedAlloc, Rings
  <2>5. left # Null => left[1] \in Rings
    BY <2>3, <2>4 DEF Rings
  <2> QED BY <2>2, <2>3, <2>4, <2>5 DEF Call, Rings
<1>8. CASE s \in {"cq_attr", "cq_mem", "ring", "cq_umem", "cq"}
  <2> DEFINE S == CqErrorPath(field, r) \cup DestroyAll(field)
             X == IF left = Null THEN {} ELSE {[turn |-> 4, of |-> left, by |-> Call(left)]}
  <2>1. Match(S, CqPathKinds, CqTurn, r)
    BY <1>1, <1>8, MatchCq
  <2>2. PathOf(CqPathKinds, CqTurn, r)
    <3>1. ~Past(pos, "cq", r)
      BY <1>1, <1>2, <1>8, AtIs, RunningChain
    <3> QED BY <1>5, <3>1 DEF PathOf
  <2>3. undo' = S \cup X
    <3>1. undo' = CqErrorPath(With(s, r, left), r) \cup DestroyAll(With(s, r, left))
      BY <1>3, <1>8 DEF Undone
    <3>2. CASE left = Null
      BY <3>1, <3>2 DEF With
    <3>3. CASE left # Null
      <4>1. s = "cq_mem"
        BY <1>7, <1>8, <3>3
      <4>2. With(s, r, left) = [field EXCEPT ![r]["cq_mem"] = left]
        BY <3>3, <4>1 DEF With
      <4>3. /\ CqErrorPath(With(s, r, left), r) = CqErrorPath(field, r) \cup X
            /\ DestroyAll(With(s, r, left)) = DestroyAll(field)
        BY <1>1, <3>3, <4>1, <4>2, CqLeft
      <4> QED BY <3>1, <4>3
    <3> QED BY <3>2, <3>3
  <2>4. \A d, e \in X : d = e
    OBVIOUS
  <2>5. \A e \in X : /\ e.of[1] \in Rings /\ e.by = "release"
                     /\ "leftover" \in leaky'
    BY <1>3, <1>7, <1>8
  <2> HIDE DEF S, X
  <2> QED BY <1>1, <1>2, <1>4, <2>1, <2>2, <2>3, <2>4, <2>5, PathBegins
<1>9. CASE s \in {"qp_attr", "qp_mem", "qp_umem", "dbr_mem", "dbr_umem", "qp"}
  <2> DEFINE S == QpErrorPath(field, r) \cup DestroyAll(WithoutQp(field, r))
             X == IF left = Null THEN {} ELSE {[turn |-> QpTurn[s], of |-> left, by |-> Call(left)]}
  <2>1. Match(S, QpPathKinds, QpTurn, r)
    BY <1>1, <1>9, MatchQp
  <2>2. PathOf(QpPathKinds, QpTurn, r)
    <3>1. ~Past(pos, "qp", r)
      BY <1>1, <1>2, <1>9, AtIs, RunningChain
    <3> QED BY <1>6, <3>1 DEF PathOf
  <2>3. undo' = S \cup X
    <3>1. undo' = QpErrorPath(With(s, r, left), r) \cup DestroyAll(WithoutQp(With(s, r, left), r))
      BY <1>3, <1>9 DEF Undone
    <3>2. CASE left = Null
      BY <3>1, <3>2 DEF With
    <3>3. CASE left # Null
      <4>1. s \in {"qp_mem", "dbr_mem"} /\ left[1] \in Rings
        BY <1>7, <1>9, <3>3
      <4>2. With(s, r, left) = [field EXCEPT ![r][s] = left]
        BY <3>3 DEF With
      <4>3. /\ QpErrorPath([field EXCEPT ![r][s] = left], r)
                 = QpErrorPath(field, r) \cup {[turn |-> QpTurn[s], of |-> left, by |-> Call(left)]}
            /\ WithoutQp([field EXCEPT ![r][s] = left], r) = WithoutQp(field, r)
        BY <1>1, <3>3, <4>1, QpLeft
      <4>4. X = {[turn |-> QpTurn[s], of |-> left, by |-> Call(left)]}
        BY <3>3
      <4> HIDE DEF X
      <4> QED BY <3>1, <4>2, <4>3, <4>4
    <3> QED BY <3>2, <3>3
  <2>4. \A d, e \in X : d = e
    OBVIOUS
  <2>5. \A e \in X : /\ e.of[1] \in Rings /\ e.by = "release"
                     /\ "leftover" \in leaky' \/ (e.of = <<"qp_mem", r>> /\ e.turn = 5)
    <3>1. QpTurn["dbr_mem"] = 5
      BY DEF QpTurn
    <3> QED BY <1>3, <1>7, <1>9, <3>1
  <2> HIDE DEF S, X
  <2> QED BY <1>1, <1>2, <1>4, <2>1, <2>2, <2>3, <2>4, <2>5, PathBegins
<1>10. CASE s = "uar"
  <2>1. left = Null /\ With(s, r, left) = field
    BY <1>7, <1>10 DEF With
  <2>2. undo' = DestroyAll(field) \cup {}
    BY <1>3, <1>10, <2>1 DEF Undone
  <2>3. Match(DestroyAll(field), {}, CqTurn, r)
    <3>1. \A q \in Roles : ~Past(pos, "cq_attr", q) \/ (Past(pos, "cq", q) /\ ~Past(pos, "qp_attr", q))
      BY <1>1, <1>10, AtUar
    <3> QED BY <1>1, <1>2, <3>1, MatchDestroy
  <2>4. PathOf({}, CqTurn, r)
    BY DEF PathOf
  <2> QED BY <1>1, <1>2, <1>4, <2>2, <2>3, <2>4, PathBegins
<1>11. CASE s = "gverbs"
  <2>1. undo' = {} /\ "gverbs" \in leaky' /\ fd \in BOOLEAN
    BY <1>3, <1>11 DEF Undone
  <2>2. LiveInv' /\ ErrInv'
    BY <1>4, <2>1 DEF LiveInv, ErrInv, NoneLeaky
  <2>3. UndoInv'
    BY <1>1, <2>1 DEF UndoInv
  <2>4. OrderInv'
    <3> SUFFICES ASSUME "leftover" \notin leaky', NEW x \in live' PROVE StandsOn(x) \subseteq live'
      BY <1>1, <2>1, StandsFrozen DEF OrderInv
    <3>1. x \in live => StandsOn(x) \subseteq live
      BY <1>1, <1>4 DEF OrderInv
    <3>2. x \notin live => x = <<"dmabuf", r>>
      BY <1>4
    <3>3. <<"dmabuf", r>> \in onUar => asked.group
      BY <1>1 DEF UndoInv
    <3>4. StandsOn(<<"dmabuf", r>>) = {}
      BY <3>3 DEF StandsOn
    <3> QED BY <1>4, <3>1, <3>2, <3>4
  <2> QED BY <2>2, <2>3, <2>4
<1>12. s \in {"cq_attr", "cq_mem", "ring", "cq_umem", "cq"}
       \/ s \in {"qp_attr", "qp_mem", "qp_umem", "dbr_mem", "dbr_umem", "qp"}
       \/ s = "uar" \/ s = "gverbs"
  BY <1>2, StageNames DEF Silent
<1> QED BY <1>8, <1>9, <1>10, <1>11, <1>12

(* A destruction begins a path that releases all there is.                 *)
LEMMA StepDestroy ==
  ASSUME IInv, Destroy
  PROVE  LiveInv' /\ ErrInv' /\ UndoInv' /\ OrderInv'
<1>1. /\ TypeInv /\ FieldInv /\ LiveInv /\ UndoInv /\ OrderInv
      /\ status = "success" /\ Going /\ undo = {} /\ asked.group \in BOOLEAN
  BY DEF IInv, Destroy, Going, TypeInv, PosOK, AskedOK
<1>2. /\ undo' = DestroyAll(field) \cup {} /\ ~Going'
      /\ UNCHANGED <<asked, onUar, misused, live, leaky>>
  BY DEF Destroy, Going
<1>3. live \subseteq Resources
  BY <1>1, LiveIs
<1>4. pos \in 1 .. 28
  <2>1. pos \in 1 .. Len(Plan) + 1 /\ Len(Plan) \in 14 .. 27
    BY <1>1, WhenEnds DEF TypeInv, TypeOK
  <2>2. \A n \in 14 .. 27 : 1 .. n + 1 \subseteq 1 .. 28
    OBVIOUS
  <2> QED BY <2>1, <2>2, Zenon
<1>5. Match(DestroyAll(field), {}, CqTurn, "main")
  <2>1. \A q \in Roles : Past(pos, "gverbs", q) \/ ~Past(pos, "cq_attr", q)
    BY <1>1, AtEnd
  <2> QED BY <1>1, <1>4, <2>1, MatchDestroy
<1>6. PathOf({}, CqTurn, "main") /\ "main" \in Roles
  BY DEF PathOf, Roles
<1> QED BY <1>1, <1>2, <1>3, <1>5, <1>6, PathBegins

(* The flat lists touch nothing of it.                                     *)
LEMMA StepSame ==
  ASSUME IInv, FlatListCreate \/ FlatListDestroy \/ UNCHANGED vars
  PROVE  LiveInv' /\ ErrInv' /\ UndoInv' /\ OrderInv'
<1>1. UNCHANGED qpVars
  BY DEF FlatListCreate, FlatListDestroy, vars
<1>2. UNCHANGED <<asked, pos, undo, field, live, onUar, status, misused, leaky>>
  BY <1>1 DEF qpVars
<1>3. \A k, r : Steady(field, pos, k, r)' <=> Steady(field, pos, k, r)
  <2>1. \A k, r : Steady(field, pos, k, r)' <=> Steady(field', pos', k, r)
    BY <1>2, SteadyFrozen
  <2> QED BY <1>2, <2>1
<1>4. LiveInv'
  BY <1>2, <1>3 DEF IInv, LiveInv, Going
<1>5. ErrInv'
  BY <1>2 DEF IInv, ErrInv, Going, NoneLeaky
<1>6. UndoInv'
  BY <1>2 DEF IInv, UndoInv
<1>7. OrderInv'
  BY <1>2, StandsFrozen DEF IInv, OrderInv
<1> QED BY <1>4, <1>5, <1>6, <1>7

(* A silent failure releases what its function made, and the call goes on. *)
LEMMA StepSilent ==
  ASSUME IInv, NEW s, NEW r, Fail(s, r), Silent(s)
  PROVE  LiveInv' /\ ErrInv' /\ UndoInv' /\ OrderInv'
<1>1. /\ Running(s, r) /\ UNCHANGED <<asked, handler, onUar, misused, list, listed>>
      /\ TypeInv /\ FieldInv /\ LiveInv /\ UndoInv /\ OrderInv
  BY FailCases DEF IInv
<1>2. /\ s \in Stages /\ r \in Roles /\ undo = {} /\ Going /\ pos \in 1 .. 28
      /\ \A q \in Roles : Fields(field, pos, q)
  BY <1>1, RunningAt, RunningPos DEF Going, FieldInv
<1>3. /\ live' = live /\ status' = "running"
      /\ pos' = IF s = "uar" THEN pos + 1 ELSE pos + 3
      /\ undo' = CASE s = "cq_copy" -> CqErrorPath(field, r)
                   [] s = "dbr_mem" -> QpErrorPath(field, r)
                   [] OTHER -> {}
      /\ field' = IF s = "dbr_mem" THEN WithoutQp(field, r) ELSE field
      /\ leaky' = IF s = "dbr_mem" THEN leaky \cup {"dbr_host"} ELSE leaky
  BY <1>1, FailCases
<1>4. /\ live \subseteq Resources
      /\ \A k \in Kinds, q \in Roles : <<k, q>> \in live <=> Steady(field, pos, k, q)
      /\ \A k \in Kinds, q \in Roles : Steady(field, pos, k, q) => Has(field, k, q)
  BY <1>1, <1>2, LiveIs
<1>5. /\ Going' /\ leaky \subseteq leaky' /\ live' \subseteq Resources
      /\ leaky' \cap {"leftover", "emulated", "dmabuf"} = {}
  BY <1>1, <1>2, <1>3, <1>4 DEF Going, LiveInv
<1>6. \A k, q : Steady(field, pos, k, q)' <=> Steady(field', pos', k, q)
  BY <1>1, SteadyFrozen
<1>7. CASE s = "uar"
  <2>1. undo' = {} /\ field' = field /\ pos' = pos + 1
    BY <1>3, <1>7
  <2>2. ASSUME NEW k \in Kinds, NEW q \in Roles
        PROVE  Steady(field', pos', k, q) <=> Steady(field, pos, k, q)
    <3>1. Past(pos', "cq", q) <=> Past(pos, "cq", q)
      BY <1>1, <1>7, <2>1, PastNext DEF Stepped, Kinds
    <3> QED BY <2>1, <3>1, SameSteady
  <2>3. LiveInv'
    BY <1>3, <1>4, <1>5, <1>6, <2>1, <2>2 DEF LiveInv
  <2>4. UndoInv' /\ ErrInv'
    BY <1>1, <1>5, <2>1 DEF UndoInv, ErrInv
  <2>5. OrderInv'
    BY <1>1, <1>3, <1>5, <2>1, StandsFrozen DEF OrderInv
  <2> QED BY <2>3, <2>4, <2>5
<1>8. \A q \in Roles : EndTurn["gverbs"] = 1 /\ Turns(q) \in {6, 17}
  BY DEF Turns, EndTurn
<1>9. \A k \in EndKinds : EndTurn[k] \in 1 .. 11
  BY DEF EndKinds, EndTurn
<1>10. CASE s = "cq_copy"
  <2> DEFINE S == CqErrorPath(field, r) \cup DestroyAll(field)
  <2>1. Match(S, CqPathKinds, CqTurn, r)
    BY <1>1, <1>10, MatchCq
  <2>2. ~Past(pos, "cq", r) /\ ~Has(field, "cq", r)
    <3>1. ~Past(pos, "cq", r)
      BY <1>1, <1>2, <1>10, AtIs, RunningChain
    <3> QED BY <1>2, <3>1 DEF Fields, Kinds
  <2>3. PathOf(CqPathKinds, CqTurn, r)
    <3>1. ~Steady(field, pos, "cq", r)
      BY <2>2 DEF Steady
    <3> QED BY <1>2, <1>4, <3>1 DEF PathOf, Kinds
  <2>4. undo' = CqErrorPath(field, r) /\ pos' = pos + 3 /\ field' = field
    BY <1>3, <1>10
  <2>5. \A u : u \in undo' <=> \E k \in CqPathKinds : Has(field, k, r) /\ u = CqRec(k, r)
    BY <1>1, <1>2, <2>4, CqErrorPathIs
  <2>6. \A u \in undo', v \in S : v.turn < u.turn => v \in undo'
    <3>1. ASSUME NEW u \in undo' PROVE u.turn \in 1 .. 4
      <4>1. \A k \in CqPathKinds : CqTurn[k] \in 1 .. 4
        BY DEF CqPathKinds, CqTurn
      <4>2. PICK k \in CqPathKinds : u = CqRec(k, r)
        BY <2>5
      <4> QED BY <4>1, <4>2, RecFacts
    <3>2. ASSUME NEW v \in DestroyAll(field) PROVE v.turn \in 7 .. 28
      <4>1. \A q \in Roles, k \in Kinds : Has(field, k, q) => field[q][k] = <<k, q>> /\ Planned(q)
        BY <1>1, <1>2, HasPlanned
      <4>2. asked.group \in BOOLEAN
        BY <1>1 DEF TypeInv, AskedOK
      <4>3. v \in DestroyAll(field) <=> \E q \in Roles, k \in EndKinds : InEnd(field, k, q) /\ v = EndRec(k, q)
        BY <4>1, <4>2, DestroyAllIs
      <4>4. PICK q \in Roles, k \in EndKinds : v = EndRec(k, q)
        BY <4>3
      <4>5. v.turn = Turns(q) + EndTurn[k]
        BY <4>4, RecFacts
      <4> QED BY <1>8, <1>9, <4>5
    <3> QED BY <2>4, <3>1, <3>2
  <2>7. ErrInv' /\ UndoInv' /\ OrderInv'
    <3>1. undo' \subseteq S
      BY <2>4
    <3> HIDE DEF S
    <3> QED BY <1>1, <1>2, <1>3, <1>4, <1>5, <2>1, <2>3, <2>6, <3>1, PartBegins
  <2>8. \A k \in Stepped, q \in Roles :
          Past(pos', k, q) <=> Past(pos, k, q) \/ (q = r /\ k \in {"cq_copy", "cq_umem", "cq"})
    BY <1>1, <1>10, <2>4, CqSkip
  <2>9. Past(pos', "cq", r) /\ \A q \in Roles : q # r => (Past(pos', "cq", q) <=> Past(pos, "cq", q))
    BY <1>2, <2>8 DEF Stepped, Kinds
  <2>10. \A k \in Kinds, q \in Roles : q # r => (Steady(field', pos', k, q) <=> Steady(field, pos, k, q))
    BY <2>4, <2>9, SameSteady
  <2>11. \A k \in Kinds : /\ k \in CqPathKinds => ~Steady(field', pos', k, r) /\ (Steady(field, pos, k, r) <=> Has(field, k, r))
                          /\ k \notin CqPathKinds => (Steady(field', pos', k, r) <=> Steady(field, pos, k, r))
    BY <2>2, <2>4, <2>9 DEF Steady, CqPathKinds
  <2>12. \A k \in Kinds, q \in Roles : (\E u \in undo' : u.of = <<k, q>>) <=> q = r /\ k \in CqPathKinds /\ Has(field, k, r)
    <3> TAKE k \in Kinds, q \in Roles
    <3>1. ASSUME NEW u \in undo', u.of = <<k, q>> PROVE q = r /\ k \in CqPathKinds /\ Has(field, k, r)
      <4>1. PICK l \in CqPathKinds : Has(field, l, r) /\ u = CqRec(l, r)
        BY <2>5
      <4>2. u.of = <<l, r>>
        BY <4>1, RecFacts
      <4> QED BY <3>1, <4>1, <4>2
    <3>2. ASSUME q = r, k \in CqPathKinds, Has(field, k, r) PROVE \E u \in undo' : u.of = <<k, q>>
      <4>1. CqRec(k, r) \in undo' /\ CqRec(k, r).of = <<k, q>>
        BY <2>5, <3>2, RecFacts
      <4> QED BY <4>1
    <3> QED BY <3>1, <3>2
  <2>13. \A k \in Kinds, q \in Roles :
           <<k, q>> \in live <=> Steady(field', pos', k, q) \/ \E u \in undo' : u.of = <<k, q>>
    BY <1>4, <2>10, <2>11, <2>12
  <2>14. \A u \in undo' : ~Steady(field', pos', u.of[1], u.of[2]) /\ u.of[1] # "dbr_host"
    <3> TAKE u \in undo'
    <3>1. PICK l \in CqPathKinds : u = CqRec(l, r)
      BY <2>5
    <3>2. u.of[1] = l /\ u.of[2] = r
      BY <3>1, RecFacts
    <3>3. l \in Kinds /\ l # "dbr_host"
      BY DEF CqPathKinds, Kinds
    <3> QED BY <2>11, <3>2, <3>3
  <2>15. \A u, v \in undo' : u.of = v.of => u = v
    BY <2>1, <2>4 DEF Match
  <2>16. LiveInv'
    BY <1>3, <1>5, <1>6, <2>13, <2>14, <2>15 DEF LiveInv
  <2> QED BY <2>7, <2>16
<1>11. CASE s = "dbr_mem"
  <2> DEFINE g == WithoutQp(field, r)
             S == QpErrorPath(field, r) \cup DestroyAll(g)
  <2>1. Match(S, QpPathKinds, QpTurn, r)
    BY <1>1, <1>11, MatchQp
  <2>2. /\ ~Past(pos, "qp", r) /\ ~Past(pos, "dbr_host", r)
        /\ ~Has(field, "qp", r) /\ ~Has(field, "dbr_host", r)
    <3>1. ~Past(pos, "qp", r) /\ ~Past(pos, "dbr_host", r)
      BY <1>1, <1>2, <1>11, AtIs, RunningChain
    <3> QED BY <1>2, <3>1 DEF Fields, Kinds
  <2>3. PathOf(QpPathKinds, QpTurn, r)
    <3>1. ~Steady(field, pos, "qp", r)
      BY <2>2 DEF Steady
    <3> QED BY <1>2, <1>4, <3>1 DEF PathOf, Kinds
  <2>4. undo' = QpErrorPath(field, r) /\ pos' = pos + 3 /\ field' = g
    BY <1>3, <1>11
  <2>5. \A u : u \in undo' <=> \E k \in QpPathKinds : Has(field, k, r) /\ u = QpRec(k, r)
    BY <1>1, <1>2, <2>4, QpErrorPathIs
  <2>17. /\ \A q \in Roles, k \in Kinds : Has(g, k, q) <=> Has(field, k, q) /\ ~(q = r /\ k \in QpPathKinds)
         /\ \A q \in Roles, k \in Kinds : Has(g, k, q) => g[q][k] = field[q][k]
         /\ \A q \in Roles : q # r => g[q] = field[q]
    <3>0. field \in [Roles -> [Kinds -> Resources \cup {Null}]]
      BY <1>1 DEF TypeInv, TypeOK
    <3>1. \A q \in Roles, k \in Kinds : Has(g, k, q) <=> Has(field, k, q) /\ ~(q = r /\ k \in QpPathKinds)
      BY <1>2, <3>0, WithoutQpIs
    <3>2. \A q \in Roles, k \in Kinds : ~(q = r /\ k \in QpPathKinds) => g[q][k] = field[q][k]
      BY <1>2, <3>0, WithoutQpIs
    <3>3. \A q \in Roles : q # r => g[q] = field[q]
      BY <1>2, <3>0, WithoutQpIs
    <3> HIDE DEF g
    <3> QED BY <3>1, <3>2, <3>3
  <2> HIDE DEF g
  <2>6. \A u \in undo', v \in S : v.turn < u.turn => v \in undo'
    <3>1. ASSUME NEW u \in undo' PROVE u.turn \in 1 .. 6
      <4>1. \A k \in QpPathKinds : QpTurn[k] \in 1 .. 6
        BY DEF QpPathKinds, QpTurn
      <4>2. PICK k \in QpPathKinds : u = QpRec(k, r)
        BY <2>5
      <4> QED BY <4>1, <4>2, RecFacts
    <3>2. ASSUME NEW v \in DestroyAll(g) PROVE v.turn \in 7 .. 28
      <4>1. \A q \in Roles, k \in Kinds : Has(field, k, q) => field[q][k] = <<k, q>> /\ Planned(q)
        BY <1>1, <1>2, HasPlanned
      <4>6. \A q \in Roles, k \in Kinds : Has(g, k, q) => g[q][k] = <<k, q>> /\ Planned(q)
        BY <2>17, <4>1
      <4>2. asked.group \in BOOLEAN
        BY <1>1 DEF TypeInv, AskedOK
      <4>3. v \in DestroyAll(g) <=> \E q \in Roles, k \in EndKinds : InEnd(g, k, q) /\ v = EndRec(k, q)
        BY <4>2, <4>6, DestroyAllIs
      <4>4. PICK q \in Roles, k \in EndKinds : v = EndRec(k, q)
        BY <4>3
      <4>5. v.turn = Turns(q) + EndTurn[k]
        BY <4>4, RecFacts
      <4> QED BY <1>8, <1>9, <4>5
    <3> QED BY <2>4, <3>1, <3>2
  <2>7. ErrInv' /\ UndoInv' /\ OrderInv'
    <3>1. undo' \subseteq S
      BY <2>4
    <3> HIDE DEF S
    <3> QED BY <1>1, <1>2, <1>3, <1>4, <1>5, <2>1, <2>3, <2>6, <3>1, PartBegins
  <2>8. \A q \in Roles : Past(pos', "cq", q) <=> Past(pos, "cq", q)
    BY <1>1, <1>11, <2>4, QpSkip DEF Stepped, Kinds
  <2>10. \A k \in Kinds, q \in Roles : q # r => (Steady(field', pos', k, q) <=> Steady(field, pos, k, q))
    <3> SUFFICES ASSUME NEW k \in Kinds, NEW q \in Roles, q # r
                 PROVE  Steady(field', pos', k, q) <=> Steady(field, pos, k, q)
      OBVIOUS
    <3>1. field'[q] = field[q]
      BY <2>4, <2>17
    <3>2. Past(pos', "cq", q) <=> Past(pos, "cq", q)
      BY <2>8
    <3> QED BY <3>1, <3>2, SameSteady
  <2>11. \A k \in Kinds : /\ k \in QpPathKinds => ~Steady(field', pos', k, r) /\ (Steady(field, pos, k, r) <=> Has(field, k, r))
                          /\ k \notin QpPathKinds => (Steady(field', pos', k, r) <=> Steady(field, pos, k, r))
    <3> TAKE k \in Kinds
    <3>1. Has(g, k, r) <=> Has(field, k, r) /\ k \notin QpPathKinds
      BY <1>2, <2>17
    <3>2. Has(g, "cq", r) <=> Has(field, "cq", r)
      BY <1>2, <2>17 DEF Kinds, QpPathKinds
    <3>3. \A l \in QpPathKinds : l \notin {"cq_attr", "ring", "cq_mem", "cq_umem"}
      BY DEF QpPathKinds
    <3>4. "qp_attr" \in QpPathKinds
      BY DEF QpPathKinds
    <3>5. Past(pos', "cq", r) <=> Past(pos, "cq", r)
      BY <1>2, <2>8
    <3> QED BY <2>2, <2>4, <3>1, <3>2, <3>3, <3>4, <3>5 DEF Steady
  <2>12. \A k \in Kinds, q \in Roles : (\E u \in undo' : u.of = <<k, q>>) <=> q = r /\ k \in QpPathKinds /\ Has(field, k, r)
    <3> TAKE k \in Kinds, q \in Roles
    <3>1. ASSUME NEW u \in undo', u.of = <<k, q>> PROVE q = r /\ k \in QpPathKinds /\ Has(field, k, r)
      <4>1. PICK l \in QpPathKinds : Has(field, l, r) /\ u = QpRec(l, r)
        BY <2>5
      <4>2. u.of = <<l, r>>
        BY <4>1, RecFacts
      <4> QED BY <3>1, <4>1, <4>2
    <3>2. ASSUME q = r, k \in QpPathKinds, Has(field, k, r) PROVE \E u \in undo' : u.of = <<k, q>>
      <4>1. QpRec(k, r) \in undo' /\ QpRec(k, r).of = <<k, q>>
        BY <2>5, <3>2, RecFacts
      <4> QED BY <4>1
    <3> QED BY <3>1, <3>2
  <2>13. \A k \in Kinds, q \in Roles :
           <<k, q>> \in live <=> Steady(field', pos', k, q) \/ \E u \in undo' : u.of = <<k, q>>
    BY <1>4, <2>10, <2>11, <2>12
  <2>14. \A u \in undo' : ~Steady(field', pos', u.of[1], u.of[2]) /\ u.of[1] # "dbr_host"
    <3> TAKE u \in undo'
    <3>1. PICK l \in QpPathKinds : Has(field, l, r) /\ u = QpRec(l, r)
      BY <2>5
    <3>2. u.of[1] = l /\ u.of[2] = r
      BY <3>1, RecFacts
    <3>3. l \in Kinds /\ l # "dbr_host"
      BY <2>2, <3>1 DEF QpPathKinds, Kinds
    <3> QED BY <2>11, <3>2, <3>3
  <2>15. \A u, v \in undo' : u.of = v.of => u = v
    BY <2>1, <2>4 DEF Match
  <2>16. LiveInv'
    BY <1>3, <1>5, <1>6, <2>13, <2>14, <2>15 DEF LiveInv
  <2> QED BY <2>7, <2>16
<1> QED BY <1>7, <1>10, <1>11 DEF Silent

-----------------------------------------------------------------------------
(* The invariant holds when a call begins, and at every step.              *)
LEMMA InvInit == Init => IInv
<1> SUFFICES ASSUME Init PROVE IInv
  OBVIOUS
<1>1. TypeInv
  BY HlTypeInit
<1>2. pos = 1 /\ live = {} /\ undo = {} /\ leaky = {} /\ misused = {} /\ onUar = {} /\ Going /\ asked.group \in BOOLEAN
  BY <1>1 DEF Init, Going, TypeInv, AskedOK
<1>3. \A k \in Kinds, r \in Roles : ~Has(field, k, r)
  BY DEF Init, Has, NoFields
<1>4. \A k \in Stepped, r \in Roles : ~Past(pos, k, r)
  BY <1>2, WhenType DEF Past
<1>5. ASSUME NEW r \in Roles PROVE Fields(field, pos, r)
  <2>1. QpKinds \subseteq Kinds /\ CqKinds \subseteq Kinds /\ Kinds \subseteq Stepped
    BY KindOfDbr DEF QpKinds, CqKinds, Kinds, Stepped
  <2>2. {"ring", "gverbs", "cq", "qp", "qp_attr", "qp_umem", "dbr_umem", "dbr_mem", "dbr_host"} \subseteq Kinds
    BY DEF Kinds
  <2>3. \A k \in Kinds : ~Has(field, k, r) /\ ~Past(pos, k, r)
    BY <1>3, <1>4, <2>1
  <2> QED BY <2>1, <2>2, <2>3 DEF Fields
<1>6. FieldInv
  BY <1>3, <1>5 DEF FieldInv, Kinds
<1>7. LiveInv
  BY <1>2, <1>3 DEF LiveInv, Steady
<1>8. ErrInv /\ UndoInv /\ OrderInv
  BY <1>2 DEF ErrInv, UndoInv, OrderInv
<1> QED BY <1>1, <1>6, <1>7, <1>8 DEF IInv

LEMMA InvNext == IInv /\ [Next]_vars => IInv'
<1> SUFFICES ASSUME IInv, [Next]_vars PROVE IInv'
  OBVIOUS
<1>0. TypeInv /\ FieldInv
  BY DEF IInv
<1>1. ASSUME NEW s \in Stages, NEW r \in Roles, Acquire(s, r) PROVE IInv'
  <2>1. TypeInv' /\ FieldInv'
    BY <1>0, <1>1, HlTypeAcquire, FieldAcquire
  <2>2. LiveInv' /\ ErrInv' /\ UndoInv' /\ OrderInv'
    BY <1>1, StepAcquire
  <2> QED BY <2>1, <2>2 DEF IInv
<1>2. ASSUME NEW s \in Stages, NEW r \in Roles, Fail(s, r) PROVE IInv'
  <2>1. TypeInv' /\ FieldInv'
    BY <1>0, <1>2, HlTypeFail, FieldFail
  <2>2. LiveInv' /\ ErrInv' /\ UndoInv' /\ OrderInv'
    BY <1>2, StepSilent, StepTold
  <2> QED BY <2>1, <2>2 DEF IInv
<1>3. CASE Release \/ Destroy \/ FlatListCreate \/ FlatListDestroy \/ UNCHANGED vars
  <2>1. TypeInv' /\ FieldInv'
    BY <1>0, <1>3, HlTypeRest, FieldRest
  <2>2. LiveInv' /\ ErrInv' /\ UndoInv' /\ OrderInv'
    BY <1>3, StepRelease, StepDestroy, StepSame
  <2> QED BY <2>1, <2>2 DEF IInv
<1> QED BY <1>1, <1>2, <1>3 DEF Next

LEMMA Invariant == Spec => []IInv
<1> QED BY InvInit, InvNext, PTL DEF Spec

(* What the invariant implies: a call that succeeded has all of its QPs,   *)
(* one that ended otherwise has nothing left.                              *)
LEMMA InvWhole == IInv => AllOrNothing
<1> SUFFICES ASSUME IInv PROVE AllOrNothing
  OBVIOUS
<1>1. ASSUME status \in {"error", "destroyed"}, undo = {},
             leaky \cap {"gverbs", "dbr_host", "dmabuf", "emulated"} = {}
      PROVE  live = {}
  BY <1>1 DEF IInv, ErrInv, Going, NoneLeaky
<1>2. ASSUME status = "success" PROVE SuccessIsWhole
  <2>1. /\ TypeInv /\ FieldInv /\ LiveInv /\ Going /\ undo = {} /\ asked.group \in BOOLEAN
        /\ \A q \in Roles : Fields(field, pos, q) /\ (Has(field, "qp", q) => handler[q] = Resolved)
    BY <1>2 DEF IInv, TypeInv, PosOK, AskedOK, Going, FieldInv
  <2>2. /\ live \subseteq Resources
        /\ \A k \in Kinds, q \in Roles : <<k, q>> \in live <=> Steady(field, pos, k, q)
        /\ \A k \in Kinds, q \in Roles : Steady(field, pos, k, q) => Has(field, k, q)
    BY <2>1, LiveIs
  <2>3. pos \in 1 .. 28
    <3>1. pos \in 1 .. Len(Plan) + 1 /\ Len(Plan) \in 14 .. 27
      BY <2>1, WhenEnds DEF TypeInv, TypeOK
    <3>2. \A n \in 14 .. 27 : 1 .. n + 1 \subseteq 1 .. 28
      OBVIOUS
    <3> QED BY <3>1, <3>2, Zenon
  <2> DEFINE Kept == {"cq_mem", "cq_umem", "cq", "qp_mem", "qp_umem", "dbr_umem", "qp", "gverbs", KindOf("dbr_mem")}
  <2>4. \A q \in Roles, k \in Kinds : Has(field, k, q) => Planned(q) /\ Past(pos, k, q)
    BY <2>1, HasPlanned DEF Fields
  <2>5. ASSUME NEW q \in Roles, Planned(q)
        PROVE  /\ \A k \in Kept : Has(field, k, q)
               /\ Has(field, "qp_attr", q) /\ Past(pos, "cq", q) /\ Has(field, "uar", "main")
    <3>1. Past(pos, "gverbs", q)
      BY <1>2, <2>1, <2>5, AtEnd
    <3>2. Has(field, "gverbs", q) /\ Has(field, "qp", q)
      BY <2>1, <3>1 DEF Fields
    <3>3. Has(field, "cq", q) /\ Has(field, "cq_mem", q) /\ Has(field, "cq_umem", q)
      BY <2>1, <3>2 DEF Fields
    <3>4. \A k \in QpKinds : Has(field, k, q)
      BY <2>1, <3>2 DEF Fields
    <3>5. Past(pos, "cq", q)
      BY <2>4, <3>3 DEF Kinds
    <3>6. Has(field, "uar", "main")
      BY <2>1, <3>4 DEF Fields, QpKinds
    <3> QED BY <3>2, <3>3, <3>4, <3>5, <3>6 DEF QpKinds
  <2>6. \A k \in Kinds : k \in Kept \cup {"uar", "qp_attr", "cq_attr", "ring"} \/ (k \in {"dbr_mem", "dbr_host"} /\ k # KindOf("dbr_mem"))
    BY KindOfDbr DEF Kinds
  <2>7. Kept \subseteq Kinds /\ "uar" \in Kinds /\ "qp_attr" \in Kinds
        /\ \A k \in Kept : k \notin {"uar", "qp_attr", "cq_attr", "ring"} /\ (k \in {"dbr_mem", "dbr_host"} => k = KindOf("dbr_mem"))
    BY KindOfDbr DEF Kinds
  <2>8. ASSUME NEW q \in Roles, NEW k \in Kinds
        PROVE  <<k, q>> \in live <=> Planned(q) /\ (k \in Kept \/ (k = "uar" /\ q = "main"))
    <3>1. ASSUME <<k, q>> \in live PROVE Planned(q) /\ (k \in Kept \/ (k = "uar" /\ q = "main"))
      <4>1. Steady(field, pos, k, q) /\ Has(field, k, q)
        BY <2>2, <3>1
      <4>2. Planned(q) /\ Past(pos, k, q)
        BY <2>4, <4>1
      <4>3. k \notin {"cq_attr", "ring", "qp_attr"}
        <5>1. Has(field, "qp", q) /\ Past(pos, "cq", q)
          BY <2>5, <4>2
        <5> QED BY <4>1, <5>1 DEF Steady
      <4>4. k = "uar" => q = "main"
        <5>1. ~(Never < pos)
          BY <2>3 DEF Never
        <5>2. When("uar", "companion") = Never
          BY <2>1, WhenEnds
        <5>3. ~Past(pos, "uar", "companion")
          BY <5>1, <5>2 DEF Past
        <5> QED BY <4>2, <5>3 DEF Roles
      <4>5. k \in {"dbr_mem", "dbr_host"} => k = KindOf("dbr_mem")
        BY <2>1, <4>1, KindOfDbr DEF Fields
      <4> QED BY <2>6, <4>2, <4>3, <4>4, <4>5
    <3>2. ASSUME Planned(q), k \in Kept PROVE <<k, q>> \in live
      <4>1. Has(field, k, q) /\ Has(field, "cq", q) /\ k \notin {"qp_attr", "cq_attr", "ring"}
        BY <2>5, <2>7, <3>2
      <4>2. Steady(field, pos, k, q)
        BY <4>1 DEF Steady
      <4> QED BY <2>2, <4>2
    <3>3. ASSUME k = "uar", q = "main" PROVE <<k, q>> \in live
      <4>1. Has(field, "uar", "main")
        BY <2>5 DEF Planned, Roles
      <4>2. Steady(field, pos, k, q)
        BY <3>3, <4>1 DEF Steady
      <4> QED BY <2>2, <4>2
    <3> QED BY <3>1, <3>2, <3>3
  <2>9. ASSUME NEW q \in Roles, NEW k, NEW p
        PROVE  <<k, p>> \in Whole(q) <=> (p = q /\ k \in Kept) \/ (k = "uar" /\ p = "main")
    BY DEF Whole
  <2>10. \A x \in Whole("main") \cup Whole("companion") : x \in Resources
    <3>1. \A k \in Kept : k \in Kinds
      BY <2>7
    <3> HIDE DEF Kept
    <3>2. \A q \in Roles : Whole(q) = {<<k, q>> : k \in Kept} \cup {<<"uar", "main">>}
      BY DEF Whole, Kept
    <3> QED BY <2>7, <3>1, <3>2 DEF Resources, Roles
  <2>11. live = Whole("main") \cup IF asked.group THEN Whole("companion") ELSE {}
    <3> HIDE DEF Kept
    <3> DEFINE W == Whole("main") \cup IF asked.group THEN Whole("companion") ELSE {}
    <3>1. \A k \in Kinds, q \in Roles : <<k, q>> \in W <=> <<k, q>> \in live
      BY <2>8, <2>9 DEF Roles, Planned
    <3>2. W \subseteq Resources
      BY <2>10
    <3> HIDE DEF W
    <3>3. \A x \in Resources : \E k \in Kinds, q \in Roles : x = <<k, q>>
      BY DEF Resources
    <3>4. W \subseteq live /\ live \subseteq W
      BY <2>2, <3>1, <3>2, <3>3
    <3>5. live = W
      BY <3>4
    <3> QED BY <3>5 DEF W
  <2>12. ASSUME NEW r \in Roles, <<"qp", r>> \in live PROVE RecordReachable(r)
    <3>1. Planned(r) /\ Has(field, "qp", r)
      BY <2>2, <2>8, <2>12, <2>7
    <3>2. handler[r] = Resolved
      BY <2>1, <3>1
    <3>3. <<KindOf("dbr_mem"), r>> \in live
      BY <2>7, <2>8, <3>1
    <3> QED BY <3>2, <3>3 DEF RecordReachable, DbrOnHost, KindOf
  <2> QED BY <2>11, <2>12 DEF SuccessIsWhole
<1> QED BY <1>1, <1>2 DEF AllOrNothing, SuccessIsWhole

(* And what is live stands on what is live.                                *)
LEMMA InvOrder == IInv => ReleasedInOrder
BY DEF IInv, UndoInv, OrderInv, ReleasedInOrder

(* Every variable of the creation keeps its type, and a QP that lives has  *)
(* a handler that is not AUTO: create_qp resolves it before the QP is made.*)
THEOREM CreationTyped == Spec => []TypeOK
<1>1. IInv => TypeOK
  BY DEF IInv, TypeInv
<1> QED BY <1>1, Invariant, PTL

(* doca_gpu_verbs_create_qp_hl() and its group form return DOCA_SUCCESS    *)
(* with all there is of each QP, its doorbell record where its writer can  *)
(* store to it; an error, or a destruction, leaves nothing behind, but for *)
(* the four failures whose error path is incomplete.  For whichever stages *)
(* may fail, in whichever call.                                            *)
THEOREM CreatesAllOrNothing == Spec => []AllOrNothing
BY InvWhole, Invariant, PTL

(* The error paths of create_cq, create_qp and their callers, and          *)
(* destroy_qp_hl_internal, release each thing once, by its own allocator,  *)
(* and before what it stands on.                                           *)
THEOREM ReleasesInOrder == Spec => []ReleasedInOrder
BY InvOrder, Invariant, PTL

(* All three hold beside the layout of queues, as they are checked.        *)
THEOREM CreationBesideLayout == HlSpec => [](TypeOK /\ AllOrNothing /\ ReleasedInOrder)
<1>1. HlInit => Init
  BY DEF HlInit, IdleCreation
<1>2. [HlNext]_<<part, vars, qlVars>> => [Next]_vars
  BY DEF HlNext
<1>3. HlSpec => Spec
  BY <1>1, <1>2, PTL DEF HlSpec, Spec
<1> QED BY <1>3, CreationTyped, CreatesAllOrNothing, ReleasesInOrder, PTL
=============================================================================
