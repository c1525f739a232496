----------------------------- MODULE Arithmetic -----------------------------
(***************************************************************************)
(* Facts about whole numbers that the proofs share: quotients and          *)
(* remainders by a number that is not a constant, which the prover knows   *)
(* only by their definition; and induction, stated with sets and functions *)
(* for the operators of the library's theorems.                            *)
(***************************************************************************)
EXTENDS Bits, TLAPS
LOCAL INSTANCE WellFoundedInduction

-----------------------------------------------------------------------------
(* Counting modulo P.                                                      *)

(* Consecutive multiples of P are at least P apart.                        *)
LEMMA MultiplesApart ==
    ASSUME NEW P \in Nat \ {0}, NEW a \in Int, NEW b \in Int, a < b
    PROVE  P * a + P <= P * b
<1>1. PICK d \in Nat : b = a + 1 + d
  <2>1. b - a - 1 \in Nat  OBVIOUS
  <2> QED  BY <2>1
<1>2. P * (a + 1 + d) = P * a + P + P * d  OBVIOUS
<1>3. P * d >= 0  OBVIOUS
<1>4. P * a \in Int /\ P * d \in Int /\ P * b \in Int  OBVIOUS
<1> QED  BY <1>1, <1>2, <1>3, <1>4

(* Quotient and remainder.                                                 *)
LEMMA Division ==
    ASSUME NEW P \in Nat \ {0}, NEW n \in Int
    PROVE  n \div P \in Int /\ n % P \in 0 .. (P - 1) /\ n = P * (n \div P) + (n % P)
OBVIOUS

(* The remainder is the only one in its range.                             *)
LEMMA RemainderUnique ==
    ASSUME NEW P \in Nat \ {0}, NEW q \in Int, NEW s \in 0 .. (P - 1),
           NEW m \in Int, m = P * q + s
    PROVE  m % P = s
<1> DEFINE k == m \div P
           r == m % P
<1>1. k \in Int /\ r \in 0 .. (P - 1) /\ m = P * k + r  BY Division
<1> HIDE DEF k, r
<1>2. P * k \in Int /\ P * q \in Int  BY <1>1
<1>3. ~(k < q)
  <2> SUFFICES ASSUME k < q PROVE FALSE  OBVIOUS
  <2>1. P * k + P <= P * q  BY <1>1, MultiplesApart
  <2> QED  BY <1>1, <1>2, <2>1
<1>4. ~(q < k)
  <2> SUFFICES ASSUME q < k PROVE FALSE  OBVIOUS
  <2>1. P * q + P <= P * k  BY <1>1, MultiplesApart
  <2> QED  BY <1>1, <1>2, <2>1
<1>5. q = k  BY <1>1, <1>3, <1>4
<1>6. r = s  BY <1>1, <1>2, <1>5
<1> QED  BY <1>6 DEF r

(* The remainder of the next number is the next remainder, or zero.        *)
LEMMA RemainderOfNext ==
    ASSUME NEW P \in Nat \ {0}, NEW n \in Nat
    PROVE  (n + 1) % P = IF n % P = P - 1 THEN 0 ELSE (n % P) + 1
<1> DEFINE k == n \div P
           r == n % P
<1>1. k \in Int /\ r \in 0 .. (P - 1) /\ n = P * k + r  BY Division
<1> HIDE DEF k, r
<1>2. P * k \in Int  BY <1>1
<1>3. CASE r = P - 1
  <2>1. P * (k + 1) = P * k + P  BY <1>1
  <2>2. n + 1 = P * (k + 1) + 0  BY <1>1, <1>2, <1>3, <2>1
  <2>3. k + 1 \in Int /\ 0 \in 0 .. (P - 1) /\ n + 1 \in Int  BY <1>1
  <2>4. (n + 1) % P = 0  BY ONLY <2>2, <2>3, RemainderUnique, P \in Nat \ {0}
  <2> QED  BY <1>3, <2>4 DEF r
<1>4. CASE r # P - 1
  <2>1. n + 1 = P * k + (r + 1)  BY <1>1, <1>2
  <2>2. r + 1 \in 0 .. (P - 1) /\ n + 1 \in Int  BY <1>1, <1>4
  <2>3. (n + 1) % P = r + 1  BY <1>1, <2>1, <2>2, RemainderUnique
  <2> QED  BY <1>4, <2>3 DEF r
<1> QED  BY <1>3, <1>4

-----------------------------------------------------------------------------
(* Products and quotients.                                                 *)

(* The sign of a product.                                                  *)
LEMMA ProductSign ==
    ASSUME NEW a \in Int, NEW b \in Int
    PROVE  /\ a * b \in Int
           /\ (a >= 0 /\ b >= 0) \/ (a <= 0 /\ b <= 0) => a * b >= 0
           /\ (a >= 0 /\ b <= 0) \/ (a <= 0 /\ b >= 0) => a * b <= 0
OBVIOUS

(* A product grows with either factor.                                     *)
LEMMA ProductGrows ==
    ASSUME NEW P \in Nat, NEW a \in Int, NEW b \in Int, a <= b
    PROVE  P * a <= P * b
<1>1. PICK d \in Nat : b = a + d
  <2>1. b - a \in Nat  OBVIOUS
  <2> QED  BY <2>1
<1>2. P * (a + d) = P * a + P * d  OBVIOUS
<1>3. P * d >= 0 /\ P * a \in Int /\ P * d \in Int  OBVIOUS
<1> QED  BY <1>1, <1>2, <1>3

(* A quotient keeps the order of the numbers divided.                      *)
LEMMA QuotientGrows ==
    ASSUME NEW P \in Nat \ {0}, NEW a \in Int, NEW b \in Int, a <= b
    PROVE  a \div P <= b \div P
<1> DEFINE j == a \div P
           k == b \div P
<1>1. /\ j \in Int /\ a % P \in 0 .. (P - 1) /\ a = P * j + (a % P)
      /\ k \in Int /\ b % P \in 0 .. (P - 1) /\ b = P * k + (b % P)
  BY Division
<1> HIDE DEF j, k
<1> SUFFICES ASSUME k < j PROVE FALSE  BY <1>1 DEF j, k
<1>2. P * k + P <= P * j  BY <1>1, MultiplesApart
<1>3. P * k \in Int /\ P * j \in Int  BY <1>1
<1> QED  BY <1>1, <1>2, <1>3

(* What a quotient lies between.                                           *)
LEMMA QuotientRange ==
    ASSUME NEW P \in Nat \ {0}, NEW n \in Int,
           NEW low \in Int, NEW high \in Int,
           P * low <= n, n < P * high + P
    PROVE  n \div P \in low .. high
<1> DEFINE k == n \div P
<1>1. k \in Int /\ n % P \in 0 .. (P - 1) /\ n = P * k + (n % P)  BY Division
<1> HIDE DEF k
<1>2. P * k \in Int /\ P * low \in Int /\ P * high \in Int  BY <1>1
<1>3. low <= k
  <2> SUFFICES ASSUME k < low PROVE FALSE  BY <1>1
  <2>1. P * k + P <= P * low  BY <1>1, MultiplesApart
  <2> QED  BY <1>1, <1>2, <2>1
<1>4. k <= high
  <2> SUFFICES ASSUME high < k PROVE FALSE  BY <1>1
  <2>1. P * high + P <= P * k  BY <1>1, MultiplesApart
  <2> QED  BY <1>1, <1>2, <2>1
<1> QED  BY <1>1, <1>3, <1>4 DEF k

-----------------------------------------------------------------------------
(* Induction and recursion.                                                *)

(* A set that holds 0 and the successor of each of its numbers holds all.  *)
LEMMA Induction ==
    ASSUME NEW S, 0 \in S, \A n \in Nat : n \in S => n + 1 \in S
    PROVE  Nat \subseteq S
<1> SUFFICES ASSUME NEW m \in Nat \ S PROVE FALSE  OBVIOUS
<1> DEFINE T == Nat \ S
           R == OpToRel(<, Nat)
<1>1. T \subseteq Nat /\ T # {}  OBVIOUS
<1>2. IsWellFoundedOn(R, Nat)  BY NatLessThanWellFounded
<1>3. ASSUME NEW x \in Nat, NEW y \in Nat, x < y
      PROVE  <<x, y>> \in R
  BY <1>3 DEF OpToRel
<1>4. PICK n \in T : \A k \in T : ~(<<k, n>> \in R)
  <2> HIDE DEF R, T
  <2> QED  BY <1>1, <1>2, WFMin
<1>5. n \in Nat \ {0} /\ n - 1 \in Nat /\ n - 1 < n /\ (n - 1) + 1 = n  OBVIOUS
<1>6. <<n - 1, n>> \in R
  <2> HIDE DEF R
  <2> QED  BY <1>3, <1>5
<1>7. n - 1 \notin T
  <2> HIDE DEF R
  <2> QED  BY <1>4, <1>6
<1> QED  BY <1>5, <1>7

(* h goes from `base` on as g says: h[i] is g of h[i - 1] and i.           *)
Solves(h, A, base, g, n) ==
    /\ h \in [0 .. n -> A]
    /\ h[0] = base
    /\ \A i \in 1 .. n : h[i] = g[<<h[i - 1], i>>]

(* Every such recursion has a solution.                                    *)
LEMMA Recursion ==
    ASSUME NEW A, NEW base \in A, NEW g \in [A \X Nat -> A], NEW n \in Nat
    PROVE  \E h : Solves(h, A, base, g, n)
<1> DEFINE S == {k \in Nat : \E h : Solves(h, A, base, g, k)}
<1>1. 0 \in S
  <2> DEFINE h == [i \in 0 .. 0 |-> base]
  <2>1. Solves(h, A, base, g, 0)  BY DEF Solves
  <2> QED  BY <2>1
<1>2. ASSUME NEW k \in Nat, k \in S
      PROVE  k + 1 \in S
  <2>1. PICK f : Solves(f, A, base, g, k)  BY <1>2
  <2> DEFINE next == g[<<f[k], k + 1>>]
             more == [i \in 0 .. k + 1 |-> IF i = k + 1 THEN next ELSE f[i]]
  <2>2. next \in A  BY <2>1 DEF Solves
  <2>3. more \in [0 .. k + 1 -> A]  BY <2>1, <2>2 DEF Solves
  <2>4. more[0] = base  BY <2>1 DEF Solves
  <2>5. ASSUME NEW i \in 1 .. k + 1
        PROVE  more[i] = g[<<more[i - 1], i>>]
    <3>1. CASE i = k + 1
      <4>1. i - 1 = k /\ k \in 0 .. k + 1 /\ k # k + 1  BY <3>1
      <4>2. more[i] = next /\ more[i - 1] = f[k]  BY ONLY <3>1, <4>1, i \in 1 .. k + 1
      <4> QED  BY ONLY <3>1, <4>2
    <3>2. CASE i # k + 1
      <4>1. i \in 1 .. k /\ i - 1 \in 0 .. k /\ i - 1 # k + 1  BY <3>2
      <4>2. more[i] = f[i] /\ more[i - 1] = f[i - 1]  BY <3>2, <4>1
      <4>3. f[i] = g[<<f[i - 1], i>>]  BY ONLY <2>1, <4>1 DEF Solves
      <4> QED  BY ONLY <4>2, <4>3
    <3> QED  BY <3>1, <3>2
  <2>6. Solves(more, A, base, g, k + 1)
    <3> HIDE DEF more
    <3> QED  BY <2>3, <2>4, <2>5 DEF Solves
  <2> HIDE DEF more
  <2> QED  BY <2>6
<1>3. Nat \subseteq S
  <2> HIDE DEF S
  <2> QED  BY <1>1, <1>2, Induction
<1> QED  BY <1>3

(* The exclusive-or of anything is a byte: eight bits, one after another.  *)
LEMMA ExclusiveOrResult ==
    ASSUME NEW a, NEW b
    PROVE  ExclusiveOr(a, b) \in 0 .. 255
<1> DEFINE bit == [i \in Nat |-> IF (a \div 2^(8 - i)) % 2 = (b \div 2^(8 - i)) % 2
                                 THEN 0 ELSE 1]
           g == [p \in Nat \X Nat |-> bit[p[2]] + 2 * p[1]]
           sum == CHOOSE s : s = [i \in 0 .. 8 |->
                                     IF i = 0 THEN 0
                                     ELSE (IF (a \div 2^(8 - i)) % 2 = (b \div 2^(8 - i)) % 2
                                           THEN 0 ELSE 1) + 2 * s[i - 1]]
<1>1. ExclusiveOr(a, b) = sum[8]  BY DEF ExclusiveOr
<1>2. \A i \in Nat : bit[i] \in {0, 1}  OBVIOUS
<1>3. \A i \in 1 .. 8 :
         bit[i] = IF (a \div 2^(8 - i)) % 2 = (b \div 2^(8 - i)) % 2 THEN 0 ELSE 1
  OBVIOUS
<1> HIDE DEF bit
<1>4. g \in [Nat \X Nat -> Nat]
  <2>1. \A k \in Nat, x \in {0, 1} : x + 2 * k \in Nat  OBVIOUS
  <2> QED  BY <1>2, <2>1
<1>5. \A k, i \in Nat : g[<<k, i>>] = bit[i] + 2 * k  OBVIOUS
<1> HIDE DEF g
<1>6. PICK h : Solves(h, Nat, 0, g, 8)  BY <1>4, Recursion
<1>7. \A i \in 1 .. 8 : h[i - 1] \in Nat /\ h[i] = bit[i] + 2 * h[i - 1]
  BY <1>5, <1>6 DEF Solves
<1>8. h = [i \in 0 .. 8 |->
              IF i = 0 THEN 0
              ELSE (IF (a \div 2^(8 - i)) % 2 = (b \div 2^(8 - i)) % 2 THEN 0 ELSE 1)
                   + 2 * h[i - 1]]
  <2>1. ASSUME NEW i \in 1 .. 8
        PROVE  h[i] = (IF (a \div 2^(8 - i)) % 2 = (b \div 2^(8 - i)) % 2 THEN 0 ELSE 1)
                      + 2 * h[i - 1]
    BY ONLY <1>3, <1>7
  <2> QED  BY <1>6, <2>1 DEF Solves
<1>9. sum = [i \in 0 .. 8 |->
                IF i = 0 THEN 0
                ELSE (IF (a \div 2^(8 - i)) % 2 = (b \div 2^(8 - i)) % 2 THEN 0 ELSE 1)
                     + 2 * sum[i - 1]]
  BY <1>8
<1> HIDE DEF sum
<1>10. sum[0] = 0 /\ \A i \in 1 .. 8 : sum[i] = bit[i] + 2 * sum[i - 1]
  BY <1>3, <1>9
<1>11. sum[1] \in 0 .. 1  BY <1>2, <1>10
<1>12. sum[2] \in 0 .. 3  BY <1>2, <1>10, <1>11
<1>13. sum[3] \in 0 .. 7  BY <1>2, <1>10, <1>12
<1>14. sum[4] \in 0 .. 15  BY <1>2, <1>10, <1>13
<1>15. sum[5] \in 0 .. 31  BY <1>2, <1>10, <1>14
<1>16. sum[6] \in 0 .. 63  BY <1>2, <1>10, <1>15
<1>17. sum[7] \in 0 .. 127  BY <1>2, <1>10, <1>16
<1>18. sum[8] \in 0 .. 255  BY <1>2, <1>10, <1>17
<1> QED  BY <1>1, <1>18
=============================================================================
