----------------------------- MODULE NatLemmas -----------------------------
(***************************************************************************)
(* Facts about natural numbers that the proofs about page numbers, bitmap  *)
(* words and table indices need: order and multiplication, quotient and    *)
(* remainder by a divisor that is a parameter, least elements, from which  *)
(* induction over a set follows, and recursive definitions.                *)
(***************************************************************************)
EXTENDS Integers, WellFoundedInduction, TLAPS

(* A product grows with its second factor.                                 *)
LEMMA MultMonotone ==
    ASSUME NEW d \in Nat, NEW a \in Int, NEW b \in Int, a <= b
    PROVE  d * a <= d * b
OBVIOUS

(* A product has no place between two multiples that follow each other.    *)
LEMMA MultGap ==
    ASSUME NEW d \in Nat, NEW a \in Int, NEW b \in Int, a < b
    PROVE  d * a + d <= d * b
<1>1. d * (a + 1) <= d * b
  BY MultMonotone
<1>2. d * (a + 1) = d * a + d
  OBVIOUS
<1> QED
  BY <1>1, <1>2

(* A product of naturals is a natural number, and an integer of integers.  *)
LEMMA MultType ==
    /\ \A a, b \in Nat : a * b \in Nat
    /\ \A a, b \in Int : a * b \in Int /\ a * b = b * a
OBVIOUS

(* Quotient and remainder determine a number and lie where they should.    *)
LEMMA DivMod ==
    ASSUME NEW a \in Nat, NEW d \in Nat \ {0}
    PROVE  /\ a \div d \in Nat
           /\ a % d \in 0 .. d - 1
           /\ a % d = a - d * (a \div d)
           /\ d * (a \div d) <= a
           /\ a < d * (a \div d) + d
<1>1. a \div d \in Nat
  BY SMTT(30)
<1>2. a % d \in 0 .. d - 1
  BY SMTT(30)
<1>3. a % d = a - d * (a \div d)
  BY SMTT(30)
<1>4. d * (a \div d) <= a /\ a < d * (a \div d) + d
  BY SMTT(30)
<1> QED
  BY <1>1, <1>2, <1>3, <1>4

(* The quotient is the number of whole divisors.                           *)
LEMMA DivAtLeast ==
    ASSUME NEW a \in Nat, NEW d \in Nat \ {0}, NEW n \in Int
    PROVE  n <= a \div d <=> d * n <= a
<1> DEFINE q == a \div d
<1>1. q \in Nat /\ d * q <= a /\ a < d * q + d
  BY DivMod
<1> HIDE DEF q
<1>2. ASSUME n <= q PROVE d * n <= a
  <2>1. d * n <= d * q
    BY <1>1, <1>2, MultMonotone
  <2> QED
    BY <1>1, <2>1
<1>3. ASSUME q < n PROVE ~(d * n <= a)
  <2>1. d * q + d <= d * n
    BY <1>1, <1>3, MultGap
  <2> QED
    BY <1>1, <2>1
<1> QED
  BY <1>1, <1>2, <1>3 DEF q

(* A number is determined by its quotient and remainder.                   *)
LEMMA DivModUnique ==
    ASSUME NEW a \in Nat, NEW b \in Nat, NEW d \in Nat \ {0},
           a \div d = b \div d, a % d = b % d
    PROVE  a = b
<1>1. a % d = a - d * (a \div d) /\ b % d = b - d * (b \div d)
  BY DivMod
<1>2. a \div d \in Nat /\ d * (a \div d) \in Nat
  BY DivMod, MultType
<1> QED
  BY <1>1, <1>2

(* The order of two numbers is the order of their quotients, and of their  *)
(* remainders when the quotients are the same.                             *)
LEMMA LexOrder ==
    ASSUME NEW a \in Nat, NEW b \in Nat, NEW d \in Nat \ {0}
    PROVE  a <= b <=> /\ a \div d <= b \div d
                      /\ a \div d = b \div d => a % d <= b % d
<1> DEFINE q == a \div d
           r == b \div d
<1>1. /\ q \in Nat /\ r \in Nat
      /\ d * q <= a /\ a < d * q + d /\ a % d = a - d * q
      /\ d * r <= b /\ b < d * r + d /\ b % d = b - d * r
  BY DivMod
<1> HIDE DEF q, r
<1>2. ASSUME q < r PROVE a <= b
  <2>1. d * q + d <= d * r
    BY <1>1, <1>2, MultGap
  <2> QED
    BY <1>1, <2>1
<1>3. ASSUME r < q PROVE ~(a <= b)
  <2>1. d * r + d <= d * q
    BY <1>1, <1>3, MultGap
  <2> QED
    BY <1>1, <2>1
<1>4. ASSUME q = r PROVE a <= b <=> a % d <= b % d
  BY <1>1, <1>4
<1> QED
  BY <1>1, <1>2, <1>3, <1>4 DEF q, r

(* A number put together from a quotient and a remainder.                  *)
LEMMA DivOf ==
    ASSUME NEW d \in Nat \ {0}, NEW q \in Nat, NEW r \in 0 .. d - 1, NEW a, a = d * q + r
    PROVE  a \div d = q /\ a % d = r
<1>0. d * q \in Nat /\ a \in Nat /\ q + 1 \in Int /\ d * (q + 1) = d * q + d
  BY MultType
<1>1. q <= a \div d
  BY <1>0, DivAtLeast
<1>2. ~(q + 1 <= a \div d)
  <2>1. ~(d * (q + 1) <= a)
    BY <1>0
  <2> QED
    BY <1>0, <2>1, DivAtLeast
<1>3. a \div d \in Nat /\ a % d = a - d * (a \div d)
  BY <1>0, DivMod
<1>4. a \div d = q
  BY <1>1, <1>2, <1>3
<1> QED
  BY <1>0, <1>3, <1>4

(* Whole multiples of the divisor shift the quotient and not the rest.     *)
LEMMA ShiftMod ==
    ASSUME NEW a \in Nat, NEW d \in Nat \ {0}, NEW n \in Nat
    PROVE  (a + d * n) \div d = (a \div d) + n /\ (a + d * n) % d = a % d
<1> DEFINE q == a \div d
           r == a % d
           b == a + d * n
           p == q + n
<1>1. q \in Nat /\ r \in 0 .. d - 1 /\ r = a - d * q
  BY DivMod
<1> HIDE DEF q, r
<1>2. d * q \in Int /\ d * n \in Int
  BY <1>1, MultType
<1>3. d * (q + n) = d * q + d * n
  BY <1>1
<1>4. b = d * p + r /\ p \in Nat
  BY <1>1, <1>2, <1>3
<1> HIDE DEF b, p
<1>5. b \div d = p /\ b % d = r
  <2>1. r \in 0 .. d - 1
    BY <1>1
  <2> QED
    BY <1>4, <2>1, DivOf, Zenon
<1> QED
  BY <1>5 DEF q, r, b, p

(* A number below the divisor is its own remainder.                        *)
LEMMA SmallMod ==
    ASSUME NEW d \in Nat \ {0}, NEW a \in 0 .. d - 1
    PROVE  a \div d = 0 /\ a % d = a
<1>1. a = d * 0 + a /\ 0 \in Nat
  OBVIOUS
<1> QED
  BY <1>1, DivOf

-----------------------------------------------------------------------------
(* A set of natural numbers that is not empty has a least element.         *)
LEMMA LeastNat ==
    ASSUME NEW S, S \subseteq Nat, S # {}
    PROVE  \E n \in S : \A m \in S : n <= m
<1> DEFINE R == OpToRel(<, Nat)
<1>1. IsWellFoundedOn(R, Nat)
  BY NatLessThanWellFounded
<1>2. \A m, n \in Nat : m < n => <<m, n>> \in R
  BY DEF OpToRel
<1> HIDE DEF R
<1>3. \E n \in S : \A m \in S : ~(<<m, n>> \in R)
  BY <1>1, WFMin, Zenon
<1>4. PICK n \in S : \A m \in S : ~(<<m, n>> \in R)
  BY <1>3
<1>5. \A m \in S : ~(m < n)
  BY <1>2, <1>4
<1> QED
  BY <1>4, <1>5

(* Induction: a set with 0 and, with n, the number after it, has them all. *)
LEMMA SetInduction ==
    ASSUME NEW S, 0 \in S, \A n \in Nat : n \in S => n + 1 \in S
    PROVE  \A n \in Nat : n \in S
<1> DEFINE T == Nat \ S
<1>1. SUFFICES ASSUME T # {} PROVE FALSE
  OBVIOUS
<1>2. PICK n \in T : \A m \in T : n <= m
  BY <1>1, LeastNat
<1>3. n - 1 \in Nat /\ n - 1 \notin T
  BY <1>2
<1> QED
  BY <1>2, <1>3

(* A bounded set of natural numbers that is not empty has a largest one,   *)
(* the least of its upper bounds.                                          *)
LEMMA LargestNat ==
    ASSUME NEW S, S \subseteq Nat, S # {}, NEW b \in Nat, \A m \in S : m <= b
    PROVE  \E n \in S : \A m \in S : m <= n
<1> DEFINE T == {c \in Nat : \A m \in S : m <= c}
<1>1. PICK c \in T : \A e \in T : c <= e
  BY LeastNat
<1>2. c \in S
  <2>1. SUFFICES ASSUME c \notin S PROVE FALSE
    OBVIOUS
  <2>2. \A m \in S : m <= c - 1
    BY <1>1, <2>1
  <2>3. c - 1 \in Nat
    <3>1. PICK m \in S : TRUE
      OBVIOUS
    <3>2. m \in Nat /\ c \in Nat /\ m <= c - 1
      BY <3>1, <2>2, <1>1
    <3> QED
      BY <3>2
  <2> QED
    BY <1>1, <2>2, <2>3
<1> QED
  BY <1>1, <1>2

-----------------------------------------------------------------------------
(* Induction up to a bound.                                                *)
LEMMA UpTo ==
    ASSUME NEW n \in Nat, NEW S, 0 \in S, \A i \in 0 .. n - 1 : i \in S => i + 1 \in S
    PROVE  \A i \in 0 .. n : i \in S
<1> DEFINE T == {i \in Nat : i <= n => i \in S}
<1>1. 0 \in T
  OBVIOUS
<1>2. \A i \in Nat : i \in T => i + 1 \in T
  OBVIOUS
<1>3. \A i \in Nat : i \in T
  <2> HIDE DEF T
  <2> QED BY <1>1, <1>2, SetInduction
<1> QED
  BY <1>3

(* A recursive definition over 0 .. n: z, and then G of the value before.  *)
Recurs(f, n, z, G) ==
    f = [i \in 0 .. n |-> IF i = 0 THEN z ELSE G[<<f[i - 1], i>>]]

(* It defines a function if G is total on a set that holds z and that it   *)
(* does not leave.                                                         *)
LEMMA RecursExists ==
    ASSUME NEW V, NEW z \in V, NEW m \in Nat, NEW G \in [V \X (1 .. m) -> V]
    PROVE  \E f \in [0 .. m -> V] : Recurs(f, m, z, G)
<1> DEFINE S == {n \in Nat : n <= m => \E f \in [0 .. n -> V] : Recurs(f, n, z, G)}
<1>1. 0 \in S
  <2> DEFINE f == [i \in 0 .. 0 |-> z]
  <2>1. f \in [0 .. 0 -> V] /\ Recurs(f, 0, z, G)
    BY DEF Recurs
  <2> HIDE DEF f
  <2> QED
    BY <2>1
<1>2. ASSUME NEW n \in Nat, n \in S PROVE n + 1 \in S
  <2> SUFFICES ASSUME n + 1 <= m PROVE \E g \in [0 .. n + 1 -> V] : Recurs(g, n + 1, z, G)
    OBVIOUS
  <2>1. PICK f \in [0 .. n -> V] : Recurs(f, n, z, G)
    BY <1>2
  <2> DEFINE v == G[<<f[n], n + 1>>]
             g == [i \in 0 .. n + 1 |-> IF i = n + 1 THEN v ELSE f[i]]
  <2>2. v \in V
    <3>1. <<f[n], n + 1>> \in V \X (1 .. m)
      BY <2>1
    <3> QED
      BY <3>1
  <2>3. \A i \in 0 .. n : f[i] = IF i = 0 THEN z ELSE G[<<f[i - 1], i>>]
    <3>1. f = [i \in 0 .. n |-> IF i = 0 THEN z ELSE G[<<f[i - 1], i>>]]
      BY <2>1 DEF Recurs
    <3> QED
      BY <3>1
  <2>4. \A i \in 0 .. n : g[i] = f[i]
    <3> HIDE DEF v
    <3> QED
      OBVIOUS
  <2>5. g[n + 1] = v /\ g \in [0 .. n + 1 -> V]
    <3> HIDE DEF v
    <3> QED
      BY <2>2
  <2>6. ASSUME NEW i \in 0 .. n + 1
        PROVE  g[i] = IF i = 0 THEN z ELSE G[<<g[i - 1], i>>]
    <3> HIDE DEF g
    <3>1. CASE i = n + 1
      <4>1. i # 0 /\ i - 1 = n /\ n \in 0 .. n
        BY <3>1
      <4> QED
        BY <2>4, <2>5, <3>1, <4>1
    <3>2. CASE i # n + 1
      <4>1. i \in 0 .. n /\ (i # 0 => i - 1 \in 0 .. n)
        BY <3>2
      <4> QED
        BY <2>3, <2>4, <4>1
    <3> QED
      BY <3>1, <3>2
  <2> HIDE DEF g
  <2>7. Recurs(g, n + 1, z, G)
    BY <2>5, <2>6 DEF Recurs
  <2> QED
    BY <2>5, <2>7
<1>3. \A n \in Nat : n \in S
  <2> HIDE DEF S
  <2> QED
    BY <1>1, <1>2, SetInduction
<1> QED
  BY <1>3
=============================================================================
