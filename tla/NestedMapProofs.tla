-------------------------- MODULE NestedMapProofs --------------------------
(***************************************************************************)
(* The nested page table for every layout of the machine and every size of *)
(* page and table.                                                         *)
(*                                                                         *)
(* What an address leads to depends on three lookups that share nothing    *)
(* but the tables they go through, so the invariant has to say which level *)
(* a table belongs to and which addresses it is for.  Both are properties  *)
(* of the order of allocation that the state does not hold: the invariant  *)
(* claims that some lev and base exist, and every step extends them.  An   *)
(* entry of table t then adds one digit to base[t]: a directory entry      *)
(* holds the number of the 2 MB page that its place stands for.            *)
(***************************************************************************)
EXTENDS NestedMap, NatLemmas, FiniteSetTheorems, FunctionTheorems

(* Table t is at level lev[t] and translates the page numbers that start   *)
(* with the digits base[t]; no two tables of a level do the same ones.     *)
Tables(n, lev, base) ==
    /\ n \in Nat \ {0}
    /\ lev \in [1 .. n -> 0 .. 2] /\ base \in [1 .. n -> Nat]
    /\ base[1] = 0 /\ \A t \in 1 .. n : lev[t] = 0 <=> t = 1
    /\ \A t, u \in 1 .. n : lev[t] = lev[u] /\ base[t] = base[u] => t = u

(* The digits that entry k stands for.                                     *)
Digits(base, k) == Radix * base[k[1]] + k[2]

(* An entry above the directory leads to the table for its digits, one of  *)
(* the directory holds them and they are a page number of S.               *)
Points(e, n, lev, base, S) ==
    /\ DOMAIN e \subseteq (1 .. n) \X (0 .. Radix - 1)
    /\ \A k \in DOMAIN e : lev[k[1]] < 2 =>
          e[k] \in 1 .. n /\ lev[e[k]] = lev[k[1]] + 1 /\ base[e[k]] = Digits(base, k)
    /\ \A k \in DOMAIN e : lev[k[1]] = 2 => e[k] = Digits(base, k) /\ e[k] \in S

(* Every table but the root hangs from an entry.                           *)
Hung(e, n, lev) ==
    \A t \in 2 .. n : \E k \in DOMAIN e : lev[k[1]] < 2 /\ e[k] = t

WellFormed(e, n, lev, base, S) ==
    Tables(n, lev, base) /\ Points(e, n, lev, base, S) /\ Hung(e, n, lev)

(* The walk for page number v finds its three entries.                     *)
Mapped(e, v) ==
    LET a == <<1, get_index_pae2mb(v, "PML4")>>
        b == <<e[a], get_index_pae2mb(v, "PDP")>>
        c == <<e[b], get_index_pae2mb(v, "PD")>>
    IN  a \in DOMAIN e /\ b \in DOMAIN e /\ c \in DOMAIN e

(* The pages that the loop has mapped in j rounds.                         *)
Open(j) == {v \in 0 .. j - 1 : ~Hidden(v * Big)}

IndInv ==
    /\ start \in Nat /\ size \in Nat \ {0} /\ i \in 0 .. LoopPages
    /\ \E lev, base : WellFormed(entries, ntables, lev, base, Open(i))
    /\ \A v \in Open(i) : Mapped(entries, v)

-----------------------------------------------------------------------------
(* Digits are read off in one way only.                                    *)
LEMMA DigitsUnique ==
    ASSUME NEW a \in Nat, NEW b \in Nat, NEW x \in 0 .. Radix - 1, NEW y \in 0 .. Radix - 1,
           Radix * a + x = Radix * b + y
    PROVE  a = b /\ x = y
<1>1. Radix \in Nat \ {0}
  BY SizesAssumption
<1>2. Radix * a \in Nat /\ Radix * b \in Nat
  BY <1>1, MultType
<1>3. ~(a < b)
  <2>1. a < b => Radix * a + Radix <= Radix * b
    BY <1>1, MultGap
  <2> QED
    BY <1>1, <1>2, <2>1
<1>4. ~(b < a)
  <2>1. b < a => Radix * b + Radix <= Radix * a
    BY <1>1, MultGap
  <2> QED
    BY <1>1, <1>2, <2>1
<1>5. a = b
  BY <1>3, <1>4
<1> QED
  BY <1>2, <1>5

(* get_index_pae2mb takes the three digits of a page number below          *)
(* Radix^3 apart.                                                          *)
LEMMA IndexDigits ==
    ASSUME NEW v \in Nat, v < Radix * Radix * Radix
    PROVE  /\ \A l \in Levels : get_index_pae2mb(v, l) \in 0 .. Radix - 1
           /\ v = Radix * (Radix * get_index_pae2mb(v, "PML4") + get_index_pae2mb(v, "PDP"))
                     + get_index_pae2mb(v, "PD")
<1>1. Radix \in Nat \ {0} /\ Radix * Radix \in Nat \ {0}
  <2>1. \A d \in Nat \ {0} : d * d \in Nat \ {0}
    OBVIOUS
  <2> QED
    BY <2>1, SizesAssumption
<1> DEFINE q == v \div Radix
           r == q \div Radix
           s == v \div (Radix * Radix)
<1>2. q \in Nat /\ r \in Nat /\ s \in Nat
  BY <1>1, DivMod
<1>3. \A n \in Nat : n <= s <=> n <= r
  <2> SUFFICES ASSUME NEW n \in Nat PROVE n <= s <=> n <= r
    OBVIOUS
  <2>1. n <= s <=> Radix * Radix * n <= v
    BY <1>1, DivAtLeast
  <2>2. n <= r <=> Radix * n <= q
    BY <1>1, <1>2, DivAtLeast
  <2>3. Radix * n \in Nat
    BY <1>1, MultType
  <2>4. Radix * n <= q <=> Radix * (Radix * n) <= v
    BY <1>1, <2>3, DivAtLeast
  <2>5. Radix * (Radix * n) = Radix * Radix * n
    BY <1>1
  <2> QED
    BY <2>1, <2>2, <2>4, <2>5
<1>4. s = r
  <2> HIDE DEF s, r, q
  <2>1. s <= r /\ r <= s
    BY <1>2, <1>3
  <2> QED
    BY <1>2, <2>1
<1>5. r < Radix
  <2>1. ~(Radix <= s)
    <3>1. Radix <= s <=> Radix * Radix * Radix <= v
      BY <1>1, DivAtLeast
    <3>2. Radix * Radix * Radix \in Nat
      BY <1>1, MultType
    <3> QED
      BY <3>1, <3>2
  <2> QED
    BY <1>1, <1>2, <1>4, <2>1
<1>6. r % Radix = r
  <2>1. ~(1 <= r \div Radix)
    <3>1. 1 <= r \div Radix <=> Radix * 1 <= r
      BY <1>1, <1>2, DivAtLeast
    <3> QED
      BY <1>1, <1>2, <1>5, <3>1
  <2>2. r \div Radix = 0
    BY <1>1, <1>2, <2>1, DivMod
  <2>3. r % Radix = r - Radix * (r \div Radix)
    BY <1>1, <1>2, DivMod
  <2> QED
    BY <1>1, <1>2, <2>2, <2>3
<1>7. /\ get_index_pae2mb(v, "PD") = v % Radix
      /\ get_index_pae2mb(v, "PDP") = q % Radix
      /\ get_index_pae2mb(v, "PML4") = r
  BY <1>4, <1>6 DEF get_index_pae2mb
<1>8. /\ v % Radix = v - Radix * q /\ v % Radix \in 0 .. Radix - 1
      /\ q % Radix = q - Radix * r /\ q % Radix \in 0 .. Radix - 1
  BY <1>1, <1>2, DivMod
<1>9. \A l \in Levels : get_index_pae2mb(v, l) \in 0 .. Radix - 1
  BY <1>1, <1>2, <1>5, <1>7, <1>8 DEF Levels
<1> DEFINE c == v % Radix
           b == q % Radix
           rr == Radix * r
           rq == Radix * q
<1>10. rr \in Nat /\ rq \in Nat
  BY <1>1, <1>2, MultType
<1>11. b = q - rr /\ c = v - rq
  BY <1>8
<1> HIDE DEF b, c, rr, rq
<1>12. rr + b = q /\ rq + c = v
  BY <1>2, <1>10, <1>11
<1>13. Radix * r + b = q /\ Radix * q + c = v
  BY <1>12 DEF rr, rq
<1>14. v = Radix * (Radix * r + b) + c
  BY <1>13
<1> QED
  BY <1>7, <1>9, <1>14 DEF b, c

(* Every page number that is asked about has three digits.                 *)
LEMMA VpnsInRange == \A v \in Vpns : v \in Nat /\ v < Radix * Radix * Radix
<1>1. Radix * Radix * Radix \in Nat
  BY SizesAssumption, MultType
<1> QED
  BY <1>1, SizesAssumption DEF Vpns

-----------------------------------------------------------------------------
(* What was present is still there and leads to the same place.            *)
Keeps(e, f) == \A k \in DOMAIN e : k \in DOMAIN f /\ f[k] = e[k]

(* What is mapped stays mapped when entries are only added.                *)
LEMMA MappedKept ==
    ASSUME NEW e, NEW f, Keeps(e, f), NEW v, Mapped(e, v)
    PROVE  Mapped(f, v)
BY DEF Keeps, Mapped

(* d is e with what was added to find the table behind entry k: nothing is *)
(* lost, d.t is that table and it is for the digits of k.                  *)
Descended(d, e, lev, base, S, k) ==
    /\ d = [entries |-> d.entries, n |-> d.n, t |-> d.t]
    /\ Keeps(e, d.entries)
    /\ k \in DOMAIN d.entries /\ d.entries[k] = d.t
    /\ \E lev2, base2 :
          /\ WellFormed(d.entries, d.n, lev2, base2, S)
          /\ d.t \in 1 .. d.n /\ lev2[d.t] = lev[k[1]] + 1
          /\ base2[d.t] = Digits(base, k)

(* One level of __mmap_2mb: it ends in the table for the longer digits,    *)
(* which it allocates only if there was none.                              *)
LEMMA DescendShape ==
    ASSUME NEW e, NEW n, NEW lev, NEW base, NEW S, WellFormed(e, n, lev, base, S),
           NEW t \in 1 .. n, lev[t] < 2, NEW v, NEW l \in Levels,
           get_index_pae2mb(v, l) \in 0 .. Radix - 1
    PROVE  Descended(Descend([entries |-> e, n |-> n, t |-> t], v, l), e, lev, base, S,
                     <<t, get_index_pae2mb(v, l)>>)
<1> DEFINE x == get_index_pae2mb(v, l)
           k == <<t, x>>
           d == Descend([entries |-> e, n |-> n, t |-> t], v, l)
<1>0. /\ Tables(n, lev, base) /\ Points(e, n, lev, base, S) /\ Hung(e, n, lev)
      /\ n \in Nat \ {0} /\ lev \in [1 .. n -> 0 .. 2] /\ base \in [1 .. n -> Nat]
      /\ Radix \in Nat \ {0} /\ k[1] = t /\ k[2] = x
  BY SizesAssumption DEF WellFormed, Tables
<1>1. CASE k \in DOMAIN e
  <2>1. d = [entries |-> e, n |-> n, t |-> e[k]]
    BY <1>1 DEF Descend
  <2>2. d.entries = e /\ d.n = n /\ d.t = e[k]
    BY <2>1
  <2>3. e[k] \in 1 .. n /\ lev[e[k]] = lev[t] + 1 /\ base[e[k]] = Digits(base, k)
    BY <1>0, <1>1 DEF Points
  <2>4. Keeps(e, d.entries)
    BY <2>2 DEF Keeps
  <2>5. /\ WellFormed(d.entries, d.n, lev, base, S)
        /\ d.t \in 1 .. d.n /\ lev[d.t] = lev[t] + 1 /\ base[d.t] = Digits(base, k)
    BY <2>2, <2>3
  <2> HIDE DEF d
  <2> QED
    BY <1>0, <1>1, <2>1, <2>2, <2>4, <2>5 DEF d, Descended
<1>2. CASE k \notin DOMAIN e
  <2> DEFINE f == SetEntry(e, k, n + 1)
             lev2 == [u \in 1 .. n + 1 |-> IF u = n + 1 THEN lev[t] + 1 ELSE lev[u]]
             base2 == [u \in 1 .. n + 1 |-> IF u = n + 1 THEN Digits(base, k) ELSE base[u]]
  <2>1. d = [entries |-> f, n |-> n + 1, t |-> n + 1]
    BY <1>2 DEF Descend
  <2>2. d.entries = f /\ d.n = n + 1 /\ d.t = n + 1
    BY <2>1
  <2>3. /\ DOMAIN f = DOMAIN e \cup {k} /\ f[k] = n + 1
        /\ \A y \in DOMAIN e : f[y] = e[y] /\ y # k
    <3> HIDE DEF k
    <3> QED
      BY <1>2 DEF f, SetEntry
  <2>4. Digits(base, k) \in Nat
    <3>1. base[t] \in Nat /\ x \in Nat
      BY <1>0
    <3> QED
      BY <1>0, <3>1, MultType DEF Digits
  <2>5. /\ lev2 \in [1 .. n + 1 -> 0 .. 2] /\ base2 \in [1 .. n + 1 -> Nat]
        /\ \A u \in 1 .. n : lev2[u] = lev[u] /\ base2[u] = base[u] /\ u # n + 1
        /\ lev2[n + 1] = lev[t] + 1 /\ base2[n + 1] = Digits(base, k)
        /\ 1 .. n + 1 = (1 .. n) \cup {n + 1}
    <3>1. 1 .. n + 1 = (1 .. n) \cup {n + 1} /\ n + 1 \notin 1 .. n
      BY <1>0
    <3>2. lev[t] + 1 \in 0 .. 2
      BY <1>0
    <3> HIDE DEF k
    <3> QED
      BY <1>0, <2>4, <3>1, <3>2
  <2> HIDE DEF f, lev2, base2, d, x
  <2>6. \A y \in DOMAIN e : y[1] \in 1 .. n /\ y[2] \in 0 .. Radix - 1 /\ y = <<y[1], y[2]>>
    BY <1>0 DEF Points
  <2>7. ASSUME NEW u \in 1 .. n, lev[u] = lev[t] + 1, base[u] = Digits(base, k)
        PROVE  FALSE
    <3>1. u # 1
      BY <1>0, <2>7 DEF Tables
    <3>2. PICK y \in DOMAIN e : lev[y[1]] < 2 /\ e[y] = u
      BY <1>0, <3>1 DEF Hung
    <3>3. lev[y[1]] = lev[t] /\ Digits(base, y) = Digits(base, k)
      <4>1. lev[e[y]] = lev[y[1]] + 1 /\ base[e[y]] = Digits(base, y)
        BY <1>0, <3>2 DEF Points
      <4>2. lev[y[1]] \in 0 .. 2 /\ lev[t] \in 0 .. 2
        BY <1>0, <2>6
      <4> QED
        BY <2>7, <3>2, <4>1, <4>2
    <3>4. base[y[1]] = base[t] /\ y[2] = x
      <4>1. base[y[1]] \in Nat /\ base[t] \in Nat /\ x \in 0 .. Radix - 1
        BY <1>0, <2>6 DEF x
      <4>2. Radix * base[y[1]] + y[2] = Radix * base[t] + x
        BY <1>0, <3>3 DEF Digits
      <4> QED
        BY <2>6, <4>1, <4>2, DigitsUnique
    <3>5. y[1] = t
      BY <1>0, <2>6, <3>3, <3>4 DEF Tables
    <3> QED
      BY <1>2, <2>6, <3>4, <3>5
  <2>8. Tables(n + 1, lev2, base2)
    <3>1. base2[1] = 0 /\ \A u \in 1 .. n + 1 : lev2[u] = 0 <=> u = 1
      <4>1. 1 \in 1 .. n /\ n + 1 # 1 /\ lev[t] + 1 # 0
        BY <1>0
      <4> QED
        BY <1>0, <2>5, <4>1 DEF Tables
    <3>2. ASSUME NEW u \in 1 .. n + 1, NEW w \in 1 .. n + 1, lev2[u] = lev2[w],
                 base2[u] = base2[w]
          PROVE  u = w
      <4>1. CASE u \in 1 .. n /\ w \in 1 .. n
        BY <1>0, <2>5, <3>2, <4>1 DEF Tables
      <4>2. CASE u = n + 1 /\ w \in 1 .. n
        BY <2>5, <2>7, <3>2, <4>2
      <4>3. CASE u \in 1 .. n /\ w = n + 1
        BY <2>5, <2>7, <3>2, <4>3
      <4> QED
        BY <2>5, <4>1, <4>2, <4>3
    <3> QED
      BY <1>0, <2>5, <3>1, <3>2 DEF Tables
  <2>9. Points(f, n + 1, lev2, base2, S)
    <3>1. DOMAIN f \subseteq (1 .. n + 1) \X (0 .. Radix - 1)
      <4>1. x \in 0 .. Radix - 1
        BY DEF x
      <4> QED
        BY <1>0, <2>3, <2>5, <4>1 DEF Points
    <3>2. ASSUME NEW y \in DOMAIN e
          PROVE  /\ lev2[y[1]] = lev[y[1]] /\ Digits(base2, y) = Digits(base, y) /\ f[y] = e[y]
                 /\ e[y] \in 1 .. n => lev2[e[y]] = lev[e[y]] /\ base2[e[y]] = base[e[y]]
      BY <2>3, <2>5, <2>6 DEF Digits
    <3>3. lev2[k[1]] = lev[t] /\ lev[t] < 2 /\ Digits(base2, k) = Digits(base, k)
      BY <1>0, <2>5 DEF Digits
    <3>4. ASSUME NEW y \in DOMAIN f, lev2[y[1]] < 2
          PROVE  /\ f[y] \in 1 .. n + 1 /\ lev2[f[y]] = lev2[y[1]] + 1
                 /\ base2[f[y]] = Digits(base2, y)
      <4>1. CASE y = k
        BY <1>0, <2>3, <2>5, <3>3, <4>1
      <4>2. CASE y \in DOMAIN e
        <5>1. e[y] \in 1 .. n /\ lev[e[y]] = lev[y[1]] + 1 /\ base[e[y]] = Digits(base, y)
          BY <1>0, <3>2, <3>4, <4>2 DEF Points
        <5> QED
          BY <2>5, <3>2, <4>2, <5>1
      <4> QED
        BY <2>3, <4>1, <4>2
    <3>5. ASSUME NEW y \in DOMAIN f, lev2[y[1]] = 2
          PROVE  f[y] = Digits(base2, y) /\ f[y] \in S
      <4>1. y \in DOMAIN e
        BY <1>0, <2>3, <3>3, <3>5
      <4> QED
        BY <1>0, <3>2, <3>5, <4>1 DEF Points
    <3> QED
      BY <3>1, <3>4, <3>5 DEF Points
  <2>10. Hung(f, n + 1, lev2)
    <3> SUFFICES ASSUME NEW u \in 2 .. n + 1
                 PROVE  \E y \in DOMAIN f : lev2[y[1]] < 2 /\ f[y] = u
      BY DEF Hung
    <3>1. CASE u = n + 1
      BY <1>0, <2>3, <2>5, <3>1
    <3>2. CASE u \in 2 .. n
      <4>1. PICK y \in DOMAIN e : lev[y[1]] < 2 /\ e[y] = u
        BY <1>0, <3>2 DEF Hung
      <4> QED
        BY <2>3, <2>5, <2>6, <4>1
    <3>3. u = n + 1 \/ u \in 2 .. n
      BY <1>0
    <3> QED
      BY <3>1, <3>2, <3>3
  <2>11. /\ WellFormed(d.entries, d.n, lev2, base2, S)
         /\ d.t \in 1 .. d.n /\ lev2[d.t] = lev[t] + 1 /\ base2[d.t] = Digits(base, k)
    BY <1>0, <2>2, <2>5, <2>8, <2>9, <2>10 DEF WellFormed
  <2>12. Keeps(e, d.entries) /\ k \in DOMAIN d.entries /\ d.entries[k] = d.t
    BY <2>2, <2>3 DEF Keeps
  <2>13. d = [entries |-> d.entries, n |-> d.n, t |-> d.t]
    BY <2>1, <2>2
  <2> QED
    BY <1>0, <2>11, <2>12, <2>13 DEF d, x, Descended
<1> QED
  BY <1>1, <1>2

(* A level allocates one table or none.                                    *)
Grew(d, n) == d = [entries |-> d.entries, n |-> d.n, t |-> d.t] /\ d.n \in {n, n + 1}

(* So does every step down.                                                *)
LEMMA DescendGrows ==
    ASSUME NEW e, NEW n \in Nat, NEW t, NEW v, NEW l
    PROVE  Grew(Descend([entries |-> e, n |-> n, t |-> t], v, l), n)
BY DEF Descend, Grew

(* A page that is mapped costs at most two tables.                         *)
LEMMA MmapGrows ==
    ASSUME NEW e, NEW n \in Nat, NEW v
    PROVE  mmap_pml4([entries |-> e, n |-> n, t |-> 1], v, v).n \in {n, n + 1, n + 2}
<1> DEFINE d1 == Descend([entries |-> e, n |-> n, t |-> 1], v, "PML4")
           d2 == Descend(d1, v, "PDP")
<1>1. d1 = [entries |-> d1.entries, n |-> d1.n, t |-> d1.t] /\ d1.n \in {n, n + 1}
  <2>1. Grew(d1, n)
    BY DescendGrows
  <2> HIDE DEF d1
  <2> QED
    BY <2>1 DEF Grew
<1> HIDE DEF d1
<1>2. d2 = [entries |-> d2.entries, n |-> d2.n, t |-> d2.t] /\ d2.n \in {d1.n, d1.n + 1}
  <2>1. d1.n \in Nat
    BY <1>1
  <2>2. d2 = Descend([entries |-> d1.entries, n |-> d1.n, t |-> d1.t], v, "PDP")
    BY <1>1
  <2>3. Grew(Descend([entries |-> d1.entries, n |-> d1.n, t |-> d1.t], v, "PDP"), d1.n)
    BY <2>1, DescendGrows
  <2> HIDE DEF d2
  <2>4. Grew(d2, d1.n)
    BY <2>2, <2>3
  <2> QED
    BY <2>4 DEF Grew
<1> HIDE DEF d2
<1>3. mmap_pml4([entries |-> e, n |-> n, t |-> 1], v, v)
         = [d2 EXCEPT !.entries = SetEntry(@, <<d2.t, get_index_pae2mb(v, "PD")>>, v)]
  BY DEF mmap_pml4, d1, d2
<1>4. mmap_pml4([entries |-> e, n |-> n, t |-> 1], v, v).n = d2.n
  BY <1>2, <1>3
<1> QED
  BY <1>1, <1>2, <1>4

(* The directory entry: it is set to the page number that its place stands *)
(* for, so that it cannot differ from what was there.                      *)
LEMMA LeafShape ==
    ASSUME NEW e, NEW n, NEW lev, NEW base, NEW S, WellFormed(e, n, lev, base, S),
           NEW t \in 1 .. n, lev[t] = 2, NEW x \in 0 .. Radix - 1, NEW v,
           v = Digits(base, <<t, x>>)
    PROVE  /\ Keeps(e, SetEntry(e, <<t, x>>, v))
           /\ WellFormed(SetEntry(e, <<t, x>>, v), n, lev, base, S \cup {v})
<1> DEFINE k == <<t, x>>
           f == SetEntry(e, k, v)
<1>0. Tables(n, lev, base) /\ Points(e, n, lev, base, S) /\ Hung(e, n, lev)
  BY DEF WellFormed
<1>1. k[1] = t /\ k \in (1 .. n) \X (0 .. Radix - 1)
  OBVIOUS
<1> HIDE DEF k
<1>2. /\ DOMAIN f = DOMAIN e \cup {k} /\ f[k] = v
      /\ \A y \in DOMAIN e : y # k => f[y] = e[y]
  BY DEF SetEntry
<1> HIDE DEF f
<1>3. \A y \in DOMAIN e : f[y] = e[y]
  <2>1. k \in DOMAIN e => e[k] = v
    BY <1>0, <1>1 DEF Points, k
  <2> QED
    BY <1>2, <2>1
<1>4. Keeps(e, f)
  BY <1>2, <1>3 DEF Keeps
<1>5. Points(f, n, lev, base, S \cup {v})
  <2>1. v = Digits(base, k)
    BY DEF k
  <2> QED
    BY <1>0, <1>1, <1>2, <1>3, <2>1 DEF Points
<1>6. Hung(f, n, lev)
  BY <1>0, <1>2, <1>3 DEF Hung
<1> QED
  BY <1>0, <1>4, <1>5, <1>6 DEF WellFormed, f, k

(* mmap_pml4 maps a page to itself and disturbs no other translation.      *)
LEMMA MmapShape ==
    ASSUME NEW e, NEW n, NEW lev, NEW base, NEW S, WellFormed(e, n, lev, base, S),
           NEW v \in Nat, v < Radix * Radix * Radix
    PROVE  LET m == mmap_pml4([entries |-> e, n |-> n, t |-> 1], v, v)
           IN  /\ Keeps(e, m.entries)
               /\ Mapped(m.entries, v)
               /\ \E lev2, base2 : WellFormed(m.entries, m.n, lev2, base2, S \cup {v})
<1> DEFINE a == get_index_pae2mb(v, "PML4")
           b == get_index_pae2mb(v, "PDP")
           c == get_index_pae2mb(v, "PD")
           d1 == Descend([entries |-> e, n |-> n, t |-> 1], v, "PML4")
           d2 == Descend(d1, v, "PDP")
           m == mmap_pml4([entries |-> e, n |-> n, t |-> 1], v, v)
<1>1. /\ a \in 0 .. Radix - 1 /\ b \in 0 .. Radix - 1 /\ c \in 0 .. Radix - 1
      /\ v = Radix * (Radix * a + b) + c
  BY IndexDigits DEF Levels
<1>2. n \in Nat \ {0} /\ 1 \in 1 .. n /\ lev[1] = 0 /\ base[1] = 0 /\ Radix \in Nat
  BY SizesAssumption DEF WellFormed, Tables
<1>3. Descended(d1, e, lev, base, S, <<1, a>>)
  <2>1. lev[1] < 2 /\ "PML4" \in Levels
    BY <1>2 DEF Levels
  <2> QED
    BY <1>1, <1>2, <2>1, DescendShape
<1> HIDE DEF d1
<1>4. PICK lev2, base2 :
            /\ WellFormed(d1.entries, d1.n, lev2, base2, S)
            /\ d1.t \in 1 .. d1.n /\ lev2[d1.t] = 1 /\ base2[d1.t] = a
  <2>1. lev[<<1, a>>[1]] + 1 = 1 /\ Digits(base, <<1, a>>) = a
    BY <1>1, <1>2 DEF Digits
  <2> QED
    BY <1>3, <2>1 DEF Descended
<1>5. Descended(d2, d1.entries, lev2, base2, S, <<d1.t, b>>)
  <2>1. lev2[d1.t] < 2 /\ "PDP" \in Levels
    BY <1>4 DEF Levels
  <2>2. d1 = [entries |-> d1.entries, n |-> d1.n, t |-> d1.t]
    BY <1>3 DEF Descended
  <2>3. d2 = Descend([entries |-> d1.entries, n |-> d1.n, t |-> d1.t], v, "PDP")
    BY <2>2
  <2> QED
    BY <1>1, <1>4, <2>1, <2>3, DescendShape
<1>6. PICK lev3, base3 :
            /\ WellFormed(d2.entries, d2.n, lev3, base3, S)
            /\ d2.t \in 1 .. d2.n /\ lev3[d2.t] = 2 /\ base3[d2.t] = Radix * a + b
  <2>1. lev2[<<d1.t, b>>[1]] + 1 = 2 /\ Digits(base2, <<d1.t, b>>) = Radix * a + b
    BY <1>1, <1>4 DEF Digits
  <2> HIDE DEF d2
  <2> QED
    BY <1>5, <2>1 DEF Descended
<1> DEFINE k == <<d2.t, c>>
           f == SetEntry(d2.entries, k, v)
<1>7. m.entries = f /\ m.n = d2.n
  <2>1. m = [d2 EXCEPT !.entries = SetEntry(@, k, v)]
    BY DEF mmap_pml4, d1
  <2> HIDE DEF d2, m
  <2> QED
    BY <1>5, <2>1 DEF Descended
<1> HIDE DEF d2, m
<1>8. v = Digits(base3, k)
  <2>1. k[1] = d2.t /\ k[2] = c
    OBVIOUS
  <2> HIDE DEF k
  <2> QED
    BY <1>1, <1>6, <2>1 DEF Digits
<1>9. Keeps(d2.entries, f) /\ WellFormed(f, d2.n, lev3, base3, S \cup {v})
  BY <1>1, <1>6, <1>8, LeafShape
<1>10. k \in DOMAIN f
  BY DEF SetEntry
<1> HIDE DEF f
<1>11. Keeps(e, f)
  BY <1>3, <1>5, <1>9 DEF Keeps, Descended
<1>12. Mapped(f, v)
  <2>1. <<1, a>> \in DOMAIN f /\ f[<<1, a>>] = d1.t
    BY <1>3, <1>5, <1>9 DEF Keeps, Descended
  <2>2. <<d1.t, b>> \in DOMAIN f /\ f[<<d1.t, b>>] = d2.t
    BY <1>5, <1>9 DEF Keeps, Descended
  <2> QED
    BY <1>10, <2>1, <2>2 DEF Mapped
<1> QED
  BY <1>7, <1>9, <1>11, <1>12 DEF m

(* Where a walk through a well formed table ends: the page itself, one of  *)
(* S, or nowhere.                                                          *)
LEMMA WalkShape ==
    ASSUME NEW lev, NEW base, NEW S, WellFormed(entries, ntables, lev, base, S),
           NEW v \in Nat, v < Radix * Radix * Radix
    PROVE  /\ linear2physical_legacy2mb(v) = IF Mapped(entries, v) THEN v ELSE NotPresent
           /\ Mapped(entries, v) => v \in S
<1> DEFINE a == get_index_pae2mb(v, "PML4")
           b == get_index_pae2mb(v, "PDP")
           c == get_index_pae2mb(v, "PD")
           t1 == Lookup(1, v, "PML4")
           t2 == Lookup(t1, v, "PDP")
           t3 == Lookup(t2, v, "PD")
<1>1. /\ a \in 0 .. Radix - 1 /\ b \in 0 .. Radix - 1 /\ c \in 0 .. Radix - 1
      /\ v = Radix * (Radix * a + b) + c
  BY IndexDigits DEF Levels
<1>2. /\ ntables \in Nat \ {0} /\ 1 \in 1 .. ntables /\ lev[1] = 0 /\ base[1] = 0
      /\ Radix \in Nat /\ Points(entries, ntables, lev, base, S)
  BY SizesAssumption DEF WellFormed, Tables
<1>3. linear2physical_legacy2mb(v) = t3
  BY DEF linear2physical_legacy2mb
<1>4. CASE <<1, a>> \notin DOMAIN entries
  <2>1. t1 = NotPresent
    BY <1>4 DEF Lookup
  <2>2. t2 = NotPresent
    BY <2>1 DEF Lookup
  <2>3. t3 = NotPresent
    BY <2>2 DEF Lookup
  <2>4. ~Mapped(entries, v)
    BY <1>4 DEF Mapped
  <2> QED
    BY <1>3, <2>3, <2>4
<1>5. CASE <<1, a>> \in DOMAIN entries
  <2>1. t1 = entries[<<1, a>>]
    BY <1>5 DEF Lookup, NotPresent
  <2>2. t1 \in 1 .. ntables /\ lev[t1] = 1 /\ base[t1] = a
    <3>1. lev[<<1, a>>[1]] < 2 /\ Digits(base, <<1, a>>) = a /\ lev[<<1, a>>[1]] + 1 = 1
      BY <1>1, <1>2 DEF Digits
    <3> QED
      BY <1>2, <1>5, <2>1, <3>1 DEF Points
  <2>3. t1 # NotPresent
    BY <1>2, <2>2 DEF NotPresent
  <2> HIDE DEF t1
  <2>4. CASE <<t1, b>> \notin DOMAIN entries
    <3>1. t2 = NotPresent
      BY <2>4 DEF Lookup
    <3>2. t3 = NotPresent
      BY <3>1 DEF Lookup
    <3>3. ~Mapped(entries, v)
      BY <2>1, <2>4 DEF Mapped
    <3> QED
      BY <1>3, <3>2, <3>3 DEF t1
  <2>5. CASE <<t1, b>> \in DOMAIN entries
    <3>1. t2 = entries[<<t1, b>>]
      BY <2>3, <2>5 DEF Lookup
    <3>2. t2 \in 1 .. ntables /\ lev[t2] = 2 /\ base[t2] = Radix * a + b
      <4>1. /\ lev[<<t1, b>>[1]] < 2 /\ Digits(base, <<t1, b>>) = Radix * a + b
            /\ lev[<<t1, b>>[1]] + 1 = 2
        BY <1>1, <1>2, <2>2 DEF Digits
      <4> QED
        BY <1>2, <2>5, <3>1, <4>1 DEF Points
    <3>3. t2 # NotPresent
      BY <1>2, <3>2 DEF NotPresent
    <3> HIDE DEF t2
    <3>4. CASE <<t2, c>> \notin DOMAIN entries
      <4>1. t3 = NotPresent
        BY <3>4 DEF Lookup
      <4>2. ~Mapped(entries, v)
        BY <2>1, <3>1, <3>4 DEF Mapped
      <4> QED
        BY <1>3, <4>1, <4>2 DEF t1, t2
    <3>5. CASE <<t2, c>> \in DOMAIN entries
      <4>1. t3 = entries[<<t2, c>>]
        BY <3>3, <3>5 DEF Lookup
      <4>2. entries[<<t2, c>>] = v /\ v \in S
        <5>1. lev[<<t2, c>>[1]] = 2 /\ Digits(base, <<t2, c>>) = v
          BY <1>1, <1>2, <3>2 DEF Digits
        <5> QED
          BY <1>2, <3>5, <5>1 DEF Points
      <4>3. Mapped(entries, v)
        BY <1>5, <2>1, <2>5, <3>1, <3>5 DEF Mapped
      <4> QED
        BY <1>3, <4>1, <4>2, <4>3 DEF t1, t2
    <3> QED
      BY <3>4, <3>5
  <2> QED
    BY <2>4, <2>5
<1> QED
  BY <1>4, <1>5

-----------------------------------------------------------------------------
(* The empty root table is well formed.                                    *)
LEMMA EmptyShape ==
    ASSUME NEW e, DOMAIN e = {}, NEW S
    PROVE  \E lev, base : WellFormed(e, 1, lev, base, S)
<1> DEFINE lev == [t \in 1 .. 1 |-> 0]
<1>1. Tables(1, lev, lev)
  BY DEF Tables
<1>2. Points(e, 1, lev, lev, S) /\ Hung(e, 1, lev)
  BY DEF Points, Hung
<1>3. WellFormed(e, 1, lev, lev, S)
  BY <1>1, <1>2 DEF WellFormed
<1> HIDE DEF lev
<1> QED
  BY <1>3

(* The state in which the loop starts.                                     *)
LEMMA InitInv == Init => IndInv
<1> SUFFICES ASSUME Init PROVE IndInv
  OBVIOUS
<1>1. start \in Nat /\ size \in Nat \ {0} /\ i \in 0 .. LoopPages /\ i = 0
  BY SizesAssumption DEF Init
<1>2. DOMAIN entries = {} /\ ntables = 1
  BY DEF Init
<1>3. \E lev, base : WellFormed(entries, ntables, lev, base, Open(i))
  BY <1>2, EmptyShape
<1>4. Open(i) = {}
  BY <1>1 DEF Open
<1> QED
  BY <1>1, <1>3, <1>4 DEF IndInv

(* A round of the loop adds the page that it is about, or leaves it out    *)
(* because it is hidden.                                                   *)
LEMMA LoopInv == IndInv /\ create_2mb_nested_pagetable => IndInv'
<1> SUFFICES ASSUME IndInv, create_2mb_nested_pagetable PROVE IndInv'
  OBVIOUS
<1>1. /\ start \in Nat /\ size \in Nat \ {0} /\ i \in 0 .. LoopPages /\ i < LoopPages
      /\ UNCHANGED <<start, size>> /\ i' = i + 1 /\ LoopPages \in Nat
  BY SizesAssumption DEF IndInv, create_2mb_nested_pagetable
<1>2. PICK lev, base : WellFormed(entries, ntables, lev, base, Open(i))
  BY DEF IndInv
<1>3. \A v \in Open(i) : Mapped(entries, v)
  BY DEF IndInv
<1>4. i' \in 0 .. LoopPages
  BY <1>1
<1>5. \A a : Hidden(a)' <=> Hidden(a)
  BY <1>1 DEF Hidden, vmm_pagestart, vmm_pageend, PAGE_DOWN_2MB, PAGE_UP_2MB
<1>6. Open(i)' = Open(i) \cup (IF Hidden(i * Big) THEN {} ELSE {i})
  <2>1. 0 .. i' - 1 = (0 .. i - 1) \cup {i}
    BY <1>1
  <2>2. Open(i)' = {v \in 0 .. i' - 1 : ~Hidden(v * Big)}
    BY <1>5 DEF Open
  <2> QED
    BY <2>1, <2>2 DEF Open
<1>7. CASE Hidden(i * Big)
  <2>1. UNCHANGED <<entries, ntables>>
    BY <1>7 DEF create_2mb_nested_pagetable
  <2>2. Open(i)' = Open(i)
    BY <1>6, <1>7
  <2>3. \E lev2, base2 : WellFormed(entries', ntables', lev2, base2, Open(i)')
    BY <1>2, <2>1, <2>2
  <2>4. \A v \in Open(i)' : Mapped(entries', v)
    BY <1>3, <2>1, <2>2
  <2> QED
    BY <1>1, <1>4, <2>3, <2>4 DEF IndInv, WellFormed, Tables, Points, Hung, Digits, Mapped, get_index_pae2mb
<1>8. CASE ~Hidden(i * Big)
  <2> DEFINE m == mmap_pml4([entries |-> entries, n |-> ntables, t |-> 1], i, i)
  <2>1. entries' = m.entries /\ ntables' = m.n
    BY <1>8 DEF create_2mb_nested_pagetable
  <2>2. i \in Nat /\ i < Radix * Radix * Radix
    <3>1. i \in Vpns
      BY <1>1 DEF Vpns
    <3> QED
      BY <3>1, VpnsInRange
  <2>3. Open(i)' = Open(i) \cup {i}
    BY <1>6, <1>8
  <2>4. /\ Keeps(entries, m.entries) /\ Mapped(m.entries, i)
        /\ \E lev2, base2 : WellFormed(m.entries, m.n, lev2, base2, Open(i) \cup {i})
    BY <1>2, <2>2, MmapShape
  <2> HIDE DEF m
  <2>5. \A v \in Open(i) : Mapped(entries', v)
    BY <1>3, <2>1, <2>4, MappedKept
  <2>6. \A v \in Open(i)' : Mapped(entries', v)
    BY <2>1, <2>3, <2>4, <2>5
  <2>7. \E lev2, base2 : WellFormed(entries', ntables', lev2, base2, Open(i)')
    BY <2>1, <2>3, <2>4
  <2> QED
    BY <1>1, <1>4, <2>6, <2>7 DEF IndInv, WellFormed, Tables, Points, Hung, Digits, Mapped, get_index_pae2mb
<1> QED
  BY <1>7, <1>8

(* A round of the loop allocates at most two tables.                       *)
LEMMA LoopGrows ==
    IndInv /\ create_2mb_nested_pagetable
       => ntables \in Nat \ {0} /\ ntables' \in {ntables, ntables + 1, ntables + 2}
<1> SUFFICES ASSUME IndInv, create_2mb_nested_pagetable
             PROVE  ntables \in Nat \ {0} /\ ntables' \in {ntables, ntables + 1, ntables + 2}
  OBVIOUS
<1>1. ntables \in Nat \ {0}
  BY DEF IndInv, WellFormed, Tables
<1>2. \/ ntables' = ntables
      \/ ntables' = mmap_pml4([entries |-> entries, n |-> ntables, t |-> 1], i, i).n
  BY DEF create_2mb_nested_pagetable
<1> QED
  BY <1>1, <1>2, MmapGrows

(* A step that changes nothing keeps the invariant.                        *)
LEMMA StutterInv == IndInv /\ UNCHANGED vars => IndInv'
<1> SUFFICES ASSUME IndInv, UNCHANGED vars PROVE IndInv'
  OBVIOUS
<1>1. UNCHANGED <<start, size, entries, ntables, i>>
  BY DEF vars
<1>2. Open(i)' = Open(i)
  BY <1>1 DEF Open, Hidden, vmm_pagestart, vmm_pageend, PAGE_DOWN_2MB, PAGE_UP_2MB
<1>3. \E lev, base : WellFormed(entries', ntables', lev, base, Open(i)')
  BY <1>1, <1>2 DEF IndInv
<1>4. \A v \in Open(i)' : Mapped(entries', v)
  BY <1>1, <1>2 DEF IndInv
<1> QED
  BY <1>1, <1>3, <1>4
     DEF IndInv, WellFormed, Tables, Points, Hung, Digits, Mapped, get_index_pae2mb

(* The invariant holds in every reachable state.                           *)
LEMMA Invariant == Spec => []IndInv
<1>1. IndInv /\ [Next]_vars => IndInv'
  BY StutterInv, LoopInv DEF Next, Created
<1> QED
  BY <1>1, InitInv, PTL DEF Spec

-----------------------------------------------------------------------------
(* The loop hides a page if the VMM has a byte in it, and if it hides a    *)
(* page then the VMM has a byte in it or in the page after.                *)
LEMMA HiddenExact ==
    ASSUME start \in Nat, size \in Nat \ {0}, NEW v \in Nat
    PROVE  /\ HoldsVmm(v) => Hidden(v * Big)
           /\ Hidden(v * Big) => HoldsVmm(v) \/ HoldsVmm(v + 1)
<1>1. Big \in Nat \ {0}
  BY SizesAssumption
<1> DEFINE last == start + size - 1
           first == start \div Big
           after == (start + size + Big - 1) \div Big
<1>2. /\ first \in Nat /\ after \in Nat /\ last \in Nat /\ start + size + Big - 1 \in Nat
      /\ start <= last
  BY <1>1, DivMod
<1>3. vmm_pagestart = first * Big /\ vmm_pageend = after * Big - 1
  BY DEF vmm_pagestart, vmm_pageend, PAGE_DOWN_2MB, PAGE_UP_2MB
<1>4. ASSUME NEW w \in Nat
      PROVE  HoldsVmm(w) <=> first <= w /\ w < after
  <2>1. w + 1 <= after <=> Big * (w + 1) <= start + size + Big - 1
    BY <1>1, <1>2, DivAtLeast
  <2>2. Big * (w + 1) = Big * w + Big /\ Big * w \in Nat
    BY <1>1, MultType
  <2>3. w < after <=> Big * w <= last
    <3> DEFINE bw == Big * w
               bw1 == Big * (w + 1)
    <3>1. bw1 = bw + Big /\ bw \in Nat
      BY <2>2
    <3>2. w + 1 <= after <=> bw1 <= start + size + Big - 1
      BY <2>1
    <3> HIDE DEF bw, bw1, after
    <3>3. w < after <=> bw <= last
      BY <1>1, <1>2, <3>1, <3>2
    <3> QED
      BY <3>3 DEF bw
  <2>4. first <= w <=> start < Big * w + Big
    <3>1. w + 1 <= first <=> Big * (w + 1) <= start
      BY <1>1, DivAtLeast
    <3> HIDE DEF first
    <3> QED
      BY <1>1, <1>2, <2>2, <3>1
  <2>5. \A a \in Nat : a \div Big = w <=> Big * w <= a /\ a < Big * w + Big
    <3> SUFFICES ASSUME NEW a \in Nat
                 PROVE  a \div Big = w <=> Big * w <= a /\ a < Big * w + Big
      OBVIOUS
    <3>1. w <= a \div Big <=> Big * w <= a
      BY <1>1, DivAtLeast
    <3>2. w + 1 <= a \div Big <=> Big * (w + 1) <= a
      BY <1>1, DivAtLeast
    <3>3. a \div Big \in Nat
      BY <1>1, DivMod
    <3> QED
      BY <1>1, <2>2, <3>1, <3>2, <3>3
  <2>6. ASSUME HoldsVmm(w) PROVE first <= w /\ w < after
    <3>1. PICK a \in start .. last : a \div Big = w
      BY <2>6 DEF HoldsVmm
    <3>2. a \in Nat /\ start <= a /\ a <= last /\ Big * w <= a /\ a < Big * w + Big
      BY <1>2, <2>5, <3>1
    <3>3. Big * w <= last /\ start < Big * w + Big
      BY <1>1, <1>2, <2>2, <3>2
    <3> QED
      BY <2>3, <2>4, <3>3
  <2>7. ASSUME first <= w, w < after PROVE HoldsVmm(w)
    <3> DEFINE a == IF Big * w >= start THEN Big * w ELSE start
    <3>1. Big * w <= last /\ start < Big * w + Big
      BY <2>3, <2>4, <2>7
    <3>2. a \in start .. last /\ a \in Nat /\ Big * w <= a /\ a < Big * w + Big
      BY <1>1, <1>2, <2>2, <3>1
    <3>3. a \div Big = w
      <4> HIDE DEF a
      <4> QED
        BY <2>5, <3>2
    <3> HIDE DEF a
    <3> QED
      BY <3>2, <3>3 DEF HoldsVmm
  <2> QED
    BY <2>6, <2>7
<1>5. \A w \in Nat : first <= w <=> first * Big <= w * Big
  <2> SUFFICES ASSUME NEW w \in Nat PROVE first <= w <=> first * Big <= w * Big
    OBVIOUS
  <2>1. first <= w => Big * first <= Big * w
    BY <1>1, <1>2, MultMonotone
  <2>2. w < first => Big * w + Big <= Big * first
    BY <1>1, <1>2, MultGap
  <2>3. Big * first = first * Big /\ Big * w = w * Big /\ Big * w \in Nat /\ Big * first \in Nat
    BY <1>1, <1>2, MultType
  <2> HIDE DEF first
  <2> QED
    BY <1>1, <1>2, <2>1, <2>2, <2>3
<1>6. \A w \in Nat : w < after <=> w * Big <= after * Big - 1
  <2> SUFFICES ASSUME NEW w \in Nat PROVE w < after <=> w * Big <= after * Big - 1
    OBVIOUS
  <2>1. after <= w => Big * after <= Big * w
    BY <1>1, <1>2, MultMonotone
  <2>2. w < after => Big * w + Big <= Big * after
    BY <1>1, <1>2, MultGap
  <2>3. Big * after = after * Big /\ Big * w = w * Big /\ Big * w \in Nat /\ Big * after \in Nat
    BY <1>1, <1>2, MultType
  <2> HIDE DEF after
  <2> QED
    BY <1>1, <1>2, <2>1, <2>2, <2>3
<1> HIDE DEF first, after
<1>7. (v + 1) * Big = v * Big + Big /\ v * Big \in Nat /\ after * Big \in Nat
  BY <1>1, <1>2, MultType
<1>8. HoldsVmm(v) => Hidden(v * Big)
  BY <1>3, <1>4, <1>5, <1>6 DEF Hidden
<1>9. CASE v * Big >= vmm_pagestart /\ v * Big <= vmm_pageend
  <2>1. first * Big \in Nat
    BY <1>1, <1>2, MultType
  <2>2. HoldsVmm(v)
    BY <1>3, <1>4, <1>5, <1>6, <1>7, <1>9, <2>1
  <2> QED
    BY <1>8, <2>2
<1>10. CASE v * Big + Big >= vmm_pagestart /\ v * Big + 2 * Big <= vmm_pageend
  <2>1. first * Big \in Nat
    BY <1>1, <1>2, MultType
  <2>2. first * Big <= (v + 1) * Big /\ (v + 1) * Big <= after * Big - 1
    BY <1>1, <1>3, <1>7, <1>10, <2>1
  <2>3. HoldsVmm(v + 1)
    BY <1>4, <1>5, <1>6, <2>2
  <2> QED
    BY <1>8, <2>3
<1> QED
  BY <1>8, <1>9, <1>10 DEF Hidden

-----------------------------------------------------------------------------
(* A well formed table has the shape that TypeOK asks for.                 *)
LEMMA TypeFromInv == IndInv => TypeOK
<1> SUFFICES ASSUME IndInv PROVE TypeOK
  OBVIOUS
<1>1. PICK lev, base : WellFormed(entries, ntables, lev, base, Open(i))
  BY DEF IndInv
<1>2. /\ Tables(ntables, lev, base) /\ Points(entries, ntables, lev, base, Open(i))
      /\ lev \in [1 .. ntables -> 0 .. 2] /\ ntables \in Nat \ {0}
  BY <1>1 DEF WellFormed, Tables
<1>3. ASSUME NEW k \in DOMAIN entries PROVE entries[k] \in Nat
  <2>1. lev[k[1]] \in 0 .. 2
    BY <1>2 DEF Points
  <2>2. CASE lev[k[1]] < 2
    <3>1. entries[k] \in 1 .. ntables
      BY <1>2, <2>2 DEF Points
    <3> QED
      BY <1>2, <3>1
  <2>3. CASE lev[k[1]] = 2
    <3>1. entries[k] \in 0 .. i - 1 /\ i \in Nat
      BY <1>2, <2>3, SizesAssumption DEF Points, Open, IndInv
    <3> QED
      BY <3>1
  <2> QED
    BY <2>1, <2>2, <2>3
<1> QED
  BY <1>2, <1>3 DEF TypeOK, IndInv, Points

(* What a walk finds, in terms of what the loop has mapped.                *)
LEMMA WalkFromInv ==
    ASSUME IndInv, NEW v \in Vpns
    PROVE  linear2physical_legacy2mb(v) = IF v \in Open(i) THEN v ELSE NotPresent
<1>1. PICK lev, base : WellFormed(entries, ntables, lev, base, Open(i))
  BY DEF IndInv
<1>2. v \in Nat /\ v < Radix * Radix * Radix
  BY VpnsInRange
<1>3. /\ linear2physical_legacy2mb(v) = IF Mapped(entries, v) THEN v ELSE NotPresent
      /\ Mapped(entries, v) => v \in Open(i)
  BY <1>1, <1>2, WalkShape
<1> QED
  BY <1>3 DEF IndInv

(* A page that is mapped is not hidden, and what is hidden covers the VMM. *)
LEMMA ReachFromInv == IndInv => VmmUnreachable
<1>1. ASSUME IndInv, NEW v \in Vpns PROVE ~HoldsVmm(linear2physical_legacy2mb(v))
  <2>1. v \in Nat /\ start \in Nat /\ size \in Nat \ {0} /\ Big \in Nat \ {0}
    BY <1>1, VpnsInRange, SizesAssumption DEF IndInv
  <2>2. CASE v \in Open(i)
    <3>1. linear2physical_legacy2mb(v) = v /\ ~Hidden(v * Big)
      BY <1>1, <2>2, WalkFromInv DEF Open
    <3> QED
      BY <2>1, <3>1, HiddenExact
  <2>3. CASE v \notin Open(i)
    <3>1. linear2physical_legacy2mb(v) = NotPresent
      BY <1>1, <2>3, WalkFromInv
    <3>2. ASSUME NEW a \in start .. start + size - 1 PROVE a \div Big \in Nat
      <4>1. a \in Nat
        BY <2>1
      <4> QED
        BY <2>1, <4>1, DivMod
    <3>3. NotPresent \notin Nat
      BY DEF NotPresent
    <3> QED
      BY <3>1, <3>2, <3>3 DEF HoldsVmm
  <2> QED
    BY <2>2, <2>3
<1> QED
  BY <1>1 DEF VmmUnreachable

(* The upper entries are in step with the tables but the root.             *)
LEMMA OwnedFromInv == IndInv => TablesOwned
<1> SUFFICES ASSUME IndInv PROVE TablesOwned
  OBVIOUS
<1>1. PICK lev, base : WellFormed(entries, ntables, lev, base, Open(i))
  BY DEF IndInv
<1>2. /\ Tables(ntables, lev, base) /\ Points(entries, ntables, lev, base, Open(i))
      /\ Hung(entries, ntables, lev)
      /\ lev \in [1 .. ntables -> 0 .. 2] /\ base \in [1 .. ntables -> Nat]
      /\ ntables \in Nat \ {0} /\ Radix \in Nat \ {0}
  BY <1>1, SizesAssumption DEF WellFormed, Tables
<1>3. \A k \in DOMAIN entries :
         k[1] \in 1 .. ntables /\ k[2] \in 0 .. Radix - 1 /\ k = <<k[1], k[2]>>
  BY <1>2 DEF Points
<1>4. 1 \in 1 .. ntables /\ \A t \in 1 .. ntables : lev[t] = 0 <=> t = 1
  BY <1>2 DEF Tables
<1> DEFINE upper == {k \in DOMAIN entries : k[1] = 1 \/ \E x \in 0 .. Radix - 1 :
                        <<1, x>> \in DOMAIN entries /\ entries[<<1, x>>] = k[1]}
<1>5. upper = {k \in DOMAIN entries : lev[k[1]] < 2}
  <2> SUFFICES ASSUME NEW k \in DOMAIN entries
               PROVE  lev[k[1]] < 2 <=> k[1] = 1 \/ \E x \in 0 .. Radix - 1 :
                        <<1, x>> \in DOMAIN entries /\ entries[<<1, x>>] = k[1]
    OBVIOUS
  <2>1. k[1] \in 1 .. ntables /\ lev[k[1]] \in 0 .. 2
    BY <1>2, <1>3
  <2>2. CASE k[1] = 1
    BY <1>4, <2>1, <2>2
  <2>3. CASE lev[k[1]] = 1
    <3>1. k[1] \in 2 .. ntables
      BY <1>2, <1>4, <2>1, <2>3
    <3>2. PICK y \in DOMAIN entries : lev[y[1]] < 2 /\ entries[y] = k[1]
      BY <1>2, <3>1 DEF Hung
    <3>3. lev[entries[y]] = lev[y[1]] + 1 /\ lev[y[1]] \in 0 .. 2
      BY <1>2, <1>3, <3>2 DEF Points
    <3>4. lev[y[1]] = 0
      BY <2>3, <3>2, <3>3
    <3>5. y[1] = 1 /\ y[2] \in 0 .. Radix - 1 /\ y = <<1, y[2]>>
      BY <1>3, <1>4, <3>4
    <3> QED
      BY <2>3, <3>2, <3>5
  <2>4. CASE lev[k[1]] = 2
    <3>1. k[1] # 1
      BY <1>4, <2>1, <2>4
    <3>2. \A x \in 0 .. Radix - 1 : <<1, x>> \in DOMAIN entries => lev[entries[<<1, x>>]] = 1
      <4> SUFFICES ASSUME NEW x \in 0 .. Radix - 1, <<1, x>> \in DOMAIN entries
                   PROVE  lev[entries[<<1, x>>]] = 1
        OBVIOUS
      <4>1. lev[<<1, x>>[1]] = 0 /\ lev[<<1, x>>[1]] < 2 /\ lev[<<1, x>>[1]] + 1 = 1
        BY <1>4
      <4> QED
        BY <1>2, <4>1 DEF Points
    <3>3. ~\E x \in 0 .. Radix - 1 : <<1, x>> \in DOMAIN entries /\ entries[<<1, x>>] = k[1]
      <4> SUFFICES ASSUME NEW x \in 0 .. Radix - 1, <<1, x>> \in DOMAIN entries,
                          entries[<<1, x>>] = k[1]
                   PROVE  FALSE
        OBVIOUS
      <4>1. lev[entries[<<1, x>>]] = 1
        BY <3>2
      <4> QED
        BY <2>4, <4>1
    <3> QED
      BY <2>4, <3>1, <3>3
  <2> QED
    BY <1>4, <2>1, <2>2, <2>3, <2>4
<1> HIDE DEF upper
<1>6. ASSUME NEW k \in upper
      PROVE  entries[k] \in 2 .. ntables
  <2>1. k \in DOMAIN entries /\ lev[k[1]] < 2 /\ lev[k[1]] \in 0 .. 2
    BY <1>2, <1>3, <1>5
  <2>2. entries[k] \in 1 .. ntables /\ lev[entries[k]] = lev[k[1]] + 1
    BY <1>2, <2>1 DEF Points
  <2>3. entries[k] # 1
    BY <1>4, <2>1, <2>2
  <2> QED
    BY <1>2, <2>2, <2>3
<1>7. \A t \in 2 .. ntables : \E k \in upper : entries[k] = t
  BY <1>2, <1>5 DEF Hung
<1>8. ASSUME NEW k \in upper, NEW y \in upper, entries[k] = entries[y] PROVE k = y
  <2>1. /\ k \in DOMAIN entries /\ lev[k[1]] < 2 /\ lev[k[1]] \in 0 .. 2
        /\ y \in DOMAIN entries /\ lev[y[1]] < 2 /\ lev[y[1]] \in 0 .. 2
    BY <1>2, <1>3, <1>5
  <2>2. /\ lev[entries[k]] = lev[k[1]] + 1 /\ base[entries[k]] = Digits(base, k)
        /\ lev[entries[y]] = lev[y[1]] + 1 /\ base[entries[y]] = Digits(base, y)
    BY <1>2, <2>1 DEF Points
  <2>3. lev[k[1]] = lev[y[1]] /\ Digits(base, k) = Digits(base, y)
    BY <1>8, <2>1, <2>2
  <2>4. base[k[1]] \in Nat /\ base[y[1]] \in Nat
    BY <1>2, <1>3, <2>1
  <2>5. base[k[1]] = base[y[1]] /\ k[2] = y[2]
    BY <1>3, <2>1, <2>3, <2>4, DigitsUnique DEF Digits
  <2>6. k[1] = y[1]
    BY <1>2, <1>3, <2>1, <2>3, <2>5 DEF Tables
  <2> QED
    BY <1>3, <2>1, <2>5, <2>6
<1>9. {entries[k] : k \in upper} = 2 .. ntables
  BY <1>6, <1>7
<1>10. Cardinality(upper) = ntables - 1
  <2> DEFINE f == [k \in upper |-> entries[k]]
  <2>1. f \in Bijection(upper, 2 .. ntables)
    BY <1>6, <1>7, <1>8 DEF Bijection, Injection, Surjection, IsInjective
  <2>2. ExistsBijection(2 .. ntables, upper)
    BY <2>1, Fun_ExistsBijSymmetric DEF ExistsBijection
  <2>3. IsFiniteSet(2 .. ntables) /\ Cardinality(2 .. ntables) = ntables - 1
    <3>1. /\ IsFiniteSet(2 .. ntables)
          /\ Cardinality(2 .. ntables) = IF 2 > ntables THEN 0 ELSE ntables - 2 + 1
      BY <1>2, FS_Interval
    <3> QED
      BY <1>2, <3>1
  <2> QED
    BY <2>2, <2>3, FS_Bijection
<1> QED
  BY <1>9, <1>10 DEF TablesOwned, upper

(* Every entry belongs to an allocated table and to an index of it.        *)
THEOREM TypeCorrect == Spec => []TypeOK
BY TypeFromInv, Invariant, PTL

(* What the nested page table maps, it maps to itself: the handlers may    *)
(* use guest-physical addresses as host addresses.                         *)
THEOREM GuestIsHost == Spec => []IdentityMapped
<1>1. IndInv => IdentityMapped
  BY WalkFromInv DEF IdentityMapped
<1> QED
  BY <1>1, Invariant, PTL

(* No walk, at any moment of the construction, ends in a 2 MB page that    *)
(* holds a byte of the VMM.                                                *)
THEOREM VmmNeverReachable == Spec => []VmmUnreachable
BY ReachFromInv, Invariant, PTL

(* Every table that was allocated is in use, in one place.                 *)
THEOREM TablesNeverLost == Spec => []TablesOwned
BY OwnedFromInv, Invariant, PTL

(* Of the pages the loop covers, only the VMM's and the page below them    *)
(* are missing when it is over.                                            *)
THEOREM OnlyVmmHidden == Spec => []OnlyVmmAndPageBelow
<1>1. ASSUME IndInv, i = LoopPages, NEW v \in 0 .. LoopPages - 1,
             linear2physical_legacy2mb(v) = NotPresent
      PROVE  HoldsVmm(v) \/ HoldsVmm(v + 1)
  <2>1. v \in Vpns /\ v \in Nat /\ NotPresent # v
    BY SizesAssumption DEF Vpns, NotPresent
  <2>2. v \notin Open(i)
    BY <1>1, <2>1, WalkFromInv
  <2>3. Hidden(v * Big)
    BY <1>1, <2>2 DEF Open
  <2> QED
    BY <1>1, <2>1, <2>3, HiddenExact DEF IndInv
<1>2. IndInv => OnlyVmmAndPageBelow
  BY <1>1 DEF OnlyVmmAndPageBelow
<1> QED
  BY <1>2, Invariant, PTL
=============================================================================
