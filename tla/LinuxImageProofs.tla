-------------------------- MODULE LinuxImageProofs --------------------------
(***************************************************************************)
(* Proofs about mkelfImage and its converter: the checksums of parts       *)
(* compose to the checksum of the whole; the converter tells Linux of the  *)
(* memory that the firmware or the boot loader reported; the file holds    *)
(* what the builder read, however short its reads and writes were; a       *)
(* loader has it in memory as it was built; and the command line reaches   *)
(* Linux.  They come in that order, each with the invariant it needs       *)
(* (MemInv, BuildInv, LoadInv, LineInv).                                   *)
(***************************************************************************)
EXTENDS LinuxImage, NatLemmas, SequenceTheorems

(* Addition of words with the carry wrapped around.                        *)
OnesAdd(a, b) == IF a + b > Word - 1 THEN a + b - (Word - 1) ELSE a + b

(* What a byte of data adds, and what a sum adds at an offset.             *)
Term(data, n) == data[n] * (IF n % 2 = 0 THEN Base ELSE 1)
Shifted(offset, w) == IF offset % 2 = 1 THEN bswap_16(w) ELSE w

(* A word is at least four.                                                *)
LEMMA WordSize == Base \in Nat /\ Base > 1 /\ Word \in Nat /\ Word > Base
<1>1. Base \in Nat /\ Base > 1
  BY BaseAssumption
<1>2. Base * 2 <= Base * Base
  BY <1>1, MultMonotone
<1> QED
  BY <1>1, <1>2, MultType DEF Word

(* The addition stays in a word, is commutative and associative, and only  *)
(* zeros give zero.                                                        *)
LEMMA OnesAddLaws ==
    ASSUME NEW a \in Words, NEW b \in Words, NEW c \in Words
    PROVE  /\ OnesAdd(a, b) \in Words /\ OnesAdd(a, b) = OnesAdd(b, a)
           /\ OnesAdd(a, OnesAdd(b, c)) = OnesAdd(OnesAdd(a, b), c)
           /\ OnesAdd(a, 0) = a /\ OnesAdd(0, a) = a
           /\ OnesAdd(a, b) = 0 <=> a = 0 /\ b = 0
BY WordSize DEF Words, OnesAdd

(* The table of carries adds.                                              *)
LEMMA CarriedAdds ==
    ASSUME NEW a \in Words, NEW b \in Words
    PROVE  Carried[a + b] = OnesAdd(a, b)
<1>0. Word \in Nat /\ Word > 1 /\ a \in Nat /\ b \in Nat /\ a <= Word - 1 /\ b <= Word - 1
  BY WordSize DEF Words
<1> DEFINE sum == a + b
<1>1. sum \in 0 .. 2 * Word /\ sum \in Nat
  BY <1>0
<1>2. Carried[sum] = IF sum > Word - 1 THEN (sum + sum \div Word) % Word ELSE sum
  <2> HIDE DEF sum
  <2> QED
    BY <1>1 DEF Carried
<1>3. ASSUME sum > Word - 1 PROVE (sum + sum \div Word) % Word = sum - (Word - 1)
  <2>1. sum = Word * 1 + (sum - Word) /\ sum - Word \in 0 .. Word - 1 /\ 1 \in Nat
    BY <1>0, <1>3
  <2> HIDE DEF sum
  <2>2. sum \div Word = 1
    BY <1>0, <2>1, DivOf
  <2>3. sum + 1 = Word * 1 + (sum - (Word - 1)) /\ sum - (Word - 1) \in 0 .. Word - 1
    BY <1>0, <1>1, <1>3 DEF sum
  <2>4. (sum + 1) % Word = sum - (Word - 1)
    BY <1>0, <2>1, <2>3, DivOf
  <2> QED
    BY <2>2, <2>4
<1>4. CASE sum > Word - 1
  <2>1. Carried[sum] = sum - (Word - 1)
    BY <1>2, <1>3, <1>4
  <2> QED
    BY <1>0, <1>4, <2>1 DEF OnesAdd
<1>5. CASE ~(sum > Word - 1)
  <2>1. Carried[sum] = sum
    BY <1>2, <1>5
  <2> QED
    BY <1>0, <1>5, <2>1 DEF OnesAdd
<1> QED
  BY <1>4, <1>5

(* The swap of a word's bytes multiplies it by Base, modulo Word - 1.      *)
LEMMA SwapIs ==
    ASSUME NEW w \in Words
    PROVE  /\ bswap_16(w) \in Words
           /\ bswap_16(w) = 0 <=> w = 0
           /\ w \div Base \in Nat /\ bswap_16(w) = Base * w - (Word - 1) * (w \div Base)
<1>0. Base \in Nat /\ Base > 1 /\ Word \in Nat /\ w \in Nat /\ w <= Word - 1
  BY WordSize DEF Words
<1> DEFINE q == w \div Base
           r == w % Base
<1>1. q \in Nat /\ r \in 0 .. Base - 1 /\ r = w - Base * q
  <2>1. Base \in Nat \ {0} /\ w \in Nat
    BY <1>0
  <2> QED
    BY <2>1, DivMod
<1>2. q <= Base - 1
  <2>1. Base * q <= w
    BY <1>0, DivMod
  <2> HIDE DEF q
  <2>2. Base * q < Base * Base
    BY <1>0, <1>1, <2>1, MultType DEF Word
  <2>3. ~(Base <= q)
    <3>1. Base <= q => Base * Base <= Base * q
      BY <1>0, <1>1, MultMonotone
    <3> QED
      BY <1>0, <1>1, <2>2, <3>1, MultType
  <2> QED
    BY <1>0, <1>1, <2>3
<1>3. bswap_16(w) = Base * r + q
  BY <1>0, <1>1, MultType DEF bswap_16
<1> HIDE DEF q, r
<1>4. Base * r + q <= Word - 1 /\ Base * r + q \in Nat /\ (Base * r + q = 0 <=> r = 0 /\ q = 0)
  <2>1. Base * r <= Base * (Base - 1)
    BY <1>0, <1>1, MultMonotone
  <2>2. Base * (Base - 1) = Word - Base
    BY <1>0 DEF Word
  <2>3. Base * r \in Nat /\ r <= Base * r
    <3>1. r * 1 <= r * Base
      BY <1>0, <1>1, MultMonotone
    <3> QED
      BY <1>0, <1>1, <3>1, MultType
  <2> QED
    BY <1>0, <1>1, <1>2, <2>1, <2>2, <2>3
<1>5. w = Base * q + r /\ (w = 0 <=> r = 0 /\ q = 0)
  <2>1. Base * q \in Nat /\ q <= Base * q
    <3>1. q * 1 <= q * Base
      BY <1>0, <1>1, MultMonotone
    <3> QED
      BY <1>0, <1>1, <3>1, MultType
  <2> QED
    BY <1>0, <1>1, <2>1
<1>6. Base * w - (Word - 1) * q = Base * r + q
  <2>1. Base * w = Base * (Base * q) + Base * r
    BY <1>0, <1>1, <1>5, MultType
  <2>2. (Word - 1) * q = Word * q - q
    BY <1>0, <1>1
  <2>3. Base * (Base * q) = Word * q
    BY <1>0, <1>1 DEF Word
  <2> QED
    BY <1>0, <1>1, <2>1, <2>2, <2>3, MultType
<1> QED
  BY <1>0, <1>1, <1>3, <1>4, <1>5, <1>6 DEF Words, q

(* So it goes through a sum.                                               *)
LEMMA SwapAdds ==
    ASSUME NEW a \in Words, NEW b \in Words
    PROVE  bswap_16(OnesAdd(a, b)) = OnesAdd(bswap_16(a), bswap_16(b))
<1> DEFINE M == Word - 1
           x == bswap_16(OnesAdd(a, b))
           y == OnesAdd(bswap_16(a), bswap_16(b))
           p == a \div Base
           q == b \div Base
           r == OnesAdd(a, b) \div Base
<1>0. M \in Nat /\ M > 0 /\ Base \in Nat /\ a \in Nat /\ b \in Nat
  BY WordSize DEF Words
<1>1. OnesAdd(a, b) \in Words /\ (OnesAdd(a, b) = 0 <=> a = 0 /\ b = 0)
  BY OnesAddLaws
<1>2. /\ x \in Words /\ (x = 0 <=> a = 0 /\ b = 0)
      /\ r \in Nat /\ x = Base * OnesAdd(a, b) - M * r
  BY <1>1, SwapIs
<1>3. /\ bswap_16(a) \in Words /\ bswap_16(b) \in Words
      /\ (bswap_16(a) = 0 <=> a = 0) /\ (bswap_16(b) = 0 <=> b = 0)
      /\ p \in Nat /\ bswap_16(a) = Base * a - M * p
      /\ q \in Nat /\ bswap_16(b) = Base * b - M * q
  BY SwapIs
<1>4. y \in Words /\ (y = 0 <=> a = 0 /\ b = 0)
  BY <1>3, OnesAddLaws
<1>5. PICK k \in {0, 1} : OnesAdd(a, b) = a + b - M * k
  BY <1>0 DEF OnesAdd
<1>6. PICK l \in {0, 1} : y = bswap_16(a) + bswap_16(b) - M * l
  BY <1>0, <1>3, SwapIs DEF OnesAdd, Words
<1> HIDE DEF M, x, y, p, q, r
<1> DEFINE j == p + q + l - Base * k - r
<1>7. j \in Int
  BY <1>0, <1>2, <1>3, <1>5, <1>6
<1>8. x - y = M * j
  <2>1. Base * OnesAdd(a, b) = Base * a + Base * b - Base * (M * k)
    BY <1>0, <1>5
  <2>2. M * j = M * p + M * q + M * l - M * (Base * k) - M * r
    BY <1>0, <1>2, <1>3, <1>5, <1>6
  <2>3. M * (Base * k) = Base * (M * k)
    BY <1>0, <1>5
  <2> QED
    BY <1>0, <1>2, <1>3, <1>5, <1>6, <2>1, <2>2, <2>3
<1> HIDE DEF j
<1>9. x \in 0 .. M /\ y \in 0 .. M
  BY <1>2, <1>4 DEF Words, M
<1>10. j \in {-1, 0, 1}
  <2>1. ~(j >= 2)
    <3>1. j >= 2 => M * 2 <= M * j
      BY <1>0, <1>7, MultMonotone
    <3> QED
      BY <1>0, <1>7, <1>8, <1>9, <3>1
  <2>2. ~(j <= -2)
    <3>1. j <= -2 => M * j <= M * (-2)
      BY <1>0, <1>7, MultMonotone
    <3> QED
      BY <1>0, <1>7, <1>8, <1>9, <3>1
  <2> QED
    BY <1>7, <2>1, <2>2
<1>11. x = y
  BY <1>0, <1>2, <1>4, <1>8, <1>9, <1>10
<1> QED
  BY <1>11 DEF x, y

(* Bytes are words, at even and at odd places, and the swap changes them.  *)
LEMMA TermIs ==
    ASSUME NEW d \in Bytes
    PROVE  /\ d * 1 \in Words /\ d * Base \in Words
           /\ bswap_16(d * 1) = d * Base /\ bswap_16(d * Base) = d * 1
<1>0. Base \in Nat /\ Base > 1 /\ Word \in Nat /\ Word > Base /\ d \in 0 .. Base - 1 /\ d \in Nat
  BY WordSize DEF Bytes
<1>1. d * Base <= Word - Base /\ d * Base \in Nat /\ d * Base = Base * d
  <2>1. Base * d <= Base * (Base - 1)
    BY <1>0, MultMonotone
  <2>2. Base * (Base - 1) = Word - Base
    BY <1>0 DEF Word
  <2> QED
    BY <1>0, <2>1, <2>2, MultType
<1>2. d \div Base = 0 /\ d % Base = d
  <2>1. Base \in Nat \ {0} /\ d \in 0 .. Base - 1
    BY <1>0
  <2> QED
    BY <2>1, SmallMod
<1>3. (d * Base) \div Base = d /\ (d * Base) % Base = 0
  <2> DEFINE e == d * Base
  <2>1. Base \in Nat \ {0} /\ d \in Nat /\ 0 \in 0 .. Base - 1 /\ e = Base * d + 0
    BY <1>0, <1>1
  <2> HIDE DEF e
  <2>2. e \div Base = d /\ e % Base = 0
    BY <2>1, DivOf, Zenon
  <2> QED
    BY <2>2 DEF e
<1>4. d * 1 = d /\ d \in Words /\ d * Base \in Words
  BY <1>0, <1>1 DEF Words
<1>5. bswap_16(d) = d * Base
  BY <1>0, <1>1, <1>2 DEF bswap_16
<1>6. bswap_16(d * Base) = 0 * Base + d
  BY <1>3 DEF bswap_16
<1> QED
  BY <1>0, <1>4, <1>5, <1>6

(* The sums that checksum_partial goes through.                            *)
Sums(s, data) ==
    /\ s \in [0 .. Len(data) -> Words] /\ s[0] = 0
    /\ \A n \in 1 .. Len(data) : s[n] = OnesAdd(s[n - 1], Term(data, n))

(* What one byte adds is a word.                                           *)
LEMMA TermType ==
    ASSUME NEW data \in Seq(Bytes), NEW n \in 1 .. Len(data)
    PROVE  Term(data, n) \in Words
<1>1. data[n] \in Bytes
  BY ElementOfSeq
<1> QED
  BY <1>1, TermIs DEF Term

(* The sums that checksum_partial forms on its way are words, and each is  *)
(* the one before plus the next byte.                                      *)
LEMMA PartialSums ==
    ASSUME NEW data \in Seq(Bytes)
    PROVE  \E s : Sums(s, data) /\ checksum_partial(data) = s[Len(data)]
<1> DEFINE N == Len(data)
           S[n \in 0 .. N] ==
              IF n = 0 THEN 0 ELSE Carried[S[n - 1] + data[n] * (IF n % 2 = 0 THEN Base ELSE 1)]
           G == [x \in Words \X (1 .. N) |-> OnesAdd(x[1], Term(data, x[2]))]
<1>0. N \in Nat
  BY LenProperties
<1>1. checksum_partial(data) = S[N]
  BY DEF checksum_partial
<1>a. N = Len(data)
  OBVIOUS
<1> HIDE DEF N
<1>2. \A w \in Words, n \in 1 .. N :
         /\ OnesAdd(w, Term(data, n)) \in Words
         /\ Carried[w + Term(data, n)] = OnesAdd(w, Term(data, n))
  BY <1>a, TermType, OnesAddLaws, CarriedAdds
<1>3. G \in [Words \X (1 .. N) -> Words] /\ 0 \in Words
  BY <1>2, WordSize DEF Words
<1>4. PICK h \in [0 .. N -> Words] : Recurs(h, N, 0, G)
  <2> HIDE DEF G, N
  <2> QED
    BY <1>0, <1>3, RecursExists
<1>5. \A n \in 0 .. N : h[n] = IF n = 0 THEN 0 ELSE OnesAdd(h[n - 1], Term(data, n))
  <2>1. h = [i \in 0 .. N |-> IF i = 0 THEN 0 ELSE G[<<h[i - 1], i>>]]
    BY <1>4 DEF Recurs
  <2>2. ASSUME NEW n \in 1 .. N PROVE G[<<h[n - 1], n>>] = OnesAdd(h[n - 1], Term(data, n))
    <3>0. n - 1 \in 0 .. N
      BY <1>0
    <3>1. <<h[n - 1], n>> \in Words \X (1 .. N)
      BY <1>4, <3>0
    <3> QED
      BY <3>1
  <2> HIDE DEF G
  <2>3. \A n \in 0 .. N : h[n] = IF n = 0 THEN 0 ELSE G[<<h[n - 1], n>>]
    BY <2>1
  <2> QED
    BY <1>0, <2>2, <2>3
<1>6. h = [n \in 0 .. N |-> IF n = 0 THEN 0
                            ELSE Carried[h[n - 1] + data[n] * (IF n % 2 = 0 THEN Base ELSE 1)]]
  <2>1. \A n \in 1 .. N : h[n - 1] \in Words
    BY <1>0, <1>4
  <2>2. \A n \in 0 .. N : h[n] = IF n = 0 THEN 0 ELSE Carried[h[n - 1] + Term(data, n)]
    BY <1>0, <1>2, <1>5, <2>1
  <2> QED
    BY <1>4, <2>2 DEF Term
<1>7. S = [n \in 0 .. N |-> IF n = 0 THEN 0
                            ELSE Carried[S[n - 1] + data[n] * (IF n % 2 = 0 THEN Base ELSE 1)]]
  BY <1>6, Zenon
<1> HIDE DEF S
<1>8. S[0] = 0 /\ \A n \in 1 .. N : S[n] = Carried[S[n - 1] + Term(data, n)]
  <2>1. S = [n \in 0 .. N |-> IF n = 0 THEN 0 ELSE Carried[S[n - 1] + Term(data, n)]]
    BY <1>7 DEF Term
  <2>2. \A n \in 0 .. N : S[n] = IF n = 0 THEN 0 ELSE Carried[S[n - 1] + Term(data, n)]
    BY <2>1
  <2> QED
    BY <1>0, <2>2
<1>9. \A n \in 0 .. N : S[n] \in Words
  <2> DEFINE T == {n \in 0 .. N : S[n] \in Words}
  <2>1. 0 \in T
    BY <1>0, <1>3, <1>8
  <2>2. ASSUME NEW n \in 0 .. N - 1, n \in T PROVE n + 1 \in T
    <3>1. n + 1 \in 1 .. N /\ (n + 1) - 1 = n /\ n + 1 \in 0 .. N
      BY <1>0
    <3>2. S[n + 1] = Carried[S[n] + Term(data, n + 1)] /\ S[n] \in Words
      BY <1>8, <2>2, <3>1
    <3> QED
      BY <1>2, <3>1, <3>2
  <2> HIDE DEF T
  <2>3. \A n \in 0 .. N : n \in T
    BY <1>0, <2>1, <2>2, UpTo
  <2> QED
    BY <2>3 DEF T
<1>10. Sums(S, data)
  <2>1. ASSUME NEW n \in 1 .. N PROVE S[n] = OnesAdd(S[n - 1], Term(data, n))
    <3>1. n - 1 \in 0 .. N
      BY <1>0
    <3>2. S[n - 1] \in Words /\ S[n] = Carried[S[n - 1] + Term(data, n)]
      BY <1>8, <1>9, <3>1
    <3> QED
      BY <1>2, <3>2
  <2>2. S \in [0 .. N -> Words]
    BY <1>7, <1>9
  <2> QED
    BY <1>a, <1>8, <2>1, <2>2 DEF Sums
<1> QED
  BY <1>1, <1>10, <1>a

(* The sums over a sequence of bytes are determined.                       *)
LEMMA SumsUnique ==
    ASSUME NEW data \in Seq(Bytes), NEW s, Sums(s, data)
    PROVE  checksum_partial(data) = s[Len(data)] /\ checksum_partial(data) \in Words
<1>1. PICK r : Sums(r, data) /\ checksum_partial(data) = r[Len(data)]
  BY PartialSums
<1>0. Len(data) \in Nat
  BY LenProperties
<1> DEFINE T == {n \in 0 .. Len(data) : r[n] = s[n]}
<1>2. 0 \in T
  BY <1>0, <1>1 DEF Sums
<1>3. ASSUME NEW n \in 0 .. Len(data) - 1, n \in T PROVE n + 1 \in T
  <2>1. n + 1 \in 1 .. Len(data) /\ (n + 1) - 1 = n /\ n + 1 \in 0 .. Len(data)
    BY <1>0
  <2>2. /\ r[n + 1] = OnesAdd(r[n], Term(data, n + 1))
        /\ s[n + 1] = OnesAdd(s[n], Term(data, n + 1))
    BY <1>1, <2>1 DEF Sums
  <2> QED
    BY <1>3, <2>1, <2>2
<1> HIDE DEF T
<1>4. \A n \in 0 .. Len(data) : n \in T
  BY <1>0, <1>2, <1>3, UpTo
<1>5. Len(data) \in 0 .. Len(data)
  BY <1>0
<1> QED
  BY <1>1, <1>4, <1>5 DEF T, Sums

(* Parities of a sum.                                                      *)
LEMMA Parity ==
    ASSUME NEW k \in Nat, NEW n \in Nat
    PROVE  /\ k % 2 \in {0, 1} /\ n % 2 \in {0, 1}
           /\ k % 2 = 0 => (k + n) % 2 = n % 2
           /\ k % 2 = 1 => (k + n) % 2 = 1 - (n % 2)
OBVIOUS

(* Shifting to an offset commutes with the addition of words.              *)
LEMMA ShiftAdds ==
    ASSUME NEW k \in Nat, NEW a \in Words, NEW b \in Words
    PROVE  /\ Shifted(k, a) \in Words
           /\ Shifted(k, OnesAdd(a, b)) = OnesAdd(Shifted(k, a), Shifted(k, b))
           /\ Shifted(k, 0) = 0
<1>1. 0 \in Words
  BY WordSize DEF Words
<1> QED
  BY <1>1, SwapIs, SwapAdds DEF Shifted

(* The checksum of two pieces, the second one shifted by the length of the *)
(* first.                                                                  *)
LEMMA SumOfJoin ==
    ASSUME NEW a \in Seq(Bytes), NEW b \in Seq(Bytes)
    PROVE  checksum_partial(a \o b)
             = OnesAdd(checksum_partial(a), Shifted(Len(a), checksum_partial(b)))
<1> DEFINE c == a \o b
           la == Len(a)
           lb == Len(b)
<1>0. la \in Nat /\ lb \in Nat
  BY LenProperties
<1>1. c \in Seq(Bytes) /\ Len(c) = la + lb
      /\ \A i \in 1 .. la + lb : c[i] = IF i <= la THEN a[i] ELSE b[i - la]
  BY ConcatProperties
<1>2. PICK s : Sums(s, a) /\ checksum_partial(a) = s[la]
  BY PartialSums
<1>3. PICK t : Sums(t, b) /\ checksum_partial(b) = t[lb]
  BY PartialSums
<1>a. a \in Seq(Bytes) /\ b \in Seq(Bytes)
  OBVIOUS
<1>b. la = Len(a) /\ lb = Len(b)
  OBVIOUS
<1> HIDE DEF c, la, lb
<1>4. /\ s \in [0 .. la -> Words] /\ s[0] = 0 /\ t \in [0 .. lb -> Words] /\ t[0] = 0
      /\ \A n \in 1 .. la : s[n] = OnesAdd(s[n - 1], Term(a, n))
      /\ \A n \in 1 .. lb : t[n] = OnesAdd(t[n - 1], Term(b, n))
  BY <1>2, <1>3, <1>b DEF Sums
<1>5. s[la] \in Words
  <2>1. la \in 0 .. la
    BY <1>0
  <2> QED
    BY <1>4, <2>1
<1>6. \A n \in 1 .. la : Term(c, n) = Term(a, n)
  <2> SUFFICES ASSUME NEW n \in 1 .. la PROVE c[n] = a[n]
    BY DEF Term
  <2>1. n \in 1 .. la + lb /\ n <= la
    BY <1>0
  <2> QED
    BY <1>1, <2>1
<1>7. \A n \in 1 .. lb : Term(c, la + n) = Shifted(la, Term(b, n)) /\ Term(b, n) \in Words
  <2> SUFFICES ASSUME NEW n \in 1 .. lb
               PROVE  Term(c, la + n) = Shifted(la, Term(b, n)) /\ Term(b, n) \in Words
    OBVIOUS
  <2>1. la + n \in 1 .. la + lb /\ ~(la + n <= la) /\ (la + n) - la = n /\ n \in Nat
    BY <1>0
  <2>2. c[la + n] = b[n] /\ b[n] \in Bytes
    BY <1>1, <1>a, <1>b, <2>1, ElementOfSeq
  <2>3. /\ la % 2 \in {0, 1} /\ n % 2 \in {0, 1}
        /\ la % 2 = 0 => (la + n) % 2 = n % 2
        /\ la % 2 = 1 => (la + n) % 2 = 1 - (n % 2)
    BY <1>0, <2>1, Parity
  <2>4. /\ b[n] * 1 \in Words /\ b[n] * Base \in Words
        /\ bswap_16(b[n] * 1) = b[n] * Base /\ bswap_16(b[n] * Base) = b[n] * 1
    BY <2>2, TermIs
  <2>5. Term(c, la + n) = b[n] * (IF (la + n) % 2 = 0 THEN Base ELSE 1)
    BY <2>2 DEF Term
  <2>6. Term(b, n) = b[n] * (IF n % 2 = 0 THEN Base ELSE 1)
    BY DEF Term
  <2>7. CASE n % 2 = 0
    <3>1. Term(b, n) = b[n] * Base
      BY <2>6, <2>7
    <3>2. CASE la % 2 = 0
      BY <2>3, <2>4, <2>5, <2>7, <3>1, <3>2 DEF Shifted
    <3>3. CASE la % 2 = 1
      <4>1. (la + n) % 2 # 0
        BY <2>3, <2>7, <3>3
      <4> QED
        BY <2>4, <2>5, <3>1, <3>3, <4>1 DEF Shifted
    <3> QED
      BY <2>3, <3>2, <3>3
  <2>8. CASE n % 2 = 1
    <3>1. Term(b, n) = b[n] * 1
      BY <2>6, <2>8
    <3>2. CASE la % 2 = 0
      <4>1. (la + n) % 2 # 0
        BY <2>3, <2>8, <3>2
      <4> QED
        BY <2>4, <2>5, <3>1, <3>2, <4>1 DEF Shifted
    <3>3. CASE la % 2 = 1
      <4>1. (la + n) % 2 = 0
        BY <2>3, <2>8, <3>3
      <4> QED
        BY <2>4, <2>5, <3>1, <3>3, <4>1 DEF Shifted
    <3> QED
      BY <2>3, <3>2, <3>3
  <2> QED
    BY <2>3, <2>7, <2>8
<1> DEFINE u == [n \in 0 .. la + lb |-> IF n <= la THEN s[n] ELSE OnesAdd(s[la], Shifted(la, t[n - la]))]
<1>8. \A n \in 0 .. lb : /\ la + n \in 0 .. la + lb /\ t[n] \in Words /\ Shifted(la, t[n]) \in Words
                         /\ u[la + n] = OnesAdd(s[la], Shifted(la, t[n]))
  <2> SUFFICES ASSUME NEW n \in 0 .. lb
               PROVE  /\ la + n \in 0 .. la + lb /\ t[n] \in Words /\ Shifted(la, t[n]) \in Words
                      /\ u[la + n] = OnesAdd(s[la], Shifted(la, t[n]))
    OBVIOUS
  <2>1. la + n \in 0 .. la + lb /\ (la + n) - la = n /\ t[n] \in Words
    BY <1>0, <1>4
  <2>2. Shifted(la, t[n]) \in Words
    BY <1>0, <2>1, ShiftAdds
  <2>3. CASE n = 0
    <3>1. Shifted(la, t[n]) = 0 /\ la + n = la
      BY <1>0, <1>4, <1>5, <2>3, ShiftAdds
    <3>2. OnesAdd(s[la], 0) = s[la]
      BY <1>5, OnesAddLaws
    <3>3. u[la] = s[la]
      BY <1>0
    <3> QED
      BY <2>1, <2>2, <3>1, <3>2, <3>3
  <2>4. CASE n # 0
    <3>1. ~(la + n <= la)
      BY <1>0, <2>4
    <3> QED
      BY <2>1, <2>2, <3>1
  <2> QED
    BY <2>3, <2>4
<1>9. \A n \in 0 .. la : n \in 0 .. la + lb /\ u[n] = s[n] /\ s[n] \in Words
  BY <1>0, <1>4
<1>10. u \in [0 .. la + lb -> Words]
  <2> SUFFICES ASSUME NEW n \in 0 .. la + lb PROVE u[n] \in Words
    OBVIOUS
  <2>1. CASE n <= la
    <3>1. n \in 0 .. la
      BY <1>0, <2>1
    <3> QED
      BY <1>9, <3>1
  <2>2. CASE ~(n <= la)
    <3>1. n - la \in 0 .. lb /\ la + (n - la) = n
      BY <1>0, <2>2
    <3>2. OnesAdd(s[la], Shifted(la, t[n - la])) \in Words
      BY <1>5, <1>8, <3>1, OnesAddLaws
    <3> QED
      BY <1>8, <3>1, <3>2
  <2> QED
    BY <2>1, <2>2
<1> HIDE DEF u
<1>11. ASSUME NEW n \in 1 .. la + lb PROVE u[n] = OnesAdd(u[n - 1], Term(c, n))
  <2>1. CASE n <= la
    <3>1. n \in 1 .. la /\ n \in 0 .. la /\ n - 1 \in 0 .. la
      BY <1>0, <2>1
    <3> QED
      BY <1>4, <1>6, <1>9, <3>1
  <2>2. CASE ~(n <= la)
    <3> DEFINE k == n - la
    <3>1. k \in 1 .. lb /\ k \in 0 .. lb /\ k - 1 \in 0 .. lb /\ la + k = n /\ la + (k - 1) = n - 1
      BY <1>0, <2>2
    <3> HIDE DEF k
    <3>2. /\ u[n] = OnesAdd(s[la], Shifted(la, t[k]))
          /\ u[n - 1] = OnesAdd(s[la], Shifted(la, t[k - 1]))
          /\ t[k - 1] \in Words /\ Shifted(la, t[k - 1]) \in Words
      BY <1>8, <3>1
    <3>3. t[k] = OnesAdd(t[k - 1], Term(b, k)) /\ Term(c, n) = Shifted(la, Term(b, k)) /\ Term(b, k) \in Words
      BY <1>4, <1>7, <3>1
    <3>4. /\ Shifted(la, t[k]) = OnesAdd(Shifted(la, t[k - 1]), Shifted(la, Term(b, k)))
          /\ Shifted(la, Term(b, k)) \in Words
      BY <1>0, <3>2, <3>3, ShiftAdds
    <3>5. OnesAdd(s[la], OnesAdd(Shifted(la, t[k - 1]), Shifted(la, Term(b, k))))
            = OnesAdd(OnesAdd(s[la], Shifted(la, t[k - 1])), Shifted(la, Term(b, k)))
      <4>1. s[la] \in Words /\ Shifted(la, t[k - 1]) \in Words /\ Shifted(la, Term(b, k)) \in Words
        BY <1>5, <3>2, <3>4
      <4>2. \A x, y, z \in Words : OnesAdd(x, OnesAdd(y, z)) = OnesAdd(OnesAdd(x, y), z)
        BY OnesAddLaws
      <4> QED
        BY <4>1, <4>2, Zenon
    <3> QED
      BY <3>2, <3>3, <3>4, <3>5, Zenon
  <2> QED
    BY <2>1, <2>2
<1>12. Sums(u, c)
  <2>1. 0 \in 0 .. la
    BY <1>0
  <2> QED
    BY <1>1, <1>4, <1>9, <1>10, <1>11, <2>1 DEF Sums
<1>13. checksum_partial(c) = u[la + lb]
  BY <1>1, <1>12, SumsUnique
<1>14. lb \in 0 .. lb
  BY <1>0
<1> QED
  BY <1>2, <1>3, <1>8, <1>13, <1>14, <1>b DEF c

(* Zeros add nothing.                                                      *)
LEMMA SumOfZeros ==
    ASSUME NEW z \in Seq(Bytes), \A i \in 1 .. Len(z) : z[i] = 0
    PROVE  checksum_partial(z) = 0
<1>0. Len(z) \in Nat /\ 0 \in Words /\ Base \in Nat
  BY LenProperties, WordSize DEF Words
<1> DEFINE u == [n \in 0 .. Len(z) |-> 0]
<1>1. \A n \in 1 .. Len(z) : Term(z, n) = 0
  BY <1>0 DEF Term
<1>2. OnesAdd(0, 0) = 0
  BY <1>0, OnesAddLaws
<1>3. Sums(u, z)
  BY <1>0, <1>1, <1>2 DEF Sums
<1>4. u[Len(z)] = 0
  BY <1>0
<1> HIDE DEF u
<1> QED
  BY <1>3, <1>4, SumsUnique

(* add_ipchksums composes the checksums of two pieces of an image to that  *)
(* of both, wherever the second one starts.                                *)
THEOREM SumsCompose ==
    ASSUME NEW a \in Seq(Bytes), NEW b \in Seq(Bytes)
    PROVE  add_ipchksums(Len(a), ipchksum(a), ipchksum(b)) = ipchksum(a \o b)
<1> DEFINE p == checksum_partial(a)
           q == checksum_partial(b)
<1>1. p \in Words /\ q \in Words
  BY PartialSums, SumsUnique
<1>2. checksum_partial(a \o b) = OnesAdd(p, Shifted(Len(a), q))
  BY SumOfJoin
<1> HIDE DEF p, q
<1>3. Complement(Complement(p)) = p /\ Complement(Complement(q)) = q
  BY <1>1, WordSize DEF Complement, Words
<1>4. add_ipchksums(Len(a), Complement(p), Complement(q)) = AddSums(p, Shifted(Len(a), q))
  BY <1>3 DEF add_ipchksums, Shifted
<1>5. AddSums(p, Shifted(Len(a), q)) = Complement(OnesAdd(p, Shifted(Len(a), q)))
  BY DEF AddSums, OnesAdd
<1> QED
  BY <1>2, <1>4, <1>5 DEF ipchksum, p, q

-----------------------------------------------------------------------------
(* The assumptions on the converter's constants, one by one.               *)
LEMMA Limits ==
    /\ E820MAX \in Nat /\ CommandLine \in Nat \ {0} /\ PageRoom \in Nat /\ OneM \in Nat /\ AltMax \in Nat
    /\ ExtMax \in Nat /\ Ext64M \in Nat /\ HighLimit \in Nat /\ HugeK \in Nat
    /\ Kilo \in Nat \ {0} /\ AddressSpace \in Nat \ {0} /\ 2 * CommandLine + 1 <= PageRoom
BY ConverterAssumption

(* The first n elements of a sequence.                                     *)
LEMMA PrefixFacts ==
    ASSUME NEW S, NEW s \in Seq(S), NEW n \in Nat
    PROVE  /\ Prefix(s, n) \in Seq(S) /\ Len(Prefix(s, n)) = IF Len(s) < n THEN Len(s) ELSE n
           /\ \A i \in 1 .. Len(Prefix(s, n)) : Prefix(s, n)[i] = s[i]
<1> DEFINE m == IF Len(s) < n THEN Len(s) ELSE n
<1>0. Len(s) \in Nat /\ m \in Nat /\ m <= Len(s) /\ \A i \in 1 .. Len(s) : s[i] \in S
  BY LenProperties, ElementOfSeq
<1>a. Prefix(s, n) = SubSeq(s, 1, m)
  BY DEF Prefix
<1> HIDE DEF m
<1>1. \A i \in 1 .. m : s[i] \in S
  BY <1>0
<1>2. 1 \in Int /\ m \in Int
  BY <1>0
<1>3. /\ SubSeq(s, 1, m) \in Seq(S)
      /\ Len(SubSeq(s, 1, m)) = IF 1 <= m THEN m - 1 + 1 ELSE 0
      /\ \A i \in 1 .. m - 1 + 1 : SubSeq(s, 1, m)[i] = s[1 + i - 1]
  BY <1>1, <1>2, SubSeqProperties
<1>4. Len(SubSeq(s, 1, m)) = m
  BY <1>0, <1>3
<1>5. \A i \in 1 .. m : SubSeq(s, 1, m)[i] = s[i]
  BY <1>0, <1>3
<1> QED
  BY <1>a, <1>3, <1>4, <1>5 DEF m

(* Cutting what is cut and extended.                                       *)
LEMMA PrefixJoin ==
    ASSUME NEW S, NEW a \in Seq(S), NEW b \in Seq(S), NEW n \in Nat
    PROVE  Prefix(Prefix(a, n) \o b, n) = Prefix(a \o b, n)
<1> DEFINE p == Prefix(a, n)
           u == p \o b
           v == a \o b
<1>0. Len(a) \in Nat /\ Len(b) \in Nat
  BY LenProperties
<1>1. /\ p \in Seq(S) /\ Len(p) = (IF Len(a) < n THEN Len(a) ELSE n)
      /\ \A i \in 1 .. Len(p) : p[i] = a[i]
  BY PrefixFacts
<1> HIDE DEF p
<1>2. u \in Seq(S) /\ Len(u) = Len(p) + Len(b)
      /\ \A i \in 1 .. Len(p) + Len(b) : u[i] = IF i <= Len(p) THEN p[i] ELSE b[i - Len(p)]
  BY <1>1, ConcatProperties
<1>3. v \in Seq(S) /\ Len(v) = Len(a) + Len(b)
      /\ \A i \in 1 .. Len(a) + Len(b) : v[i] = IF i <= Len(a) THEN a[i] ELSE b[i - Len(a)]
  BY ConcatProperties
<1> HIDE DEF u, v
<1>4. /\ Prefix(u, n) \in Seq(S) /\ Len(Prefix(u, n)) = (IF Len(u) < n THEN Len(u) ELSE n)
      /\ \A i \in 1 .. Len(Prefix(u, n)) : Prefix(u, n)[i] = u[i]
  BY <1>2, PrefixFacts
<1>5. /\ Prefix(v, n) \in Seq(S) /\ Len(Prefix(v, n)) = (IF Len(v) < n THEN Len(v) ELSE n)
      /\ \A i \in 1 .. Len(Prefix(v, n)) : Prefix(v, n)[i] = v[i]
  BY <1>3, PrefixFacts
<1>6. Len(Prefix(u, n)) = Len(Prefix(v, n)) /\ Len(Prefix(u, n)) \in Nat
  BY <1>0, <1>1, <1>2, <1>3, <1>4, <1>5
<1>7. ASSUME NEW i \in 1 .. Len(Prefix(u, n)) PROVE u[i] = v[i]
  <2>1. i \in Nat /\ i <= n /\ i <= Len(u) /\ i <= Len(v) /\ 1 <= i
    BY <1>0, <1>1, <1>2, <1>3, <1>4, <1>5, <1>6
  <2>2. i \in 1 .. Len(p) + Len(b) /\ i \in 1 .. Len(a) + Len(b)
    BY <1>0, <1>1, <1>2, <1>3, <2>1
  <2>3. CASE i <= Len(p)
    <3>1. i \in 1 .. Len(p) /\ i <= Len(a)
      BY <1>0, <1>1, <2>1, <2>3
    <3> QED
      BY <1>1, <1>2, <1>3, <2>2, <2>3, <3>1
  <2>4. CASE ~(i <= Len(p))
    <3>1. Len(p) = Len(a)
      BY <1>0, <1>1, <2>1, <2>4
    <3> QED
      BY <1>2, <1>3, <2>2, <2>4, <3>1
  <2> QED
    BY <2>3, <2>4
<1>8. Prefix(u, n) = Prefix(v, n)
  BY <1>4, <1>5, <1>6, <1>7, SeqEqual
<1> QED
  BY <1>8 DEF u, v, p

-----------------------------------------------------------------------------
(* The page of parameters: the fields the converter fills step by step.    *)
PageOk(p) ==
    /\ p = [f \in DOMAIN p |-> p[f]]
    /\ {"alt_mem_k", "ext_mem_k", "e820_map", "cmdline", "overrun", "masked", "initrd_start", "initrd_size"} \subseteq DOMAIN p
    /\ p.e820_map \in Seq(e820entry) /\ Len(p.e820_map) <= E820MAX
    /\ p.alt_mem_k \in Int /\ p.ext_mem_k \in Int

(* Everything but the map and the sizes is the same.                       *)
SameRest(p, q) ==
    /\ DOMAIN q = DOMAIN p
    /\ \A f \in DOMAIN p \ {"alt_mem_k", "ext_mem_k", "e820_map"} : q[f] = p[f]

(* The sizes that come from a set of sizes, in K above the first M, and    *)
(* from the answers told and ext of the BIOS.                              *)
Sized(p, S, told, ext) ==
    /\ S \subseteq Int /\ told \in Int
    /\ p.alt_mem_k \in S \cup {told}
    /\ \A x \in S \cup {told} : x <= p.alt_mem_k
    /\ p.ext_mem_k = IF p.alt_mem_k > told THEN ExtOf(p.alt_mem_k) ELSE ext

(* Sizes are numbers.                                                      *)
LEMMA SizeTypes ==
    /\ \A n \in Nat : Capped(n) \in Nat /\ AboveOneM(n) \in Int /\ AboveOneM(n) = Capped(n) - OneM
    /\ \A k \in Int : ExtOf(k) \in Int
    /\ \A r \in e820entry : HighK(r) \in Nat
<1>1. \A n \in Nat : Capped(n) \in Nat /\ AboveOneM(n) \in Int /\ AboveOneM(n) = Capped(n) - OneM
  BY Limits DEF Capped, AboveOneM
<1>2. \A k \in Int : ExtOf(k) \in Int
  BY Limits DEF ExtOf
<1>3. ASSUME NEW r \in e820entry PROVE HighK(r) \in Nat
  <2> DEFINE h == (r.addr + r.size) % AddressSpace
  <2>1. r.addr + r.size \in Nat
    BY DEF e820entry
  <2>2. h \in Nat
    BY <2>1, Limits, DivMod
  <2> HIDE DEF h
  <2>3. h \div Kilo \in Nat
    BY <2>2, Limits, DivMod
  <2> QED
    BY <2>2, <2>3, Limits DEF HighK, h
<1> QED
  BY <1>1, <1>2, <1>3

(* set_memsize_k takes a size into account.                                *)
LEMMA SetMemsize ==
    ASSUME NEW p, PageOk(p), NEW n \in Nat
    PROVE  /\ PageOk(set_memsize_k(p, n)) /\ SameRest(p, set_memsize_k(p, n))
           /\ set_memsize_k(p, n).e820_map = p.e820_map
           /\ \A S, told, ext : Sized(p, S, told, ext)
                 => Sized(set_memsize_k(p, n), S \cup {AboveOneM(n)}, told, ext)
<1> DEFINE q == set_memsize_k(p, n)
           k == AboveOneM(n)
<1>0. k \in Int /\ Capped(n) = k + OneM /\ OneM \in Nat /\ ExtOf(k) \in Int /\ Capped(n) - OneM = k
  BY SizeTypes, Limits
<1>a. p.alt_mem_k \in Int
  BY DEF PageOk
<1>b. k = AboveOneM(n)
  OBVIOUS
<1>c. q = IF k > p.alt_mem_k THEN [p EXCEPT !.alt_mem_k = k, !.ext_mem_k = ExtOf(k)] ELSE p
  <2> HIDE DEF k
  <2>1. (Capped(n) > p.alt_mem_k + OneM) <=> k > p.alt_mem_k
    BY <1>0, <1>a
  <2> QED
    BY <1>0, <2>1 DEF set_memsize_k
<1> HIDE DEF q, k
<1>1. CASE k > p.alt_mem_k
  <2>1. q = [p EXCEPT !.alt_mem_k = k, !.ext_mem_k = ExtOf(k)]
    BY <1>c, <1>1
  <2>2. /\ DOMAIN q = DOMAIN p /\ q.alt_mem_k = k /\ q.ext_mem_k = ExtOf(k) /\ q.e820_map = p.e820_map
        /\ SameRest(p, q)
    BY <2>1 DEF PageOk, SameRest
  <2>f. q = [f \in DOMAIN q |-> q[f]]
    BY <2>1
  <2>3. PageOk(q)
    BY <1>0, <2>2, <2>f DEF PageOk
  <2>4. ASSUME NEW S, NEW told, NEW ext, Sized(p, S, told, ext)
        PROVE  Sized(q, S \cup {k}, told, ext)
    <3>1. k \in S \cup {k} \cup {told} /\ k > told
      BY <1>0, <1>a, <1>1, <2>4 DEF Sized
    <3>2. \A x \in S \cup {k} \cup {told} : x <= k
      BY <1>0, <1>a, <1>1, <2>4 DEF Sized
    <3> QED
      BY <3>1, <3>2, <1>0, <1>a, <1>1, <2>2, <2>4 DEF Sized
  <2> QED
    BY <1>b, <2>2, <2>3, <2>4 DEF q
<1>2. CASE ~(k > p.alt_mem_k)
  <2>1. q = p
    BY <1>c, <1>2
  <2>2. \A S, told, ext : Sized(p, S, told, ext) => Sized(q, S \cup {k}, told, ext)
    BY <1>0, <1>a, <1>2, <2>1 DEF Sized
  <2> QED
    BY <1>b, <2>1, <2>2 DEF q, SameRest
<1> QED
  BY <1>1, <1>2

(* An entry goes into the map if there is room, and counts if it is RAM.   *)
LEMMA AddEntry ==
    ASSUME NEW p, PageOk(p), NEW r \in e820entry
    PROVE  /\ PageOk(add_e820_map(p, r)) /\ SameRest(p, add_e820_map(p, r))
           /\ add_e820_map(p, r).e820_map
                 = IF Len(p.e820_map) < E820MAX THEN Append(p.e820_map, r) ELSE p.e820_map
           /\ \A S, told, ext : Sized(p, S, told, ext)
                 => Sized(add_e820_map(p, r),
                          IF r.type = E820_RAM THEN S \cup {AboveOneM(HighK(r))} ELSE S, told, ext)
<1> DEFINE m == IF Len(p.e820_map) < E820MAX THEN Append(p.e820_map, r) ELSE p.e820_map
           q == [p EXCEPT !.e820_map = m]
           n == HighK(r)
<1>1. m \in Seq(e820entry) /\ Len(m) <= E820MAX
  <2>1. Len(p.e820_map) \in Nat /\ Len(p.e820_map) <= E820MAX /\ p.e820_map \in Seq(e820entry)
    BY LenProperties DEF PageOk
  <2>2. Append(p.e820_map, r) \in Seq(e820entry) /\ Len(Append(p.e820_map, r)) = Len(p.e820_map) + 1
    BY <2>1, AppendProperties
  <2> QED
    BY <2>1, <2>2, Limits
<1>2. add_e820_map(p, r) = IF r.type = E820_RAM THEN set_memsize_k(q, n) ELSE q
  BY DEF add_e820_map
<1>3. n \in Nat
  BY SizeTypes
<1>b. n = HighK(r) /\ m = IF Len(p.e820_map) < E820MAX THEN Append(p.e820_map, r) ELSE p.e820_map
  OBVIOUS
<1> HIDE DEF m
<1>4. /\ DOMAIN q = DOMAIN p /\ q.e820_map = m /\ q.alt_mem_k = p.alt_mem_k /\ q.ext_mem_k = p.ext_mem_k
      /\ SameRest(p, q)
  BY DEF PageOk, SameRest
<1>f. q = [f \in DOMAIN q |-> q[f]]
  OBVIOUS
<1> HIDE DEF q, n
<1>5. PageOk(q)
  BY <1>1, <1>4, <1>f DEF PageOk
<1>6. \A S, told, ext : Sized(p, S, told, ext) => Sized(q, S, told, ext)
  BY <1>4 DEF Sized
<1>7. CASE r.type = E820_RAM
  <2>1. add_e820_map(p, r) = set_memsize_k(q, n)
    BY <1>2, <1>7
  <2>2. /\ PageOk(set_memsize_k(q, n)) /\ SameRest(q, set_memsize_k(q, n))
        /\ set_memsize_k(q, n).e820_map = q.e820_map
        /\ \A S, told, ext : Sized(q, S, told, ext)
                 => Sized(set_memsize_k(q, n), S \cup {AboveOneM(n)}, told, ext)
    BY <1>3, <1>5, SetMemsize
  <2>3. SameRest(p, set_memsize_k(q, n))
    BY <1>4, <2>2 DEF SameRest
  <2> QED
    BY <1>4, <1>6, <1>7, <1>b, <2>1, <2>2, <2>3, Zenon
<1>8. CASE r.type # E820_RAM
  BY <1>2, <1>4, <1>5, <1>6, <1>8, <1>b, Zenon
<1> QED
  BY <1>7, <1>8

(* The sizes of the first i ranges.                                        *)
RamUpTo(ranges, i) ==
    {AboveOneM(HighK(ranges[j])) : j \in {k \in 1 .. i : ranges[k].type = E820_RAM}}

(* AddAll adds one range after the other.                                  *)
LEMMA AddAllSteps ==
    ASSUME NEW p, PageOk(p), NEW ranges \in Seq(e820entry)
    PROVE  \E t : /\ AddAll(p, ranges) = t[Len(ranges)] /\ t[0] = p
                  /\ \A i \in 1 .. Len(ranges) : t[i] = add_e820_map(t[i - 1], ranges[i])
<1> DEFINE N == Len(ranges)
           X == Seq(e820entry) \cup Int \cup {p[f] : f \in DOMAIN p}
           V == {q \in [DOMAIN p -> X] : PageOk(q)}
           G == [x \in V \X (1 .. N) |-> add_e820_map(x[1], ranges[x[2]])]
           T[i \in 0 .. N] == IF i = 0 THEN p ELSE add_e820_map(T[i - 1], ranges[i])
<1>0. N \in Nat
  BY LenProperties
<1>1. AddAll(p, ranges) = T[N]
  BY DEF AddAll
<1>a. N = Len(ranges)
  OBVIOUS
<1> HIDE DEF N
<1>2. ASSUME NEW q \in V, NEW i \in 1 .. N PROVE add_e820_map(q, ranges[i]) \in V
  <2>1. ranges[i] \in e820entry /\ PageOk(q) /\ DOMAIN q = DOMAIN p /\ \A f \in DOMAIN p : q[f] \in X
    BY <1>a, ElementOfSeq
  <2> DEFINE r == add_e820_map(q, ranges[i])
  <2>2. PageOk(r) /\ SameRest(q, r)
    BY <2>1, AddEntry
  <2> HIDE DEF r
  <2>3. ASSUME NEW f \in DOMAIN p PROVE r[f] \in X
    <3>1. CASE f \in {"alt_mem_k", "ext_mem_k", "e820_map"}
      BY <2>2, <3>1 DEF PageOk
    <3>2. CASE f \notin {"alt_mem_k", "ext_mem_k", "e820_map"}
      <4>1. r[f] = q[f]
        BY <2>1, <2>2, <3>2 DEF SameRest
      <4> QED
        BY <2>1, <4>1
    <3> QED
      BY <3>1, <3>2
  <2>4. DOMAIN r = DOMAIN p /\ r = [f \in DOMAIN r |-> r[f]]
    BY <2>1, <2>2 DEF SameRest, PageOk
  <2>5. r \in [DOMAIN p -> X]
    <3> HIDE DEF X
    <3> QED
      BY <2>3, <2>4
  <2> QED
    BY <2>2, <2>5 DEF r
<1>3. G \in [V \X (1 .. N) -> V]
  <2> HIDE DEF V
  <2> QED
    BY <1>2
<1>4. p \in V
  <2>1. p = [f \in DOMAIN p |-> p[f]] /\ \A f \in DOMAIN p : p[f] \in X
    BY DEF PageOk
  <2> HIDE DEF X
  <2>2. p \in [DOMAIN p -> X]
    BY <2>1
  <2> QED
    BY <2>2
<1> HIDE DEF V
<1>5. PICK h \in [0 .. N -> V] : Recurs(h, N, p, G)
  <2> HIDE DEF G
  <2> QED
    BY <1>0, <1>3, <1>4, RecursExists
<1>6. h = [i \in 0 .. N |-> IF i = 0 THEN p ELSE add_e820_map(h[i - 1], ranges[i])]
  <2>1. h = [i \in 0 .. N |-> IF i = 0 THEN p ELSE G[<<h[i - 1], i>>]]
    BY <1>5 DEF Recurs
  <2>2. ASSUME NEW n \in 1 .. N PROVE G[<<h[n - 1], n>>] = add_e820_map(h[n - 1], ranges[n])
    <3>0. n - 1 \in 0 .. N
      BY <1>0
    <3>1. <<h[n - 1], n>> \in V \X (1 .. N)
      BY <1>5, <3>0
    <3> QED
      BY <3>1
  <2> HIDE DEF G
  <2> QED
    BY <1>0, <2>1, <2>2
<1>7. T = [i \in 0 .. N |-> IF i = 0 THEN p ELSE add_e820_map(T[i - 1], ranges[i])]
  BY <1>6, Zenon
<1> HIDE DEF T
<1>8. \A i \in 0 .. N : T[i] = IF i = 0 THEN p ELSE add_e820_map(T[i - 1], ranges[i])
  BY <1>7
<1>9. T[0] = p /\ \A i \in 1 .. N : T[i] = add_e820_map(T[i - 1], ranges[i])
  BY <1>0, <1>8
<1> QED
  BY <1>1, <1>9, <1>a

(* The ranges go into the map in order as long as there is room, and every *)
(* one that is RAM counts for the sizes.                                   *)
LEMMA AddAllFacts ==
    ASSUME NEW p, PageOk(p), NEW ranges \in Seq(e820entry)
    PROVE  /\ PageOk(AddAll(p, ranges)) /\ SameRest(p, AddAll(p, ranges))
           /\ AddAll(p, ranges).e820_map = Prefix(p.e820_map \o ranges, E820MAX)
           /\ \A S, told, ext : Sized(p, S, told, ext)
                 => Sized(AddAll(p, ranges), S \cup RamSizes(ranges), told, ext)
<1> DEFINE N == Len(ranges)
           L == Len(p.e820_map)
           J == p.e820_map \o ranges
<1>1. PICK t : /\ AddAll(p, ranges) = t[N] /\ t[0] = p
               /\ \A i \in 1 .. N : t[i] = add_e820_map(t[i - 1], ranges[i])
  BY AddAllSteps
<1>2. N \in Nat /\ L \in Nat /\ L <= E820MAX /\ E820MAX \in Nat /\ p.e820_map \in Seq(e820entry)
  BY Limits, LenProperties DEF PageOk
<1>3. J \in Seq(e820entry) /\ Len(J) = L + N
      /\ \A i \in 1 .. L + N : J[i] = IF i <= L THEN p.e820_map[i] ELSE ranges[i - L]
  BY <1>2, ConcatProperties
<1>a. N = Len(ranges) /\ L = Len(p.e820_map)
  OBVIOUS
<1> HIDE DEF N, L, J
<1> DEFINE Good(i) ==
      /\ PageOk(t[i]) /\ SameRest(p, t[i])
      /\ Len(t[i].e820_map) = IF L + i < E820MAX THEN L + i ELSE E820MAX
      /\ \A k \in 1 .. Len(t[i].e820_map) : t[i].e820_map[k] = J[k]
      /\ \A S, told, ext : Sized(p, S, told, ext) => Sized(t[i], S \cup RamUpTo(ranges, i), told, ext)
      Z == {i \in 0 .. N : Good(i)}
<1>4. 0 \in Z
  <2>1. RamUpTo(ranges, 0) = {}
    BY DEF RamUpTo
  <2>2. \A S : S \cup RamUpTo(ranges, 0) = S
    BY <2>1
  <2>3. \A k \in 1 .. L : p.e820_map[k] = J[k]
    BY <1>2, <1>3
  <2>4. L = IF L + 0 < E820MAX THEN L + 0 ELSE E820MAX
    BY <1>2
  <2>5. Good(0)
    BY <1>1, <1>a, <2>2, <2>3, <2>4, Zenon DEF SameRest
  <2> QED
    BY <1>2, <2>5
<1>5. ASSUME NEW i \in 0 .. N - 1, i \in Z PROVE i + 1 \in Z
  <2>0. i + 1 \in 1 .. N /\ i + 1 \in 0 .. N /\ (i + 1) - 1 = i /\ i \in Nat
    BY <1>2
  <2>1. t[i + 1] = add_e820_map(t[i], ranges[i + 1])
    BY <1>1, <2>0
  <2> DEFINE r == ranges[i + 1]
             q == t[i]
             qq == t[i + 1]
             m == q.e820_map
  <2>2. Good(i) /\ r \in e820entry /\ r = ranges[i + 1]
    BY <1>5, <1>a, <2>0, ElementOfSeq
  <2>p. PageOk(q)
    BY <2>2
  <2>q. qq = add_e820_map(q, r)
    BY <2>1
  <2> HIDE DEF r, q, qq
  <2>3. /\ PageOk(qq) /\ SameRest(q, qq)
        /\ qq.e820_map = IF Len(m) < E820MAX THEN Append(m, r) ELSE m
        /\ \A S, told, ext : Sized(q, S, told, ext)
              => Sized(qq, IF r.type = E820_RAM THEN S \cup {AboveOneM(HighK(r))} ELSE S, told, ext)
    BY <2>2, <2>p, <2>q, AddEntry DEF m
  <2>4. m \in Seq(e820entry) /\ Len(m) \in Nat /\ Len(m) = (IF L + i < E820MAX THEN L + i ELSE E820MAX)
        /\ \A k \in 1 .. Len(m) : m[k] = J[k]
    BY <2>2, <2>p, LenProperties DEF PageOk, q
  <2> HIDE DEF m
  <2>5. /\ Len(qq.e820_map) = IF L + (i + 1) < E820MAX THEN L + (i + 1) ELSE E820MAX
        /\ \A k \in 1 .. Len(qq.e820_map) : qq.e820_map[k] = J[k]
    <3>1. CASE Len(m) < E820MAX
      <4>1. Len(m) = L + i
        BY <1>2, <2>0, <2>4, <3>1
      <4>2. /\ qq.e820_map = Append(m, r) /\ Len(Append(m, r)) = Len(m) + 1
            /\ \A k \in 1 .. Len(m) : Append(m, r)[k] = m[k]
            /\ Append(m, r)[Len(m) + 1] = r
        BY <2>2, <2>3, <2>4, <3>1, AppendProperties
      <4>3. L + i + 1 \in 1 .. L + N /\ ~(L + i + 1 <= L) /\ L + i + 1 - L = i + 1
        BY <1>2, <2>0
      <4>4. J[L + i + 1] = r
        <5> DEFINE n == L + i + 1
        <5>1. n \in 1 .. L + N /\ ~(n <= L) /\ n - L = i + 1
          BY <1>2, <2>0
        <5> HIDE DEF n
        <5>2. J[n] = ranges[n - L]
          BY <1>3, <5>1
        <5>3. J[n] = r
          BY <2>2, <5>1, <5>2, Zenon
        <5> QED
          BY <5>3 DEF n
      <4>5. \A k \in 1 .. Len(m) + 1 : k \in 1 .. Len(m) \/ k = Len(m) + 1
        BY <2>4
      <4> QED
        BY <1>2, <2>0, <2>4, <3>1, <4>1, <4>2, <4>4, <4>5
    <3>2. CASE ~(Len(m) < E820MAX)
      BY <1>2, <2>0, <2>3, <2>4, <3>2
    <3> QED
      BY <3>1, <3>2
  <2>6. ASSUME NEW S, NEW told, NEW ext, Sized(p, S, told, ext)
        PROVE  Sized(qq, S \cup RamUpTo(ranges, i + 1), told, ext)
    <3>1. Sized(q, S \cup RamUpTo(ranges, i), told, ext)
      BY <2>2, <2>6 DEF q
    <3>0. \A k : k \in 1 .. i + 1 <=> k \in 1 .. i \/ k = i + 1
      BY <2>0
    <3>2. CASE r.type = E820_RAM
      <4>1. S \cup RamUpTo(ranges, i + 1) = (S \cup RamUpTo(ranges, i)) \cup {AboveOneM(HighK(r))}
        BY <2>2, <3>0, <3>2, Zenon DEF RamUpTo
      <4> QED
        BY <2>3, <3>1, <3>2, <4>1
    <3>3. CASE r.type # E820_RAM
      <4>1. RamUpTo(ranges, i + 1) = RamUpTo(ranges, i)
        BY <2>2, <3>0, <3>3, Zenon DEF RamUpTo
      <4> QED
        BY <2>3, <3>1, <3>3, <4>1
    <3> QED
      BY <3>2, <3>3
  <2>7. SameRest(p, qq)
    BY <2>2, <2>3 DEF SameRest, q
  <2> QED
    BY <2>0, <2>3, <2>5, <2>6, <2>7 DEF qq
<1>6. Good(N)
  <2> HIDE DEF Z
  <2>1. \A i \in 0 .. N : i \in Z
    BY <1>2, <1>4, <1>5, UpTo
  <2>2. N \in Z
    BY <1>2, <2>1
  <2> QED
    BY <2>2, Zenon DEF Z
<1>7. RamUpTo(ranges, N) = RamSizes(ranges)
  <2>1. DOMAIN ranges = 1 .. N
    BY <1>a, LenProperties
  <2> QED
    BY <2>1, Zenon DEF RamUpTo, RamSizes
<1>8. t[N].e820_map = Prefix(J, E820MAX)
  <2>1. /\ Prefix(J, E820MAX) \in Seq(e820entry)
        /\ Len(Prefix(J, E820MAX)) = IF Len(J) < E820MAX THEN Len(J) ELSE E820MAX
        /\ \A i \in 1 .. Len(Prefix(J, E820MAX)) : Prefix(J, E820MAX)[i] = J[i]
    BY <1>2, <1>3, PrefixFacts
  <2>2. t[N].e820_map \in Seq(e820entry)
    BY <1>6 DEF PageOk
  <2> QED
    BY <1>3, <1>6, <2>1, <2>2, SeqEqual
<1> QED
  BY <1>1, <1>6, <1>7, <1>8 DEF J

(* The sizes of ranges that are joined.                                    *)
LEMMA RamSizesJoin ==
    ASSUME NEW a \in Seq(e820entry), NEW b \in Seq(e820entry)
    PROVE  RamSizes(a \o b) = RamSizes(a) \cup RamSizes(b)
<1> DEFINE u == a \o b
           n == Len(a)
           m == Len(b)
           Size(r) == AboveOneM(HighK(r))
           Ram(r) == r.type = E820_RAM
<1>1. /\ n \in Nat /\ m \in Nat /\ DOMAIN a = 1 .. n /\ DOMAIN b = 1 .. m
  BY LenProperties
<1>2. /\ u \in Seq(e820entry) /\ Len(u) = n + m
      /\ \A i \in 1 .. n + m : u[i] = IF i <= n THEN a[i] ELSE b[i - n]
  BY ConcatProperties
<1>3. DOMAIN u = 1 .. n + m
  BY <1>2, LenProperties
<1> HIDE DEF u, n, m
<1>4. /\ RamSizes(u) = {Size(u[i]) : i \in {j \in 1 .. n + m : Ram(u[j])}}
      /\ RamSizes(a) = {Size(a[i]) : i \in {j \in 1 .. n : Ram(a[j])}}
      /\ RamSizes(b) = {Size(b[i]) : i \in {j \in 1 .. m : Ram(b[j])}}
  BY <1>1, <1>3, Zenon DEF RamSizes
<1> HIDE DEF Size, Ram
<1>5. \A i \in 1 .. n : i \in 1 .. n + m /\ u[i] = a[i]
  BY <1>1, <1>2
<1>6. \A i \in 1 .. m : n + i \in 1 .. n + m /\ u[n + i] = b[i]
  <2> SUFFICES ASSUME NEW i \in 1 .. m PROVE n + i \in 1 .. n + m /\ u[n + i] = b[i]
    OBVIOUS
  <2> DEFINE k == n + i
  <2>1. k \in 1 .. n + m /\ ~(k <= n) /\ k - n = i
    BY <1>1
  <2> HIDE DEF k
  <2>2. u[k] = b[k - n]
    BY <1>2, <2>1
  <2>3. u[k] = b[i]
    BY <2>1, <2>2, Zenon
  <2> QED
    BY <2>1, <2>3 DEF k
<1>7. \A i \in 1 .. n + m : i \in 1 .. n \/ \E k \in 1 .. m : i = n + k
  <2> SUFFICES ASSUME NEW i \in 1 .. n + m, i \notin 1 .. n PROVE \E k \in 1 .. m : i = n + k
    OBVIOUS
  <2>1. i - n \in 1 .. m /\ i = n + (i - n)
    BY <1>1
  <2> QED
    BY <2>1
<1>8. RamSizes(u) \subseteq RamSizes(a) \cup RamSizes(b)
  BY <1>4, <1>5, <1>6, <1>7, Zenon
<1>9. RamSizes(a) \subseteq RamSizes(u)
  BY <1>4, <1>5, Zenon
<1>10. RamSizes(b) \subseteq RamSizes(u)
  BY <1>4, <1>6, Zenon
<1> QED
  BY <1>8, <1>9, <1>10 DEF u

(* No range, no size.                                                      *)
LEMMA RamSizesNone == RamSizes(<<>>) = {}
BY DEF RamSizes

(* Sequences joined one after the other.                                   *)
LEMMA JoinedSteps ==
    ASSUME NEW S, NEW f \in Seq(Seq(S))
    PROVE  /\ Joined(f, 0) = <<>>
           /\ \A i \in 1 .. Len(f) : Joined(f, i) = Joined(f, i - 1) \o f[i]
           /\ \A i \in 0 .. Len(f) : Joined(f, i) \in Seq(S)
<1> DEFINE N == Len(f)
           V == Seq(S)
           G == [x \in V \X (1 .. N) |-> x[1] \o f[x[2]]]
           T[i \in 0 .. N] == IF i = 0 THEN <<>> ELSE T[i - 1] \o f[i]
<1>0. N \in Nat /\ \A i \in 1 .. N : f[i] \in V
  BY LenProperties, ElementOfSeq
<1>1. \A n : Joined(f, n) = T[n]
  BY DEF Joined
<1>a. N = Len(f)
  OBVIOUS
<1> HIDE DEF N
<1>2. \A u, v \in V : u \o v \in V
  BY ConcatProperties
<1>4. <<>> \in V
  BY EmptySeq
<1> HIDE DEF V
<1>3. G \in [V \X (1 .. N) -> V]
  BY <1>0, <1>2
<1>5. PICK h \in [0 .. N -> V] : Recurs(h, N, <<>>, G)
  <2> HIDE DEF G
  <2> QED
    BY <1>0, <1>3, <1>4, RecursExists
<1>6. h = [i \in 0 .. N |-> IF i = 0 THEN <<>> ELSE h[i - 1] \o f[i]]
  <2>1. h = [i \in 0 .. N |-> IF i = 0 THEN <<>> ELSE G[<<h[i - 1], i>>]]
    BY <1>5 DEF Recurs
  <2>2. ASSUME NEW n \in 1 .. N PROVE G[<<h[n - 1], n>>] = h[n - 1] \o f[n]
    <3>0. n - 1 \in 0 .. N
      BY <1>0
    <3>1. <<h[n - 1], n>> \in V \X (1 .. N)
      BY <1>5, <3>0
    <3> QED
      BY <3>1
  <2> HIDE DEF G
  <2>3. \A i \in 0 .. N : i = 0 \/ i \in 1 .. N
    BY <1>0
  <2>4. \A i \in 0 .. N : (IF i = 0 THEN <<>> ELSE G[<<h[i - 1], i>>]) = IF i = 0 THEN <<>> ELSE h[i - 1] \o f[i]
    BY <2>2, <2>3, Zenon
  <2> QED
    BY <2>1, <2>4, Zenon
<1>7. T = [i \in 0 .. N |-> IF i = 0 THEN <<>> ELSE T[i - 1] \o f[i]]
  BY <1>6, Zenon
<1> HIDE DEF T
<1>8. \A i \in 0 .. N : T[i] = IF i = 0 THEN <<>> ELSE T[i - 1] \o f[i]
  BY <1>7
<1>b. 0 \in 0 .. N /\ \A i \in 1 .. N : i \in 0 .. N /\ i # 0
  BY <1>0
<1>9. T[0] = <<>> /\ \A i \in 1 .. N : T[i] = T[i - 1] \o f[i]
  BY <1>8, <1>b, Zenon
<1>10. \A i \in 0 .. N : T[i] \in V
  <2> DEFINE Z == {i \in 0 .. N : T[i] \in V}
  <2>1. 0 \in Z
    BY <1>0, <1>4, <1>9
  <2>2. ASSUME NEW i \in 0 .. N - 1, i \in Z PROVE i + 1 \in Z
    <3>1. i + 1 \in 1 .. N /\ (i + 1) - 1 = i /\ i + 1 \in 0 .. N
      BY <1>0
    <3>2. T[i + 1] = T[i] \o f[i + 1] /\ T[i] \in V
      BY <1>9, <2>2, <3>1
    <3>3. f[i + 1] \in V
      BY <1>0, <3>1
    <3> QED
      BY <1>2, <3>1, <3>2, <3>3
  <2> HIDE DEF Z
  <2>3. \A i \in 0 .. N : i \in Z
    BY <1>0, <2>1, <2>2, UpTo
  <2> QED
    BY <2>3 DEF Z
<1> QED
  BY <1>1, <1>9, <1>10, <1>a DEF V

(* The sizes of the records of a table add up.                             *)
LEMMA SizeSteps ==
    ASSUME NEW R, \A r \in R : r.size \in Nat, NEW recs \in Seq(R)
    PROVE  /\ SizeUpTo(recs, 0) = 0
           /\ \A i \in 1 .. Len(recs) : SizeUpTo(recs, i) = SizeUpTo(recs, i - 1) + recs[i].size
           /\ \A i \in 0 .. Len(recs) : SizeUpTo(recs, i) \in Nat
           /\ \A i, j \in 0 .. Len(recs) : i <= j => SizeUpTo(recs, i) <= SizeUpTo(recs, j)
<1> DEFINE N == Len(recs)
           G == [x \in Nat \X (1 .. N) |-> x[1] + recs[x[2]].size]
           T[i \in 0 .. N] == IF i = 0 THEN 0 ELSE T[i - 1] + recs[i].size
<1>0. N \in Nat /\ \A i \in 1 .. N : recs[i].size \in Nat
  BY LenProperties, ElementOfSeq
<1>1. \A n : SizeUpTo(recs, n) = T[n]
  BY DEF SizeUpTo
<1>a. N = Len(recs)
  OBVIOUS
<1> HIDE DEF N
<1>3. G \in [Nat \X (1 .. N) -> Nat]
  BY <1>0
<1>5. PICK h \in [0 .. N -> Nat] : Recurs(h, N, 0, G)
  <2> HIDE DEF G
  <2> QED
    BY <1>0, <1>3, RecursExists
<1>6. h = [i \in 0 .. N |-> IF i = 0 THEN 0 ELSE h[i - 1] + recs[i].size]
  <2>1. h = [i \in 0 .. N |-> IF i = 0 THEN 0 ELSE G[<<h[i - 1], i>>]]
    BY <1>5 DEF Recurs
  <2>2. ASSUME NEW n \in 1 .. N PROVE G[<<h[n - 1], n>>] = h[n - 1] + recs[n].size
    <3>0. n - 1 \in 0 .. N
      BY <1>0
    <3>1. <<h[n - 1], n>> \in Nat \X (1 .. N)
      BY <1>5, <3>0
    <3> QED
      BY <3>1
  <2> HIDE DEF G
  <2>3. \A i \in 0 .. N : i = 0 \/ i \in 1 .. N
    BY <1>0
  <2>4. \A i \in 0 .. N : (IF i = 0 THEN 0 ELSE G[<<h[i - 1], i>>]) = IF i = 0 THEN 0 ELSE h[i - 1] + recs[i].size
    BY <2>2, <2>3, Zenon
  <2> QED
    BY <2>1, <2>4, Zenon
<1>7. T = [i \in 0 .. N |-> IF i = 0 THEN 0 ELSE T[i - 1] + recs[i].size]
  BY <1>6, Zenon
<1> HIDE DEF T
<1>8. \A i \in 0 .. N : T[i] = IF i = 0 THEN 0 ELSE T[i - 1] + recs[i].size
  BY <1>7
<1>9. T[0] = 0 /\ \A i \in 1 .. N : T[i] = T[i - 1] + recs[i].size
  BY <1>0, <1>8
<1> DEFINE Z == {i \in 0 .. N : T[i] \in Nat /\ \A k \in 0 .. i : T[k] \in Nat /\ T[k] <= T[i]}
<1>10. \A i \in 0 .. N : i \in Z
  <2>1. 0 \in Z
    BY <1>0, <1>9
  <2>2. ASSUME NEW i \in 0 .. N - 1, i \in Z PROVE i + 1 \in Z
    <3>1. i + 1 \in 1 .. N /\ (i + 1) - 1 = i /\ i + 1 \in 0 .. N /\ i \in Nat
      BY <1>0
    <3>2. T[i + 1] = T[i] + recs[i + 1].size /\ T[i] \in Nat
      BY <1>9, <2>2, <3>1
    <3>3. recs[i + 1].size \in Nat
      BY <1>0, <3>1
    <3>4. T[i + 1] \in Nat /\ T[i] <= T[i + 1]
      BY <3>2, <3>3
    <3>5. \A k \in 0 .. i + 1 : k \in 0 .. i \/ k = i + 1
      BY <3>1
    <3> QED
      BY <2>2, <3>1, <3>4, <3>5
  <2> HIDE DEF Z
  <2> QED
    BY <1>0, <2>1, <2>2, UpTo
<1>11. \A i \in 0 .. N : T[i] \in Nat
  BY <1>10
<1>12. \A i, j \in 0 .. N : i <= j => T[i] <= T[j]
  BY <1>0, <1>10
<1> QED
  BY <1>1, <1>9, <1>11, <1>12, <1>a

(* When a walk over a table has met all records up to j, and the table     *)
(* ends there or inside the record after it, those are its records.        *)
LEMMA WalkedAll ==
    ASSUME NEW R, \A r \in R : r.size \in Nat, NEW recs \in Seq(R), NEW n \in Nat,
           NEW j \in 0 .. Len(recs), 1 .. j \subseteq Inside(recs, n),
           \/ n <= SizeUpTo(recs, j)
           \/ j < Len(recs) /\ n < SizeUpTo(recs, j + 1)
    PROVE  Inside(recs, n) = 1 .. j
<1>0. Len(recs) \in Nat /\ DOMAIN recs = 1 .. Len(recs)
  BY LenProperties
<1>1. /\ \A i \in 0 .. Len(recs) : SizeUpTo(recs, i) \in Nat
      /\ \A i, k \in 0 .. Len(recs) : i <= k => SizeUpTo(recs, i) <= SizeUpTo(recs, k)
  BY SizeSteps
<1>2. ASSUME NEW k \in Inside(recs, n), k \notin 1 .. j PROVE FALSE
  <2>1. k \in 1 .. Len(recs) /\ SizeUpTo(recs, k - 1) < n /\ SizeUpTo(recs, k) <= n
    BY <1>0, <1>2 DEF Inside
  <2>2. k - 1 \in 0 .. Len(recs) /\ k \in 0 .. Len(recs) /\ j <= k - 1 /\ (j < Len(recs) => j + 1 \in 0 .. Len(recs) /\ j + 1 <= k)
    BY <1>0, <1>2, <2>1
  <2>3. SizeUpTo(recs, j) <= SizeUpTo(recs, k - 1) /\ (j < Len(recs) => SizeUpTo(recs, j + 1) <= SizeUpTo(recs, k))
    BY <1>1, <2>2
  <2>4. SizeUpTo(recs, j) \in Nat /\ SizeUpTo(recs, k - 1) \in Nat /\ SizeUpTo(recs, k) \in Nat
        /\ (j < Len(recs) => SizeUpTo(recs, j + 1) \in Nat)
    BY <1>1, <2>2
  <2> QED
    BY <2>1, <2>3, <2>4
<1> QED
  BY <1>2
-----------------------------------------------------------------------------
(* Where the converter is, and what the page says by then.                 *)

(* The LinuxBIOS ranges of the first j records, and the ranges of the      *)
(* first memory record among the first j of a uniform boot loader.         *)
LbParts(t) ==
    [k \in DOMAIN t.records |->
        IF k \in MemoryRecords(t.records, t.table_bytes)
        THEN Prefix(Typed(t.records[k].map, LbType), E820MAX) ELSE <<>>]
MemoryUpTo(recs, j) == {k \in 1 .. j : recs[k].tag = "memory"}
UbeUpTo(d, j) ==
    IF MemoryUpTo(d.env, j) = {} THEN <<>>
    ELSE Prefix(Typed(d.env[CHOOSE k \in MemoryUpTo(d.env, j) :
                               \A i \in MemoryUpTo(d.env, j) : k <= i].map, UbeType), E820MAX)
UbeKnown(d, j) == IF FirmwareKnows THEN <<>> ELSE UbeUpTo(d, j)

(* What the PC BIOS told, and the sizes the firmware's ranges stand for.   *)
Told == IF info.has_pcbios THEN boot.e801 ELSE 0
ToldExt == IF info.has_pcbios THEN boot.e88 ELSE 0
FirmwareSizes == IF info.has_linuxbios THEN RamSizes(FirmwareRanges) ELSE {}

Reports(p, ranges, sizes) ==
    PageOk(p) /\ p.e820_map = Prefix(ranges, E820MAX) /\ Sized(p, sizes, Told, ToldExt)

(* The walk over n bytes of records has passed the first j of them.        *)
Walked(recs, n, j, td, rs) ==
    /\ j \in 0 .. Len(recs) /\ 1 .. j \subseteq Inside(recs, n)
    /\ td = SubSeq(recs, j + 1, Len(recs))
    /\ rs = n - SizeUpTo(recs, j) /\ rs >= 0

InfoOk == DOMAIN info = DOMAIN NoInfo

LoaderFlags ==
    /\ info.has_multiboot => boot.type = "multiboot"
    /\ info.has_uniform_boot => boot.type = "uniform"
    /\ info.has_elf_boot => ~info.has_multiboot /\ ~info.has_uniform_boot

FirmwareFlags ==
    /\ info.has_linuxbios => ~info.has_pcbios
    /\ info.has_linuxbios =>
          LET t == info.lb_table
          IN t.records \in Seq(TableRecord) /\ t.table_bytes \in Nat
             /\ t.table_bytes <= SizeUpTo(t.records, Len(t.records))

FreshPage ==
    /\ PageOk(rm) /\ rm.e820_map = <<>> /\ rm.alt_mem_k = 0 /\ rm.ext_mem_k = 0
    /\ info.need_mem_sizes = TRUE

TableSoFar ==
    /\ info.has_linuxbios
    /\ LET t == info.lb_table
       IN \E j \in 0 .. Len(t.records) :
             /\ Walked(t.records, t.table_bytes, j, todo, rest)
             /\ Reports(rm, Joined(LbParts(t), j), RamSizes(Joined(LbParts(t), j)))
             /\ info.need_mem_sizes = (MemoryUpTo(t.records, j) = {})

FirmwareReported ==
    Reports(rm, FirmwareRanges, FirmwareSizes) /\ info.need_mem_sizes = ~FirmwareKnows

UniformSoFar ==
    /\ info.has_uniform_boot
    /\ LET d == boot.data
       IN \E j \in 0 .. Len(d.env) :
             /\ Walked(d.env, d.env_bytes, j, todo, rest) /\ \A k \in 1 .. j : d.env[k].size # 0
             /\ Reports(rm, FirmwareRanges \o UbeKnown(d, j), FirmwareSizes \cup RamSizes(UbeKnown(d, j)))
             /\ info.need_mem_sizes = (~FirmwareKnows /\ MemoryUpTo(d.env, j) = {})

MemoryReported == Reports(rm, FirmwareRanges \o LoaderRanges, FirmwareSizes \cup LoaderSizes)

MemInv ==
    /\ InfoOk
    /\ cpc \notin {"off", "loaded"} => boot \in Boots
    /\ cpc \in {"class", "firmware", "values"} => FreshPage
    /\ cpc \in {"firmware", "values", "linuxbios", "bootloader", "uniform", "elf", "hardware", "linux"}
          => LoaderFlags
    /\ cpc \in {"values", "linuxbios", "bootloader", "uniform", "elf", "hardware", "linux"} => FirmwareFlags
    /\ cpc = "linuxbios" => TableSoFar
    /\ cpc \in {"bootloader", "elf"} => FirmwareReported
    /\ cpc = "elf" => info.has_elf_boot
    /\ cpc = "uniform" => UniformSoFar
    /\ cpc \in {"hardware", "linux"} => MemoryReported


(* Ranges whose types are mapped, and cut, are ranges.                     *)
LEMMA TypedRanges ==
    ASSUME NEW m \in Seq(e820entry)
    PROVE  /\ Prefix(Typed(m, LbType), E820MAX) \in Seq(e820entry)
           /\ Prefix(Typed(m, UbeType), E820MAX) \in Seq(e820entry)
<1>0. Len(m) \in Nat /\ DOMAIN m = 1 .. Len(m) /\ \A i \in 1 .. Len(m) : m[i] \in e820entry
  BY LenProperties, ElementOfSeq
<1>1. \A r \in e820entry : [r EXCEPT !.type = LbType(@)] \in e820entry /\ [r EXCEPT !.type = UbeType(@)] \in e820entry
  BY DEF e820entry, LbType, UbeType, E820_RAM, E820_RESERVED, E820_ACPI, E820_NVS
<1>2. Typed(m, LbType) \in [1 .. Len(m) -> e820entry] /\ Typed(m, UbeType) \in [1 .. Len(m) -> e820entry]
  BY <1>0, <1>1 DEF Typed
<1>3. Typed(m, LbType) \in Seq(e820entry) /\ Typed(m, UbeType) \in Seq(e820entry)
  BY <1>0, <1>2, SeqDef
<1> QED
  BY <1>3, Limits, PrefixFacts

(* A record of a table has a size and ranges.                              *)
LEMMA RecordTypes == \A r \in TableRecord : r.size \in Nat /\ r.map \in Seq(e820entry)
BY DEF TableRecord

(* The parts of the LinuxBIOS ranges.                                      *)
LEMMA LbPartsFacts ==
    ASSUME NEW t, t.records \in Seq(TableRecord)
    PROVE  /\ LbParts(t) \in Seq(Seq(e820entry)) /\ Len(LbParts(t)) = Len(t.records)
           /\ \A k \in 1 .. Len(t.records) :
                 LbParts(t)[k] = IF k \in MemoryRecords(t.records, t.table_bytes)
                                 THEN Prefix(Typed(t.records[k].map, LbType), E820MAX) ELSE <<>>
<1> DEFINE N == Len(t.records)
           M == MemoryRecords(t.records, t.table_bytes)
           P(k) == Prefix(Typed(t.records[k].map, LbType), E820MAX)
<1>0. N \in Nat /\ DOMAIN t.records = 1 .. N /\ \A k \in 1 .. N : t.records[k].map \in Seq(e820entry)
  <2>1. N \in Nat /\ DOMAIN t.records = 1 .. N /\ \A k \in 1 .. N : t.records[k] \in TableRecord
    BY LenProperties, ElementOfSeq
  <2> QED
    BY <2>1, RecordTypes
<1>1. \A k \in 1 .. N : P(k) \in Seq(e820entry)
  BY <1>0, TypedRanges
<1>2. <<>> \in Seq(e820entry)
  BY EmptySeq
<1>a. N = Len(t.records)
  OBVIOUS
<1>3. LbParts(t) = [k \in 1 .. N |-> IF k \in M THEN P(k) ELSE <<>>]
  BY <1>0, Zenon DEF LbParts
<1> HIDE DEF N, M, P
<1>4. LbParts(t) \in [1 .. N -> Seq(e820entry)]
  BY <1>1, <1>2, <1>3
<1>5. LbParts(t) \in Seq(Seq(e820entry))
  BY <1>0, <1>4, SeqDef
<1>6. DOMAIN LbParts(t) = 1 .. N
  BY <1>4
<1>7. Len(LbParts(t)) = N
  BY <1>0, <1>5, <1>6, LenProperties
<1>8. \A k \in 1 .. N : LbParts(t)[k] = IF k \in M THEN P(k) ELSE <<>>
  BY <1>3
<1> QED
  BY <1>5, <1>7, <1>8, <1>a, Zenon DEF M, P

(* A set of numbers that is not empty has one least element.               *)
LEMMA FirstOf ==
    ASSUME NEW S, S \subseteq Nat, S # {}
    PROVE  LET c == CHOOSE k \in S : \A i \in S : k <= i IN c \in S /\ \A i \in S : c <= i
<1>1. \E k \in S : \A i \in S : k <= i
  BY LeastNat
<1> QED
  BY <1>1

(* The ranges of a uniform boot loader.                                    *)
LEMMA UbeUpToFacts ==
    ASSUME NEW d, d.env \in Seq(TableRecord), NEW j \in 0 .. Len(d.env)
    PROVE  UbeUpTo(d, j) \in Seq(e820entry)
<1> DEFINE m == MemoryUpTo(d.env, j)
           c == CHOOSE k \in m : \A i \in m : k <= i
<1>0. Len(d.env) \in Nat /\ m \subseteq 1 .. Len(d.env) /\ m \subseteq Nat
  BY LenProperties DEF MemoryUpTo
<1>a. UbeUpTo(d, j) = IF m = {} THEN <<>> ELSE Prefix(Typed(d.env[c].map, UbeType), E820MAX)
  BY Zenon DEF UbeUpTo
<1>b. m # {} => c \in m
  <2> HIDE DEF m
  <2> QED BY <1>0, FirstOf
<1> HIDE DEF m, c
<1>1. CASE m = {}
  BY <1>1, <1>a, EmptySeq
<1>2. CASE m # {}
  <2>1. c \in 1 .. Len(d.env)
    BY <1>0, <1>2, <1>b
  <2>2. d.env[c].map \in Seq(e820entry)
    <3>1. d.env[c] \in TableRecord
      BY <2>1, ElementOfSeq
    <3> QED
      BY <3>1, RecordTypes
  <2> QED
    BY <1>2, <1>a, <2>2, TypedRanges
<1> QED
  BY <1>1, <1>2

(* A machine of Boots has typed tables.                                    *)
LEMMA BootTypes ==
    ASSUME NEW b \in Boots
    PROVE  /\ b.e820 \in Seq(e820entry) /\ b.e801 \in Nat /\ b.e88 \in Nat
           /\ DOMAIN b.low \cup DOMAIN b.high \subseteq Nat
           /\ \A area \in {b.low, b.high} : \A i \in DOMAIN area :
                 area[i].records \in Seq(TableRecord) /\ Walkable(area[i].records, area[i].table_bytes)
           /\ b.type = "multiboot" =>
                 /\ b.data.mmap \in Seq(e820entry) /\ b.data.mem_upper \in Nat
                 /\ b.data.command_line \in Seq(Bytes)
           /\ b.type = "uniform" =>
                 /\ b.data.env \in Seq(TableRecord) /\ Walkable(b.data.env, b.data.env_bytes)
                 /\ b.data.arg \in Seq(Bytes) /\ b.data.arg_bytes \in Nat
           /\ \A h \in Headers(b) : h.notes \in Seq(ElfNotes) /\ Walkable(h.notes, h.b_size)
BY BootsAssumption, Zenon

(* The ranges of the firmware are ranges, and their sizes numbers.         *)
LEMMA FirmwareTypes ==
    ASSUME boot \in Boots, FirmwareFlags
    PROVE  /\ FirmwareRanges \in Seq(e820entry) /\ meme820 \in Seq(e820entry)
           /\ Told \in Nat /\ ToldExt \in Nat
           /\ info.has_linuxbios => FirmwareRanges = Joined(LbParts(info.lb_table), Len(info.lb_table.records))
<1>1. meme820 \in Seq(e820entry)
  BY BootTypes, Limits, PrefixFacts DEF meme820
<1>2. CASE info.has_linuxbios
  <2> DEFINE t == info.lb_table
             N == Len(t.records)
  <2>1. t.records \in Seq(TableRecord)
    BY <1>2, Zenon DEF FirmwareFlags
  <2>2. LbParts(t) \in Seq(Seq(e820entry)) /\ Len(LbParts(t)) = N /\ N \in Nat
    BY <2>1, LbPartsFacts, LenProperties
  <2>3. FirmwareRanges = Joined(LbParts(t), N)
    BY <1>2, Zenon DEF FirmwareRanges, LbRanges, LbParts
  <2> HIDE DEF N, t
  <2>4. Joined(LbParts(t), N) \in Seq(e820entry)
    <3>1. N \in 0 .. Len(LbParts(t))
      BY <2>2
    <3>2. \A i \in 0 .. Len(LbParts(t)) : Joined(LbParts(t), i) \in Seq(e820entry)
      BY <2>2, JoinedSteps
    <3> QED
      BY <3>1, <3>2
  <2> QED
    BY <1>1, <2>3, <2>4, BootTypes, <1>2 DEF Told, ToldExt, t, N
<1>3. CASE ~info.has_linuxbios
  BY <1>1, <1>3, EmptySeq, BootTypes DEF FirmwareRanges, Told, ToldExt
<1> QED
  BY <1>2, <1>3

(* What is known of the firmware and the boot loader depends only on the   *)
(* machine and on the flags.                                               *)
SameMachine ==
    /\ boot' = boot
    /\ \A f \in DOMAIN NoInfo \ {"need_mem_sizes"} : info'[f] = info[f]

(* A step that leaves the machine and what was found of it alone leaves    *)
(* the ranges and sizes it reports alone.                                  *)
LEMMA SameSources ==
    ASSUME SameMachine
    PROVE  /\ FirmwareRanges' = FirmwareRanges /\ LoaderRanges' = LoaderRanges
           /\ FirmwareSizes' = FirmwareSizes /\ LoaderSizes' = LoaderSizes
           /\ FirmwareKnows' = FirmwareKnows
           /\ Told' = Told /\ ToldExt' = ToldExt
           /\ LoaderFlags' = LoaderFlags /\ FirmwareFlags' = FirmwareFlags
<1>1. /\ boot' = boot /\ info'.has_linuxbios = info.has_linuxbios /\ info'.has_pcbios = info.has_pcbios
      /\ info'.lb_table = info.lb_table /\ info'.has_multiboot = info.has_multiboot
      /\ info'.has_uniform_boot = info.has_uniform_boot /\ info'.has_elf_boot = info.has_elf_boot
  BY DEF SameMachine, NoInfo
<1>2. FirmwareRanges' = FirmwareRanges
  BY <1>1, Zenon DEF FirmwareRanges, meme820
<1>3. FirmwareKnows' = FirmwareKnows
  BY <1>1, Zenon DEF FirmwareKnows, meme820
<1>4. LoaderRanges' = LoaderRanges
  BY <1>1, <1>3, Zenon DEF LoaderRanges
<1>5. LoaderSizes' = LoaderSizes /\ FirmwareSizes' = FirmwareSizes
  BY <1>1, <1>2, <1>3, <1>4, Zenon DEF LoaderSizes, FirmwareSizes
<1>6. Told' = Told /\ ToldExt' = ToldExt
  BY <1>1, Zenon DEF Told, ToldExt
<1>7. LoaderFlags' = LoaderFlags /\ FirmwareFlags' = FirmwareFlags
  BY <1>1, Zenon DEF LoaderFlags, FirmwareFlags
<1> QED
  BY <1>2, <1>3, <1>4, <1>5, <1>6, <1>7

-----------------------------------------------------------------------------
(* A walk starts at the first record.                                      *)
LEMMA WalkStart ==
    ASSUME NEW R, \A r \in R : r.size \in Nat, NEW recs \in Seq(R), NEW n \in Nat
    PROVE  Walked(recs, n, 0, recs, n)
<1>1. Len(recs) \in Nat /\ \A i \in 1 .. Len(recs) : recs[i] \in R
  BY LenProperties, ElementOfSeq
<1> DEFINE u == SubSeq(recs, 1, Len(recs))
<1>2. /\ u \in Seq(R) /\ Len(u) = (IF 1 <= Len(recs) THEN Len(recs) - 1 + 1 ELSE 0)
      /\ \A i \in 1 .. Len(recs) - 1 + 1 : u[i] = recs[1 + i - 1]
  BY <1>1, SubSeqProperties
<1> HIDE DEF u
<1>3. Len(u) = Len(recs) /\ \A i \in 1 .. Len(u) : u[i] = recs[i]
  BY <1>1, <1>2
<1>4. u = recs
  BY <1>2, <1>3, SeqEqual
<1>5. SizeUpTo(recs, 0) = 0
  BY SizeSteps
<1>6. 0 \in 0 .. Len(recs) /\ 1 .. 0 = {} /\ n = n - 0 /\ n >= 0 /\ 0 + 1 = 1
  BY <1>1
<1> QED
  BY <1>4, <1>5, <1>6 DEF Walked, u

(* It goes from record to record, as long as they lie in the table.        *)
LEMMA WalkNext ==
    ASSUME NEW R, \A r \in R : r.size \in Nat, NEW recs \in Seq(R), NEW n \in Nat,
           NEW j, NEW td, NEW rs, Walked(recs, n, j, td, rs), rs > 0, j < Len(recs)
    PROVE  /\ td[1] = recs[j + 1] /\ j + 1 \in 1 .. Len(recs) /\ rs \in Nat
           /\ n - SizeUpTo(recs, j + 1) = rs - td[1].size
           /\ SizeUpTo(recs, j + 1) \in Nat
           /\ td[1].size <= rs => /\ j + 1 \in Inside(recs, n)
                                  /\ Walked(recs, n, j + 1, Tail(td), rs - td[1].size)
<1> DEFINE N == Len(recs)
<1>0. N \in Nat /\ DOMAIN recs = 1 .. N /\ \A i \in 1 .. N : recs[i] \in R
  BY LenProperties, ElementOfSeq
<1>1. /\ j \in 0 .. N /\ 1 .. j \subseteq Inside(recs, n) /\ td = SubSeq(recs, j + 1, N)
      /\ rs = n - SizeUpTo(recs, j) /\ j < N
  BY DEF Walked
<1>2. /\ \A i \in 1 .. N : SizeUpTo(recs, i) = SizeUpTo(recs, i - 1) + recs[i].size
      /\ \A i \in 0 .. N : SizeUpTo(recs, i) \in Nat
  BY SizeSteps
<1>a. N = Len(recs)
  OBVIOUS
<1> HIDE DEF N
<1>3. j + 1 \in 1 .. N /\ j + 1 \in 0 .. N /\ (j + 1) - 1 = j /\ j + 1 \in Int /\ N \in Int /\ j \in Nat
  BY <1>0, <1>1
<1>4. SizeUpTo(recs, j + 1) = SizeUpTo(recs, j) + recs[j + 1].size /\ SizeUpTo(recs, j) \in Nat
      /\ SizeUpTo(recs, j + 1) \in Nat /\ recs[j + 1].size \in Nat
  BY <1>0, <1>1, <1>2, <1>3
<1>5. /\ td \in Seq(R) /\ Len(td) = (IF j + 1 <= N THEN N - (j + 1) + 1 ELSE 0)
      /\ \A i \in 1 .. N - (j + 1) + 1 : td[i] = recs[j + 1 + i - 1]
  <2>1. \A i \in j + 1 .. N : recs[i] \in R
    BY <1>0, <1>3
  <2> QED
    BY <1>1, <1>3, <2>1, SubSeqProperties
<1>6. Len(td) = N - j /\ \A i \in 1 .. N - j : td[i] = recs[j + i]
  <2>1. Len(td) = N - j
    BY <1>0, <1>1, <1>3, <1>5
  <2>2. ASSUME NEW i \in 1 .. N - j PROVE td[i] = recs[j + i]
    <3>1. i \in 1 .. N - (j + 1) + 1 /\ j + 1 + i - 1 = j + i
      BY <1>0, <1>3
    <3>2. td[i] = recs[j + 1 + i - 1]
      BY <1>5, <3>1
    <3> QED
      BY <3>1, <3>2, Zenon
  <2> QED
    BY <2>1, <2>2
<1>7. td[1] = recs[j + 1]
  <2>1. 1 \in 1 .. N - j
    BY <1>0, <1>1, <1>3
  <2> QED
    BY <1>6, <2>1
<1>8. rs \in Nat /\ n - SizeUpTo(recs, j + 1) = rs - td[1].size
  <2>1. ASSUME NEW a \in Nat, NEW b \in Nat, NEW c \in Nat, b = a + c, rs = n - a
        PROVE  rs \in Nat /\ n - b = rs - c
    BY <2>1
  <2>2. recs[j + 1].size = td[1].size
    BY <1>7
  <2>3. /\ SizeUpTo(recs, j) \in Nat /\ SizeUpTo(recs, j + 1) \in Nat /\ td[1].size \in Nat
        /\ SizeUpTo(recs, j + 1) = SizeUpTo(recs, j) + td[1].size /\ rs = n - SizeUpTo(recs, j)
    BY <1>1, <1>4, <2>2, Zenon
  <2> QED
    BY <2>1, <2>3, Zenon
<1>9. ASSUME td[1].size <= rs
      PROVE  j + 1 \in Inside(recs, n) /\ Walked(recs, n, j + 1, Tail(td), rs - td[1].size)
  <2>1. j + 1 \in Inside(recs, n)
    <3>1. SizeUpTo(recs, (j + 1) - 1) < n /\ SizeUpTo(recs, j + 1) <= n
      BY <1>1, <1>3, <1>4, <1>7, <1>9
    <3> QED
      BY <1>0, <1>3, <3>1 DEF Inside
  <2>2. 1 .. j + 1 \subseteq Inside(recs, n)
    <3>1. \A i \in 1 .. j + 1 : i \in 1 .. j \/ i = j + 1
      BY <1>3
    <3> QED
      BY <1>1, <2>1, <3>1
  <2> DEFINE u == Tail(td)
             v == SubSeq(recs, j + 1 + 1, N)
  <2>3. td # <<>>
    <3>1. Len(td) # 0
      BY <1>0, <1>1, <1>3, <1>6
    <3> QED
      BY <3>1, EmptySeq
  <2>4. /\ u \in Seq(R) /\ Len(u) = Len(td) - 1
        /\ \A i \in 1 .. Len(td) - 1 : u[i] = td[i + 1]
    BY <1>5, <2>3, HeadTailProperties
  <2>5. /\ v \in Seq(R) /\ Len(v) = (IF j + 1 + 1 <= N THEN N - (j + 1 + 1) + 1 ELSE 0)
        /\ \A i \in 1 .. N - (j + 1 + 1) + 1 : v[i] = recs[j + 1 + 1 + i - 1]
    <3>1. (\A i \in j + 1 + 1 .. N : recs[i] \in R) /\ j + 1 + 1 \in Int
      BY <1>0, <1>3
    <3> QED
      BY <1>3, <3>1, SubSeqProperties
  <2> HIDE DEF u, v
  <2>6. Len(u) = N - j - 1 /\ Len(v) = N - j - 1
    BY <1>0, <1>1, <1>3, <1>6, <2>4, <2>5
  <2>7. ASSUME NEW i \in 1 .. N - j - 1 PROVE u[i] = v[i]
    <3>1. i \in 1 .. Len(td) - 1 /\ i + 1 \in 1 .. N - j /\ i \in 1 .. N - (j + 1 + 1) + 1
          /\ j + 1 + 1 + i - 1 = j + (i + 1)
      BY <1>0, <1>3, <1>6
    <3>2. u[i] = td[i + 1] /\ td[i + 1] = recs[j + (i + 1)] /\ v[i] = recs[j + 1 + 1 + i - 1]
      BY <1>6, <2>4, <2>5, <3>1
    <3> QED
      BY <3>1, <3>2, Zenon
  <2>8. u = v
    BY <2>4, <2>5, <2>6, <2>7, SeqEqual
  <2>9. rs - td[1].size >= 0
    BY <1>4, <1>7, <1>8, <1>9
  <2> QED
    BY <1>3, <1>8, <2>1, <2>2, <2>8, <2>9, <1>a, Zenon DEF Walked, u, v
<1> QED
  BY <1>3, <1>4, <1>7, <1>8, <1>9, <1>a

(* The page keeps what it says of memory.                                  *)
KeepsMemory(p, q) ==
    /\ PageOk(q) /\ q.e820_map = p.e820_map
    /\ q.alt_mem_k = p.alt_mem_k /\ q.ext_mem_k = p.ext_mem_k

(* A command line does not touch it.                                       *)
LEMMA LineKeepsMemory ==
    ASSUME NEW p, PageOk(p), NEW arg, NEW n
    PROVE  KeepsMemory(p, append_command_line(p, arg, n))
<1> DEFINE at == strnlen(p.cmdline, CommandLine)
           w == Appended(arg, n)
           c == [i \in 1 .. PageRoom |-> IF i - at \in DOMAIN w THEN w[i - at] ELSE p.cmdline[i]]
           o == p.overrun \/ at + Len(w) > PageRoom
           q == [p EXCEPT !.cmdline = c, !.overrun = o]
<1>1. append_command_line(p, arg, n) = q
  BY DEF append_command_line, memcpy
<1> HIDE DEF c, o
<1>2. DOMAIN q = DOMAIN p /\ q.e820_map = p.e820_map /\ q.alt_mem_k = p.alt_mem_k /\ q.ext_mem_k = p.ext_mem_k
  BY DEF PageOk
<1>3. q = [f \in DOMAIN q |-> q[f]]
  OBVIOUS
<1> HIDE DEF q
<1> QED
  BY <1>1, <1>2, <1>3 DEF PageOk, KeepsMemory

(* So it still reports the same.                                           *)
LEMMA KeepsReports ==
    ASSUME NEW p, NEW q, KeepsMemory(p, q), NEW ranges, NEW sizes, Reports(p, ranges, sizes)
    PROVE  Reports(q, ranges, sizes)
BY DEF KeepsMemory, Reports, Sized

(* Ranges that are added are reported with the others.                     *)
LEMMA AddReports ==
    ASSUME NEW p, NEW ranges \in Seq(e820entry), NEW sizes, Reports(p, ranges, sizes),
           NEW more \in Seq(e820entry)
    PROVE  Reports(AddAll(p, more), ranges \o more, sizes \cup RamSizes(more))
<1> DEFINE q == AddAll(p, more)
<1>1. PageOk(p) /\ p.e820_map = Prefix(ranges, E820MAX) /\ Sized(p, sizes, Told, ToldExt)
  BY DEF Reports
<1>2. /\ PageOk(q) /\ q.e820_map = Prefix(p.e820_map \o more, E820MAX)
      /\ Sized(q, sizes \cup RamSizes(more), Told, ToldExt)
  BY <1>1, AddAllFacts
<1> HIDE DEF q
<1>3. Prefix(Prefix(ranges, E820MAX) \o more, E820MAX) = Prefix(ranges \o more, E820MAX)
  BY Limits, PrefixJoin
<1> QED
  BY <1>1, <1>2, <1>3 DEF Reports, q

-----------------------------------------------------------------------------
(* Initialize: a fresh page keeps the invariant.                           *)
LEMMA StepInitialize ==
    ASSUME MemInv, Initialize
    PROVE  MemInv'
<1> DEFINE p == initialize_linux_params(image)
<1>1. /\ p = [f \in DOMAIN p |-> p[f]]
      /\ {"alt_mem_k", "ext_mem_k", "e820_map", "cmdline", "overrun", "masked", "initrd_start", "initrd_size"} \subseteq DOMAIN p
      /\ p.e820_map = <<>> /\ p.alt_mem_k = 0 /\ p.ext_mem_k = 0
  BY DEF initialize_linux_params
<1> HIDE DEF p
<1>2. PageOk(p)
  BY <1>1, EmptySeq, Limits DEF PageOk
<1>3. info' = [NoInfo EXCEPT !.param = boot.param, !.need_mem_sizes = TRUE]
      /\ rm' = p /\ cpc' = "class" /\ boot' = boot /\ cpc = "startup"
  BY DEF Initialize, p
<1>4. DOMAIN info' = DOMAIN NoInfo /\ info'.need_mem_sizes = TRUE
  BY <1>3 DEF NoInfo
<1>5. FreshPage'
  BY <1>1, <1>2, <1>3, <1>4 DEF FreshPage
<1>6. boot \in Boots
  BY <1>3 DEF MemInv
<1> QED
  BY <1>3, <1>4, <1>5, <1>6 DEF MemInv, InfoOk

(* query_bootloader_param_class finds the class of the boot loader:        *)
(* nothing about memory changes.                                           *)
LEMMA StepClass ==
    ASSUME MemInv, query_bootloader_param_class
    PROVE  MemInv'
<1> DEFINE uniform == boot.type = "uniform" /\ compute_checksum(boot.data.header) = 0
           elf == boot.type # "multiboot" /\ ~uniform /\ ElfHeader # Null /\ ElfGood(ElfHeader)
<1>1. /\ cpc = "class" /\ cpc' = "firmware" /\ boot' = boot /\ rm' = rm
      /\ info' = [info EXCEPT !.has_multiboot = (boot.type = "multiboot"),
                              !.has_uniform_boot = uniform, !.has_elf_boot = elf,
                              !.param = IF elf THEN ElfHeader ELSE @]
  BY DEF query_bootloader_param_class
<1>2. (uniform => boot.type = "uniform") /\ (elf => boot.type # "multiboot" /\ ~uniform)
  OBVIOUS
<1> HIDE DEF uniform, elf
<1>3. InfoOk /\ boot \in Boots /\ FreshPage
  BY <1>1 DEF MemInv
<1>4. /\ DOMAIN info' = DOMAIN NoInfo /\ info'.need_mem_sizes = info.need_mem_sizes
      /\ info'.has_multiboot = (boot.type = "multiboot") /\ info'.has_uniform_boot = uniform
      /\ info'.has_elf_boot = elf
  BY <1>1, <1>3 DEF InfoOk, NoInfo
<1>5. FreshPage'
  BY <1>1, <1>3, <1>4 DEF FreshPage
<1>6. LoaderFlags'
  BY <1>1, <1>2, <1>4, Zenon DEF LoaderFlags
<1> QED
  BY <1>1, <1>3, <1>4, <1>5, <1>6 DEF MemInv, InfoOk

(* The search for a table finds one of those in the area.                  *)
LEMMA FindTable ==
    ASSUME NEW area, DOMAIN area \subseteq Nat, __find_lb_table(area) # Null
    PROVE  \E i \in DOMAIN area : __find_lb_table(area) = area[i]
<1> DEFINE stop == {i \in DOMAIN area : LbHeaderGood(area[i])
                      /\ (Loops(area[i].records, area[i].table_bytes) \/ LbGood(area[i]))}
           c == CHOOSE i \in stop : \A j \in stop : i <= j
<1>1. __find_lb_table(area) = IF stop = {} THEN Null ELSE area[c]
  BY Zenon DEF __find_lb_table
<1>2. stop \subseteq Nat /\ stop \subseteq DOMAIN area
  OBVIOUS
<1> HIDE DEF stop
<1>3. stop # {} => c \in stop
  BY <1>2, FirstOf
<1> QED
  BY <1>1, <1>2, <1>3

(* query_firmware_class: the table found is one of those in memory.        *)
LEMMA StepFirmware ==
    ASSUME MemInv, query_firmware_class
    PROVE  MemInv'
<1> DEFINE told == bootloader_query_firmware_class
           table == IF told \in {"pcbios", "none"} THEN Null ELSE find_lb_table
<1>1. /\ cpc = "firmware" /\ boot' = boot /\ rm' = rm
      /\ cpc' = IF LbHangs(table) THEN "hung" ELSE "values"
      /\ info' = [info EXCEPT !.has_linuxbios = (table # Null), !.lb_table = table,
                              !.has_pcbios = (told # "none" /\ table = Null)]
  BY DEF query_firmware_class
<1>t. table # Null => /\ table = find_lb_table
                     /\ find_lb_table \in {__find_lb_table(boot.low), __find_lb_table(boot.high)}
  BY DEF find_lb_table
<1>p. (told # "none" /\ table = Null) => table = Null
  OBVIOUS
<1> DEFINE pc_bios == told # "none" /\ table = Null
<1>q. pc_bios => table = Null
  OBVIOUS
<1>i. info' = [info EXCEPT !.has_linuxbios = (table # Null), !.lb_table = table, !.has_pcbios = pc_bios]
  BY <1>1
<1> HIDE DEF table, pc_bios
<1>3. InfoOk /\ boot \in Boots /\ FreshPage /\ LoaderFlags
  BY <1>1 DEF MemInv
<1>4. /\ DOMAIN info' = DOMAIN NoInfo /\ info'.need_mem_sizes = info.need_mem_sizes
      /\ info'.has_multiboot = info.has_multiboot /\ info'.has_uniform_boot = info.has_uniform_boot
      /\ info'.has_elf_boot = info.has_elf_boot
      /\ info'.has_linuxbios = (table # Null) /\ info'.lb_table = table /\ info'.has_pcbios = pc_bios
  BY <1>i, <1>3 DEF InfoOk, NoInfo
<1>5. FreshPage'
  BY <1>1, <1>3, <1>4 DEF FreshPage
<1>6. LoaderFlags'
  BY <1>1, <1>3, <1>4, Zenon DEF LoaderFlags
<1>7. ASSUME table # Null, ~LbHangs(table)
      PROVE  /\ table.records \in Seq(TableRecord) /\ table.table_bytes \in Nat
             /\ table.table_bytes <= SizeUpTo(table.records, Len(table.records))
  <2>1. PICK area \in {boot.low, boot.high} : table = __find_lb_table(area)
    BY <1>7, <1>t
  <2>2. DOMAIN area \subseteq Nat
    BY <1>3, <2>1, BootTypes
  <2>3. PICK i \in DOMAIN area : table = area[i]
    BY <1>7, <2>1, <2>2, FindTable
  <2>4. table.records \in Seq(TableRecord) /\ Walkable(table.records, table.table_bytes)
    BY <1>3, <2>1, <2>3, BootTypes
  <2>5. ~Loops(table.records, table.table_bytes)
    BY <1>7 DEF LbHangs
  <2> QED
    BY <2>4, <2>5 DEF Walkable
<1>8. CASE ~LbHangs(table)
  <2>1. FirmwareFlags'
    BY <1>4, <1>7, <1>8, <1>q, Zenon DEF FirmwareFlags
  <2>2. cpc' = "values"
    BY <1>1, <1>8
  <2> QED
    BY <1>1, <1>3, <1>4, <1>5, <1>6, <2>1, <2>2 DEF MemInv, InfoOk
<1>9. CASE LbHangs(table)
  <2>2. cpc' = "hung"
    BY <1>1, <1>9
  <2> QED
    BY <1>1, <1>3, <1>4, <2>2 DEF MemInv, InfoOk
<1> QED
  BY <1>8, <1>9

(* Nothing cut is nothing.                                                 *)
LEMMA PrefixNone == Prefix(<<>>, E820MAX) = <<>>
<1> DEFINE z == <<>>
<1>1. z \in Seq(e820entry) /\ Len(z) = 0
  BY EmptySeq
<1> HIDE DEF z
<1>2. /\ Prefix(z, E820MAX) \in Seq(e820entry)
      /\ Len(Prefix(z, E820MAX)) = IF Len(z) < E820MAX THEN Len(z) ELSE E820MAX
  BY <1>1, Limits, PrefixFacts
<1>3. Len(Prefix(z, E820MAX)) = 0
  BY <1>1, <1>2, Limits
<1>4. Prefix(z, E820MAX) = <<>>
  BY <1>2, <1>3, EmptySeq
<1> QED
  BY <1>4 DEF z

(* A fresh page reports nothing, unless the PC BIOS has told of something. *)
LEMMA FreshReports ==
    ASSUME FreshPage, ~info.has_pcbios
    PROVE  Reports(rm, <<>>, {})
<1>1. Told = 0 /\ ToldExt = 0
  BY Zenon DEF Told, ToldExt
<1> QED
  BY <1>1, PrefixNone DEF Reports, FreshPage, Sized

(* query_lb_values: the walk over the records of the LinuxBIOS             *)
(* table starts.                                                           *)
LEMMA StepWalkLinuxBios ==
    ASSUME MemInv, WalkLinuxBios
    PROVE  MemInv'
<1> DEFINE t == info.lb_table
<1>1. /\ cpc = "values" /\ cpc' = "linuxbios" /\ boot' = boot /\ rm' = rm /\ info' = info
      /\ info.has_linuxbios /\ todo' = t.records /\ rest' = t.table_bytes
  BY DEF WalkLinuxBios
<1>2. InfoOk /\ boot \in Boots /\ FreshPage /\ LoaderFlags /\ FirmwareFlags
  BY <1>1 DEF MemInv
<1>3. t.records \in Seq(TableRecord) /\ t.table_bytes \in Nat /\ ~info.has_pcbios
  BY <1>1, <1>2, Zenon DEF FirmwareFlags
<1>4. Reports(rm, <<>>, {})
  BY <1>2, <1>3, FreshReports
<1>5. LbParts(t) \in Seq(Seq(e820entry))
  BY <1>3, LbPartsFacts
<1>6. Joined(LbParts(t), 0) = <<>>
  BY <1>5, JoinedSteps
<1>7. Walked(t.records, t.table_bytes, 0, t.records, t.table_bytes)
  BY <1>3, RecordTypes, WalkStart
<1>8. MemoryUpTo(t.records, 0) = {} /\ info.need_mem_sizes = TRUE
  BY <1>2 DEF MemoryUpTo, FreshPage
<1>9. 0 \in 0 .. Len(t.records)
  BY <1>7 DEF Walked
<1>10. Reports(rm, Joined(LbParts(t), 0), RamSizes(Joined(LbParts(t), 0)))
  BY <1>4, <1>6, RamSizesNone
<1>a. info.need_mem_sizes = (MemoryUpTo(t.records, 0) = {})
  BY <1>8
<1>b. t = info.lb_table
  OBVIOUS
<1>11. info'.lb_table = t /\ Told' = Told /\ ToldExt' = ToldExt
  BY <1>1, Zenon DEF Told, ToldExt
<1> HIDE DEF t
<1>c. /\ PageOk(rm') /\ rm'.e820_map = Prefix(Joined(LbParts(t), 0), E820MAX)
      /\ Sized(rm', RamSizes(Joined(LbParts(t), 0)), Told', ToldExt')
  BY <1>1, <1>10, <1>11, Zenon DEF Reports
<1>12. TableSoFar'
  BY <1>1, <1>7, <1>9, <1>11, <1>a, <1>c, Zenon DEF TableSoFar, Reports
<1>13. LoaderFlags' /\ FirmwareFlags'
  BY <1>1, <1>2, Zenon DEF LoaderFlags, FirmwareFlags
<1> QED
  BY <1>1, <1>2, <1>12, <1>13 DEF MemInv, InfoOk

(* One record of the LinuxBIOS table: a memory record adds its ranges, any *)
(* other adds none.                                                        *)
LEMMA StepLinuxBiosRecord ==
    ASSUME MemInv, LinuxBiosRecord
    PROVE  MemInv'
<1> DEFINE t == info.lb_table
           F == LbParts(t)
           r == todo[1]
           n == t.table_bytes
<1>1. /\ cpc = "linuxbios" /\ cpc' = "linuxbios" /\ boot' = boot /\ ~WalkOver
      /\ IF r.tag = "memory"
         THEN /\ rm' = convert_lb_memory(rm, r) /\ info' = [info EXCEPT !.need_mem_sizes = FALSE]
         ELSE rm' = rm /\ info' = info
      /\ rest' = rest - r.size /\ todo' = Tail(todo)
  BY DEF LinuxBiosRecord
<1>2. InfoOk /\ boot \in Boots /\ LoaderFlags /\ FirmwareFlags /\ TableSoFar
  BY <1>1 DEF MemInv
<1>3. info.has_linuxbios /\ t.records \in Seq(TableRecord) /\ n \in Nat /\ n <= SizeUpTo(t.records, Len(t.records))
  BY <1>2, Zenon DEF FirmwareFlags, TableSoFar
<1>4. PICK j \in 0 .. Len(t.records) :
         /\ Walked(t.records, n, j, todo, rest)
         /\ Reports(rm, Joined(F, j), RamSizes(Joined(F, j)))
         /\ info.need_mem_sizes = (MemoryUpTo(t.records, j) = {})
  BY <1>2, Zenon DEF TableSoFar
<1>5. rest > 0 /\ ~(r.size > rest)
  BY <1>1 DEF WalkOver
<1>6. j < Len(t.records) /\ Len(t.records) \in Nat
  <2>0. Len(t.records) \in Nat
    BY <1>3, LenProperties
  <2>1. ASSUME j = Len(t.records) PROVE FALSE
    <3>1. rest = n - SizeUpTo(t.records, j) /\ n <= SizeUpTo(t.records, j)
      BY <1>3, <1>4, <2>1 DEF Walked
    <3>2. SizeUpTo(t.records, j) \in Nat
      BY <1>3, <1>4, RecordTypes, SizeSteps
    <3> HIDE DEF n
    <3> QED
      BY <1>3, <1>5, <3>1, <3>2
  <2> QED
    BY <1>4, <2>0, <2>1
<1>7. /\ r = t.records[j + 1] /\ j + 1 \in 1 .. Len(t.records) /\ rest \in Nat
      /\ r.size <= rest => /\ j + 1 \in Inside(t.records, n)
                           /\ Walked(t.records, n, j + 1, Tail(todo), rest - r.size)
  BY <1>3, <1>4, <1>5, <1>6, RecordTypes, WalkNext
<1>8. r \in TableRecord
  BY <1>3, <1>7, ElementOfSeq
<1>9. /\ j + 1 \in Inside(t.records, n) /\ Walked(t.records, n, j + 1, Tail(todo), rest - r.size)
  <2>1. r.size \in Nat
    BY <1>8, RecordTypes
  <2>2. r.size <= rest
    BY <1>5, <1>7, <2>1
  <2> QED
    BY <1>7, <2>2
<1>10. /\ F \in Seq(Seq(e820entry)) /\ Len(F) = Len(t.records)
       /\ F[j + 1] = IF j + 1 \in MemoryRecords(t.records, n)
                     THEN Prefix(Typed(r.map, LbType), E820MAX) ELSE <<>>
  BY <1>3, <1>7, LbPartsFacts
<1>11. (j + 1 \in MemoryRecords(t.records, n)) <=> r.tag = "memory"
  BY <1>7, <1>9 DEF MemoryRecords
<1>12. Joined(F, j + 1) = Joined(F, j) \o F[j + 1] /\ Joined(F, j) \in Seq(e820entry)
  <2>1. /\ \A i \in 1 .. Len(F) : Joined(F, i) = Joined(F, i - 1) \o F[i]
        /\ \A i \in 0 .. Len(F) : Joined(F, i) \in Seq(e820entry)
    BY <1>10, JoinedSteps
  <2>2. j + 1 \in 1 .. Len(F) /\ (j + 1) - 1 = j /\ j \in 0 .. Len(F)
    BY <1>4, <1>6, <1>7, <1>10
  <2> HIDE DEF F
  <2>3. Joined(F, j + 1) = Joined(F, (j + 1) - 1) \o F[j + 1]
    BY <2>1, <2>2, Zenon
  <2> QED
    BY <2>1, <2>2, <2>3, Zenon
<1>b. t = info.lb_table /\ F = LbParts(t) /\ n = t.table_bytes
  OBVIOUS
<1>m. \A k : k \in 1 .. j + 1 <=> k \in 1 .. j \/ k = j + 1
  BY <1>4
<1> DEFINE More ==
             /\ Reports(rm', Joined(F, j + 1), RamSizes(Joined(F, j + 1)))
             /\ info'.need_mem_sizes = (MemoryUpTo(t.records, j + 1) = {})
             /\ DOMAIN info' = DOMAIN NoInfo /\ SameMachine
<1>13. ASSUME r.tag = "memory" PROVE More
  <2>1. F[j + 1] = Prefix(Typed(r.map, LbType), E820MAX) /\ F[j + 1] \in Seq(e820entry)
    BY <1>8, <1>10, <1>11, <1>13, RecordTypes, TypedRanges
  <2>2. rm' = AddAll(rm, F[j + 1])
    BY <1>1, <1>13, <2>1 DEF convert_lb_memory
  <2>i. DOMAIN info' = DOMAIN NoInfo /\ SameMachine /\ info'.need_mem_sizes = FALSE
    BY <1>1, <1>2, <1>13 DEF InfoOk, NoInfo, SameMachine
  <2> HIDE DEF F, t
  <2>3. Reports(rm', Joined(F, j) \o F[j + 1], RamSizes(Joined(F, j)) \cup RamSizes(F[j + 1]))
    BY <1>4, <1>12, <2>1, <2>2, AddReports
  <2>4. RamSizes(Joined(F, j) \o F[j + 1]) = RamSizes(Joined(F, j)) \cup RamSizes(F[j + 1])
    BY <1>12, <2>1, RamSizesJoin
  <2>5. Reports(rm', Joined(F, j + 1), RamSizes(Joined(F, j + 1)))
    BY <1>12, <2>3, <2>4, Zenon
  <2>6. j + 1 \in MemoryUpTo(t.records, j + 1)
    BY <1>7, <1>13, <1>m, Zenon DEF MemoryUpTo
  <2>7. FALSE = (MemoryUpTo(t.records, j + 1) = {})
    BY <2>6
  <2> QED
    BY <2>5, <2>7, <2>i, Zenon
<1>14. ASSUME r.tag # "memory" PROVE More
  <2>1. F[j + 1] = <<>>
    BY <1>10, <1>11, <1>14, Zenon
  <2>i. DOMAIN info' = DOMAIN NoInfo /\ SameMachine /\ info' = info /\ rm' = rm
    BY <1>1, <1>2, <1>14 DEF InfoOk, SameMachine
  <2> HIDE DEF F, t
  <2>2. Joined(F, j + 1) = Joined(F, j)
    BY <1>12, <2>1, ConcatEmptySeq
  <2>3. MemoryUpTo(t.records, j + 1) = MemoryUpTo(t.records, j)
    BY <1>7, <1>14, <1>m, Zenon DEF MemoryUpTo
  <2> QED
    BY <1>4, <2>2, <2>3, <2>i, Zenon
<1>15. More
  BY <1>13, <1>14
<1>16. /\ Told' = Told /\ ToldExt' = ToldExt /\ LoaderFlags' = LoaderFlags /\ FirmwareFlags' = FirmwareFlags
  BY <1>15, SameSources
<1>17. t' = t /\ info'.has_linuxbios = info.has_linuxbios
  BY <1>15 DEF SameMachine, NoInfo
<1>18. TableSoFar'
  <2>1. j + 1 \in 0 .. Len(t.records)
    BY <1>7
  <2>2. todo' = Tail(todo) /\ rest' = rest - r.size
    BY <1>1
  <2>3. info'.lb_table = t
    BY <1>17
  <2> HIDE DEF F, t, n, r
  <2>4. Reports(rm', Joined(F, j + 1), RamSizes(Joined(F, j + 1)))
        /\ info'.need_mem_sizes = (MemoryUpTo(t.records, j + 1) = {})
    BY <1>15, Zenon
  <2>5. /\ PageOk(rm') /\ rm'.e820_map = Prefix(Joined(LbParts(t), j + 1), E820MAX)
        /\ Sized(rm', RamSizes(Joined(LbParts(t), j + 1)), Told', ToldExt')
    BY <1>16, <2>4, <1>b, Zenon DEF Reports
  <2>6. Walked(t.records, t.table_bytes, j + 1, todo', rest')
    BY <1>9, <1>b, <2>2, Zenon
  <2> QED
    BY <1>3, <1>17, <2>1, <2>3, <2>4, <2>5, <2>6, Zenon DEF TableSoFar, Reports
<1> HIDE DEF F, t, n, r
<1> QED
  BY <1>1, <1>2, <1>15, <1>16, <1>18 DEF MemInv, InfoOk

(* A walk that is over has met all the records of its table.               *)
LEMMA WalkEnd ==
    ASSUME NEW R, \A r \in R : r.size \in Nat, NEW recs \in Seq(R), NEW n \in Nat,
           n <= SizeUpTo(recs, Len(recs)),
           NEW j, NEW td, NEW rs, Walked(recs, n, j, td, rs), rs > 0 => td[1].size > rs
    PROVE  Inside(recs, n) = 1 .. j
<1>0. Len(recs) \in Nat
  BY LenProperties
<1>1. /\ j \in 0 .. Len(recs) /\ 1 .. j \subseteq Inside(recs, n)
      /\ rs = n - SizeUpTo(recs, j) /\ rs >= 0
  BY DEF Walked
<1>2. SizeUpTo(recs, j) \in Nat
  BY <1>1, SizeSteps
<1>3. CASE j = Len(recs) \/ ~(rs > 0)
  <2>1. n <= SizeUpTo(recs, j)
    <3>1. CASE j = Len(recs)
      BY <3>1
    <3>2. CASE ~(rs > 0)
      BY <1>1, <1>2, <3>2
    <3> QED
      BY <1>3, <3>1, <3>2
  <2> QED
    BY <1>1, <2>1, WalkedAll
<1>4. CASE rs > 0 /\ j # Len(recs)
  <2>1. j < Len(recs) /\ td[1].size > rs
    BY <1>0, <1>1, <1>4
  <2>2. /\ td[1] = recs[j + 1] /\ j + 1 \in 1 .. Len(recs) /\ rs \in Nat
        /\ n - SizeUpTo(recs, j + 1) = rs - td[1].size /\ SizeUpTo(recs, j + 1) \in Nat
    BY <1>4, <2>1, WalkNext
  <2>3. td[1].size \in Nat
    BY <2>2, ElementOfSeq
  <2>4. n < SizeUpTo(recs, j + 1)
    <3>1. \A a, b \in Nat : n - a = rs - b /\ b > rs => n < a
      BY <2>2
    <3> QED
      BY <2>1, <2>2, <2>3, <3>1
  <2> QED
    BY <1>1, <2>1, <2>4, WalkedAll
<1> QED
  BY <1>3, <1>4

(* Empty parts at the end add nothing.                                     *)
LEMMA JoinedRest ==
    ASSUME NEW S, NEW f \in Seq(Seq(S)), NEW j \in 0 .. Len(f), \A k \in j + 1 .. Len(f) : f[k] = <<>>
    PROVE  Joined(f, Len(f)) = Joined(f, j)
<1> DEFINE N == Len(f)
           Z == {i \in 0 .. N : i >= j => Joined(f, i) = Joined(f, j)}
<1>0. N \in Nat /\ j \in 0 .. N
  BY LenProperties
<1>1. /\ \A i \in 1 .. N : Joined(f, i) = Joined(f, i - 1) \o f[i]
      /\ \A i \in 0 .. N : Joined(f, i) \in Seq(S)
  BY JoinedSteps
<1>2. 0 \in Z
  BY <1>0
<1>3. ASSUME NEW i \in 0 .. N - 1, i \in Z PROVE i + 1 \in Z
  <2>1. i + 1 \in 1 .. N /\ i + 1 \in 0 .. N /\ (i + 1) - 1 = i
    BY <1>0
  <2>2. CASE i + 1 = j
    BY <2>1, <2>2
  <2>3. CASE i + 1 < j
    BY <1>0, <2>1, <2>3
  <2>4. CASE i + 1 > j
    <3>1. i >= j /\ i + 1 \in j + 1 .. N
      BY <1>0, <2>1, <2>4
    <3>2. Joined(f, i) = Joined(f, j) /\ f[i + 1] = <<>>
      BY <1>3, <3>1
    <3>3. Joined(f, i + 1) = Joined(f, i) \o f[i + 1]
      <4>1. Joined(f, i + 1) = Joined(f, (i + 1) - 1) \o f[i + 1]
        BY <1>1, <2>1, Zenon
      <4> QED
        BY <2>1, <4>1, Zenon
    <3>4. Joined(f, i) \o <<>> = Joined(f, i)
      <4>1. Joined(f, i) \in Seq(S)
        BY <1>0, <1>1
      <4> QED
        BY <4>1, ConcatEmptySeq
    <3>5. Joined(f, i + 1) = Joined(f, j)
      BY <3>2, <3>3, <3>4, Zenon
    <3> QED
      BY <2>1, <3>5
  <2> QED
    BY <1>0, <2>1, <2>2, <2>3, <2>4
<1>4. \A i \in 0 .. N : i \in Z
  <2> HIDE DEF Z, N
  <2> QED
    BY <1>0, <1>2, <1>3, UpTo
<1>5. N \in Z /\ N >= j
  BY <1>0, <1>4
<1> QED
  BY <1>5

(* A page that reports what the firmware knows does so in the next state.  *)
LEMMA FirmwareNext ==
    ASSUME SameMachine, Reports(rm', FirmwareRanges, FirmwareSizes), LoaderFlags, FirmwareFlags,
           info'.need_mem_sizes = ~FirmwareKnows
    PROVE  FirmwareReported' /\ LoaderFlags' /\ FirmwareFlags'
<1>1. /\ FirmwareRanges' = FirmwareRanges /\ FirmwareSizes' = FirmwareSizes
      /\ FirmwareKnows' = FirmwareKnows
      /\ Told' = Told /\ ToldExt' = ToldExt
      /\ LoaderFlags' = LoaderFlags /\ FirmwareFlags' = FirmwareFlags
  BY SameSources
<1>2. /\ PageOk(rm') /\ rm'.e820_map = Prefix(FirmwareRanges, E820MAX)
      /\ Sized(rm', FirmwareSizes, Told, ToldExt)
  BY DEF Reports
<1>3. /\ PageOk(rm') /\ rm'.e820_map = Prefix(FirmwareRanges', E820MAX)
      /\ Sized(rm', FirmwareSizes', Told', ToldExt')
  BY <1>1, <1>2, Zenon
<1>4. info'.need_mem_sizes = ~FirmwareKnows'
  BY <1>1
<1> QED
  BY <1>1, <1>3, <1>4, Zenon DEF FirmwareReported, Reports

(* The walk over the LinuxBIOS table ends: all its ranges are in the page. *)
LEMMA StepLinuxBiosEnd ==
    ASSUME MemInv, LinuxBiosEnd
    PROVE  MemInv'
<1> DEFINE t == info.lb_table
           F == LbParts(t)
           n == t.table_bytes
           N == Len(t.records)
<1>1. /\ cpc = "linuxbios" /\ cpc' = "bootloader" /\ boot' = boot /\ WalkOver /\ rm' = rm /\ info' = info
  BY DEF LinuxBiosEnd
<1>2. InfoOk /\ boot \in Boots /\ LoaderFlags /\ FirmwareFlags /\ TableSoFar
  BY <1>1 DEF MemInv
<1>3. info.has_linuxbios /\ ~info.has_pcbios /\ t.records \in Seq(TableRecord) /\ n \in Nat /\ n <= SizeUpTo(t.records, N)
  BY <1>2, Zenon DEF FirmwareFlags, TableSoFar
<1>4. PICK j \in 0 .. N :
         /\ Walked(t.records, n, j, todo, rest)
         /\ Reports(rm, Joined(F, j), RamSizes(Joined(F, j)))
         /\ info.need_mem_sizes = (MemoryUpTo(t.records, j) = {})
  BY <1>2, Zenon DEF TableSoFar
<1>5. Inside(t.records, n) = 1 .. j
  BY <1>1, <1>3, <1>4, RecordTypes, WalkEnd DEF WalkOver
<1>6. MemoryRecords(t.records, n) = MemoryUpTo(t.records, j)
  BY <1>5, Zenon DEF MemoryRecords, MemoryUpTo
<1>7. FirmwareKnows <=> MemoryRecords(t.records, n) # {}
  BY <1>3, Zenon DEF FirmwareKnows
<1>8. /\ F \in Seq(Seq(e820entry)) /\ Len(F) = N /\ N \in Nat
      /\ \A k \in 1 .. N : F[k] = IF k \in MemoryRecords(t.records, n)
                                  THEN Prefix(Typed(t.records[k].map, LbType), E820MAX) ELSE <<>>
  BY <1>3, LbPartsFacts, LenProperties
<1>9. \A k \in j + 1 .. N : F[k] = <<>>
  <2>1. \A k \in j + 1 .. N : k \in 1 .. N /\ k \notin 1 .. j
    BY <1>4, <1>8
  <2>2. \A k \in MemoryRecords(t.records, n) : k \in 1 .. j
    BY <1>6 DEF MemoryUpTo
  <2> HIDE DEF F, N
  <2> QED
    BY <1>8, <2>1, <2>2, Zenon
<1>10. Joined(F, N) = Joined(F, j)
  BY <1>4, <1>8, <1>9, JoinedRest
<1>11. FirmwareRanges = Joined(F, j) /\ FirmwareSizes = RamSizes(FirmwareRanges)
  BY <1>2, <1>3, <1>10, FirmwareTypes DEF FirmwareSizes
<1>12. FirmwareReported
  <2>1. info.need_mem_sizes = ~FirmwareKnows
    BY <1>4, <1>6, <1>7
  <2> HIDE DEF F
  <2> QED
    BY <1>4, <1>11, <2>1, Zenon DEF FirmwareReported
<1> HIDE DEF t, F, n, N
<1>13. SameMachine
  BY <1>1 DEF SameMachine
<1>14. FirmwareReported' /\ LoaderFlags' /\ FirmwareFlags'
  <2>1. Reports(rm', FirmwareRanges, FirmwareSizes) /\ info'.need_mem_sizes = ~FirmwareKnows
    BY <1>1, <1>12 DEF FirmwareReported
  <2> QED
    BY <1>2, <1>13, <2>1, FirmwareNext
<1> QED
  BY <1>1, <1>2, <1>14 DEF MemInv, InfoOk

(* query_pcbios_values: the ranges and sizes of the PC BIOS are taken.     *)
LEMMA StepPcbios ==
    ASSUME MemInv, query_pcbios_values
    PROVE  MemInv'
<1> DEFINE q == AddAll(rm, meme820)
           known == /\ info.need_mem_sizes
                    /\ \A i \in DOMAIN meme820 : meme820[i].type # E820_RAM
                    /\ boot.e801 = 0 /\ boot.e88 = 0
<1>1. /\ cpc = "values" /\ cpc' = "bootloader" /\ boot' = boot /\ info.has_pcbios
      /\ rm' = [q EXCEPT !.alt_mem_k = boot.e801, !.ext_mem_k = boot.e88]
      /\ info' = [info EXCEPT !.need_mem_sizes = known]
  BY DEF query_pcbios_values, get_meminfo
<1>2. InfoOk /\ boot \in Boots /\ LoaderFlags /\ FirmwareFlags /\ FreshPage
  BY <1>1 DEF MemInv
<1>3. ~info.has_linuxbios
  BY <1>1, <1>2, Zenon DEF FirmwareFlags
<1>4. boot.e801 \in Nat /\ boot.e88 \in Nat /\ meme820 \in Seq(e820entry)
  BY <1>2, BootTypes, FirmwareTypes
<1>5. PageOk(q) /\ q.e820_map = Prefix(<<>> \o meme820, E820MAX)
  BY <1>2, <1>4, AddAllFacts DEF FreshPage
<1>6. <<>> \o meme820 = meme820
  BY <1>4, ConcatEmptySeq
<1> HIDE DEF q
<1>7. /\ DOMAIN rm' = DOMAIN q /\ rm'.e820_map = q.e820_map /\ rm'.alt_mem_k = boot.e801
      /\ rm'.ext_mem_k = boot.e88 /\ rm' = [f \in DOMAIN rm' |-> rm'[f]]
  BY <1>1, <1>5 DEF PageOk
<1>8. PageOk(rm')
  BY <1>4, <1>5, <1>7 DEF PageOk
<1>9. FirmwareRanges = meme820 /\ FirmwareSizes = {} /\ Told = boot.e801 /\ ToldExt = boot.e88
  BY <1>1, <1>3, Zenon DEF FirmwareRanges, FirmwareSizes, Told, ToldExt
<1>10. Sized(rm', {}, Told, ToldExt)
  BY <1>4, <1>7, <1>9 DEF Sized
<1>11. Reports(rm', FirmwareRanges, FirmwareSizes)
  BY <1>5, <1>6, <1>7, <1>8, <1>9, <1>10 DEF Reports
<1>12. known = ~FirmwareKnows
  <2>1. (boot.e801 = 0 /\ boot.e88 = 0) <=> ~(boot.e801 + boot.e88 > 0)
    BY <1>4
  <2>2. info.need_mem_sizes = TRUE
    BY <1>2 DEF FreshPage
  <2> QED
    BY <1>1, <1>3, <2>1, <2>2, Zenon DEF FirmwareKnows
<1> HIDE DEF known
<1>13. SameMachine /\ info'.need_mem_sizes = known /\ DOMAIN info' = DOMAIN NoInfo
  BY <1>1, <1>2 DEF SameMachine, InfoOk, NoInfo
<1>14. FirmwareReported' /\ LoaderFlags' /\ FirmwareFlags'
  <2>1. info'.need_mem_sizes = ~FirmwareKnows
    BY <1>12, <1>13
  <2> QED
    BY <1>2, <1>11, <1>13, <2>1, FirmwareNext
<1> QED
  BY <1>1, <1>2, <1>13, <1>14 DEF MemInv, InfoOk

(* No firmware is known: nothing is reported.                              *)
LEMMA StepNoFirmware ==
    ASSUME MemInv, NoFirmware
    PROVE  MemInv'
<1>1. /\ cpc = "values" /\ cpc' = "bootloader" /\ boot' = boot /\ rm' = rm /\ info' = info
      /\ ~info.has_linuxbios /\ ~info.has_pcbios
  BY DEF NoFirmware
<1>2. InfoOk /\ boot \in Boots /\ LoaderFlags /\ FirmwareFlags /\ FreshPage
  BY <1>1 DEF MemInv
<1>3. Reports(rm, <<>>, {})
  BY <1>1, <1>2, FreshReports
<1>4. FirmwareRanges = <<>> /\ FirmwareSizes = {} /\ ~FirmwareKnows
  BY <1>1, Zenon DEF FirmwareRanges, FirmwareSizes, FirmwareKnows
<1>5. info.need_mem_sizes = ~FirmwareKnows
  BY <1>2, <1>4 DEF FreshPage
<1>6. SameMachine
  BY <1>1 DEF SameMachine
<1>7. FirmwareReported' /\ LoaderFlags' /\ FirmwareFlags'
  <2>1. Reports(rm', FirmwareRanges, FirmwareSizes) /\ info'.need_mem_sizes = ~FirmwareKnows
    BY <1>1, <1>3, <1>4, <1>5
  <2> QED
    BY <1>2, <1>6, <2>1, FirmwareNext
<1> QED
  BY <1>1, <1>2, <1>7 DEF MemInv, InfoOk

(* Likewise for all that is known of memory.                               *)
LEMMA MemoryNext ==
    ASSUME SameMachine, LoaderFlags, FirmwareFlags,
           Reports(rm', FirmwareRanges \o LoaderRanges, FirmwareSizes \cup LoaderSizes)
    PROVE  MemoryReported' /\ LoaderFlags' /\ FirmwareFlags'
<1>1. /\ FirmwareRanges' = FirmwareRanges /\ FirmwareSizes' = FirmwareSizes
      /\ LoaderRanges' = LoaderRanges /\ LoaderSizes' = LoaderSizes
      /\ Told' = Told /\ ToldExt' = ToldExt
      /\ LoaderFlags' = LoaderFlags /\ FirmwareFlags' = FirmwareFlags
  BY SameSources
<1>2. /\ PageOk(rm') /\ rm'.e820_map = Prefix(FirmwareRanges \o LoaderRanges, E820MAX)
      /\ Sized(rm', FirmwareSizes \cup LoaderSizes, Told, ToldExt)
  BY DEF Reports
<1>3. /\ PageOk(rm') /\ rm'.e820_map = Prefix(FirmwareRanges' \o LoaderRanges', E820MAX)
      /\ Sized(rm', FirmwareSizes' \cup LoaderSizes', Told', ToldExt')
  BY <1>1, <1>2, Zenon
<1> QED
  BY <1>1, <1>3, Zenon DEF MemoryReported, Reports

(* A boot loader of no known kind, or one that passes ELF notes, says      *)
(* nothing of memory.                                                      *)
LEMMA SilentLoader ==
    ASSUME boot \in Boots, FirmwareFlags, ~info.has_multiboot, ~info.has_uniform_boot, FirmwareReported
    PROVE  MemoryReported
<1>1. LoaderRanges = <<>>
  BY Zenon DEF LoaderRanges
<1>2. LoaderSizes = {}
  <2>1. LoaderSizes = RamSizes(<<>>) \cup {}
    BY <1>1, Zenon DEF LoaderSizes
  <2> QED
    BY <2>1, RamSizesNone
<1>3. FirmwareRanges \in Seq(e820entry)
  BY FirmwareTypes
<1>4. FirmwareRanges \o <<>> = FirmwareRanges /\ FirmwareSizes \cup {} = FirmwareSizes
  BY <1>3, ConcatEmptySeq
<1> QED
  BY <1>1, <1>2, <1>4, Zenon DEF MemoryReported, FirmwareReported

(* An unknown boot loader reports no memory.                               *)
LEMMA StepUnknownBootloader ==
    ASSUME MemInv, UnknownBootloader
    PROVE  MemInv'
<1>1. /\ cpc = "bootloader" /\ cpc' = "hardware" /\ boot' = boot /\ rm' = rm /\ info' = info
      /\ ~info.has_multiboot /\ ~info.has_uniform_boot
  BY DEF UnknownBootloader
<1>2. InfoOk /\ boot \in Boots /\ LoaderFlags /\ FirmwareFlags /\ FirmwareReported
  BY <1>1 DEF MemInv
<1>3. MemoryReported
  BY <1>1, <1>2, SilentLoader
<1>4. SameMachine /\ Reports(rm', FirmwareRanges \o LoaderRanges, FirmwareSizes \cup LoaderSizes)
  BY <1>1, <1>3 DEF SameMachine, MemoryReported
<1>5. MemoryReported' /\ LoaderFlags' /\ FirmwareFlags'
  BY <1>2, <1>4, MemoryNext
<1> QED
  BY <1>1, <1>2, <1>5 DEF MemInv, InfoOk

(* An ELF boot loader: the walk over its notes starts.                     *)
LEMMA StepElfBoot ==
    ASSUME MemInv, convert_elf_boot
    PROVE  MemInv'
<1>1. /\ cpc = "bootloader" /\ cpc' = "elf" /\ boot' = boot /\ rm' = rm /\ info' = info /\ info.has_elf_boot
  BY DEF convert_elf_boot
<1>2. InfoOk /\ boot \in Boots /\ LoaderFlags /\ FirmwareFlags /\ FirmwareReported
  BY <1>1 DEF MemInv
<1>3. SameMachine
  BY <1>1 DEF SameMachine
<1>4. Reports(rm', FirmwareRanges, FirmwareSizes) /\ info'.need_mem_sizes = ~FirmwareKnows
  BY <1>1, <1>2 DEF FirmwareReported
<1>5. FirmwareReported' /\ LoaderFlags' /\ FirmwareFlags'
  BY <1>2, <1>3, <1>4, FirmwareNext
<1> QED
  BY <1>1, <1>2, <1>5 DEF MemInv, InfoOk

(* A note of an ELF boot loader can change the command line, and no        *)
(* memory.                                                                 *)
LEMMA StepElfNote ==
    ASSUME MemInv, ElfNote
    PROVE  MemInv'
<1>1. /\ cpc = "elf" /\ cpc' = "elf" /\ boot' = boot /\ info' = info
      /\ rm' = rm \/ rm' = append_command_line(rm, todo[1].desc, todo[1].descsz)
  BY DEF ElfNote, convert_elf_command_line
<1>2. InfoOk /\ boot \in Boots /\ LoaderFlags /\ FirmwareFlags /\ FirmwareReported /\ info.has_elf_boot
  BY <1>1 DEF MemInv
<1>3. SameMachine
  BY <1>1 DEF SameMachine
<1>4. PageOk(rm) /\ Reports(rm, FirmwareRanges, FirmwareSizes) /\ info'.need_mem_sizes = ~FirmwareKnows
  BY <1>1, <1>2 DEF FirmwareReported, Reports
<1>5. KeepsMemory(rm, rm')
  <2>1. CASE rm' = rm
    BY <1>4, <2>1 DEF KeepsMemory
  <2>2. CASE rm' = append_command_line(rm, todo[1].desc, todo[1].descsz)
    BY <1>4, <2>2, LineKeepsMemory
  <2> QED
    BY <1>1, <2>1, <2>2
<1>6. Reports(rm', FirmwareRanges, FirmwareSizes)
  BY <1>4, <1>5, KeepsReports
<1>7. FirmwareReported' /\ LoaderFlags' /\ FirmwareFlags'
  BY <1>2, <1>3, <1>4, <1>6, FirmwareNext
<1> QED
  BY <1>1, <1>2, <1>7 DEF MemInv, InfoOk

(* The walk over the notes of an ELF boot loader ends.                     *)
LEMMA StepElfEnd ==
    ASSUME MemInv, ElfEnd
    PROVE  MemInv'
<1>1. cpc = "elf" /\ cpc' = "hardware" /\ boot' = boot /\ rm' = rm /\ info' = info
  BY DEF ElfEnd
<1>2. InfoOk /\ boot \in Boots /\ LoaderFlags /\ FirmwareFlags /\ FirmwareReported /\ info.has_elf_boot
  BY <1>1 DEF MemInv
<1>a. ~info.has_multiboot /\ ~info.has_uniform_boot
  BY <1>2, Zenon DEF LoaderFlags
<1>3. MemoryReported
  BY <1>2, <1>a, SilentLoader
<1>4. SameMachine /\ Reports(rm', FirmwareRanges \o LoaderRanges, FirmwareSizes \cup LoaderSizes)
  BY <1>1, <1>3 DEF SameMachine, MemoryReported
<1>5. MemoryReported' /\ LoaderFlags' /\ FirmwareFlags'
  BY <1>2, <1>4, MemoryNext
<1> QED
  BY <1>1, <1>2, <1>5 DEF MemInv, InfoOk

(* hardware_setup leaves the memory of the page alone.                     *)
LEMMA StepHardware ==
    ASSUME MemInv, hardware_setup
    PROVE  MemInv'
<1>1. cpc = "hardware" /\ cpc' = "linux" /\ boot' = boot /\ rm' = [rm EXCEPT !.masked = TRUE] /\ info' = info
  BY DEF hardware_setup
<1>2. InfoOk /\ boot \in Boots /\ LoaderFlags /\ FirmwareFlags /\ MemoryReported
  BY <1>1 DEF MemInv
<1>3. PageOk(rm) /\ Reports(rm, FirmwareRanges \o LoaderRanges, FirmwareSizes \cup LoaderSizes)
  BY <1>2 DEF MemoryReported, Reports
<1>4. /\ DOMAIN rm' = DOMAIN rm /\ rm'.e820_map = rm.e820_map /\ rm'.alt_mem_k = rm.alt_mem_k
      /\ rm'.ext_mem_k = rm.ext_mem_k /\ rm' = [f \in DOMAIN rm' |-> rm'[f]]
  BY <1>1, <1>3 DEF PageOk
<1>5. KeepsMemory(rm, rm')
  BY <1>3, <1>4 DEF KeepsMemory, PageOk
<1>6. Reports(rm', FirmwareRanges \o LoaderRanges, FirmwareSizes \cup LoaderSizes)
  BY <1>3, <1>5, KeepsReports
<1>7. SameMachine
  BY <1>1 DEF SameMachine
<1>8. MemoryReported' /\ LoaderFlags' /\ FirmwareFlags'
  BY <1>2, <1>6, <1>7, MemoryNext
<1> QED
  BY <1>1, <1>2, <1>8 DEF MemInv, InfoOk

(* convert_multiboot: its ranges and its size are used only if the         *)
(* firmware knew of no RAM.                                                *)
LEMMA StepMultiboot ==
    ASSUME MemInv, convert_multiboot
    PROVE  MemInv'
<1> DEFINE mb == boot.data
           need == info.need_mem_sizes
           FR == FirmwareRanges
           FS == FirmwareSizes
           k == (mb.mem_upper + OneM) % (HugeK + 1)
           MS == IF need /\ "mem" \in mb.flags THEN {AboveOneM(k)} ELSE {}
           a == IF need /\ "mem" \in mb.flags THEN set_memsize_k(rm, k) ELSE rm
           b == IF "cmdline" \in mb.flags THEN append_command_line(a, mb.command_line, -1) ELSE a
           left_need == need /\ mb.flags \cap {"mem", "mmap"} = {}
<1>1. /\ cpc = "bootloader" /\ cpc' \in {"hung", "hardware"} /\ boot' = boot /\ info.has_multiboot
      /\ rm' = IF need /\ "mmap" \in mb.flags THEN AddAll(b, mb.mmap) ELSE b
      /\ info' = [info EXCEPT !.need_mem_sizes = left_need]
  BY DEF convert_multiboot, MultibootPage, convert_multiboot_memmap
<1>2. InfoOk /\ boot \in Boots /\ LoaderFlags /\ FirmwareFlags /\ FirmwareReported
  BY <1>1 DEF MemInv
<1>3. boot.type = "multiboot" /\ ~info.has_uniform_boot
  BY <1>1, <1>2 DEF LoaderFlags
<1>4. mb.mmap \in Seq(e820entry) /\ mb.mem_upper \in Nat
  BY <1>2, <1>3, BootTypes
<1>5. k \in Nat
  <2> DEFINE s == mb.mem_upper + OneM
             m == HugeK + 1
  <2>1. s \in Nat /\ m \in Nat \ {0}
    BY <1>4, Limits
  <2> HIDE DEF s, m
  <2>2. s % m \in 0 .. m - 1
    BY <2>1, DivMod
  <2>3. s % m \in Nat
    BY <2>1, <2>2
  <2> QED
    BY <2>3 DEF s, m
<1>6. PageOk(rm) /\ Reports(rm, FR, FS) /\ need = ~FirmwareKnows /\ FR \in Seq(e820entry)
  BY <1>2, FirmwareTypes DEF FirmwareReported, Reports
<1>7. Reports(a, FR, FS \cup MS)
  <2>1. CASE need /\ "mem" \in mb.flags
    <3>1. a = set_memsize_k(rm, k) /\ MS = {AboveOneM(k)}
      BY <2>1
    <3>2. /\ PageOk(a) /\ a.e820_map = rm.e820_map
          /\ \A S, told, ext : Sized(rm, S, told, ext) => Sized(a, S \cup {AboveOneM(k)}, told, ext)
      <4> HIDE DEF k, a, MS
      <4> QED
        BY <1>5, <1>6, <3>1, SetMemsize
    <3> HIDE DEF k, a, MS, FR, FS
    <3> QED
      BY <1>6, <3>1, <3>2 DEF Reports
  <2>2. CASE ~(need /\ "mem" \in mb.flags)
    <3>1. a = rm /\ MS = {}
      BY <2>2
    <3>2. FS \cup MS = FS
      BY <3>1
    <3> HIDE DEF a, MS, FR, FS
    <3> QED
      BY <1>6, <3>1, <3>2, Zenon
  <2> QED
    BY <2>1, <2>2
<1>8. Reports(b, FR, FS \cup MS)
  <2> HIDE DEF a, FR, FS, MS
  <2>0. PageOk(a)
    BY <1>7 DEF Reports
  <2>1. KeepsMemory(a, b)
    BY <2>0, LineKeepsMemory DEF KeepsMemory
  <2> HIDE DEF b
  <2> QED
    BY <1>7, <2>1, KeepsReports
<1>9. SameMachine /\ DOMAIN info' = DOMAIN NoInfo
  <2> HIDE DEF left_need
  <2> QED
    BY <1>1, <1>2 DEF SameMachine, InfoOk, NoInfo
<1>10. LoaderRanges = (IF need /\ "mmap" \in mb.flags THEN mb.mmap ELSE <<>>)
       /\ LoaderSizes = RamSizes(LoaderRanges) \cup MS
  BY <1>1, <1>3, <1>6 DEF LoaderRanges, LoaderSizes
<1>11. Reports(rm', FR \o LoaderRanges, FS \cup LoaderSizes)
  <2> HIDE DEF b, FR, FS, MS, need, mb
  <2>1. CASE need /\ "mmap" \in mb.flags
    <3>1. rm' = AddAll(b, mb.mmap) /\ LoaderRanges = mb.mmap
      BY <1>1, <1>10, <2>1
    <3>2. Reports(rm', FR \o mb.mmap, (FS \cup MS) \cup RamSizes(mb.mmap))
      BY <1>4, <1>6, <1>8, <3>1, AddReports
    <3>3. (FS \cup MS) \cup RamSizes(mb.mmap) = FS \cup LoaderSizes
      BY <1>10, <3>1
    <3> QED
      BY <3>1, <3>2, <3>3, Zenon
  <2>2. CASE ~(need /\ "mmap" \in mb.flags)
    <3>1. rm' = b /\ LoaderRanges = <<>>
      BY <1>1, <1>10, <2>2
    <3>2. FR \o <<>> = FR
      BY <1>6, ConcatEmptySeq
    <3>3. FS \cup MS = FS \cup LoaderSizes
      BY <1>10, <3>1, RamSizesNone
    <3> QED
      BY <1>8, <3>1, <3>2, <3>3, Zenon
  <2> QED
    BY <2>1, <2>2
<1>12. MemoryReported' /\ LoaderFlags' /\ FirmwareFlags'
  BY <1>2, <1>9, <1>11, MemoryNext
<1>13. CASE cpc' = "hardware"
  BY <1>1, <1>2, <1>9, <1>12, <1>13 DEF MemInv, InfoOk
<1>14. CASE cpc' = "hung"
  BY <1>1, <1>2, <1>9, <1>14 DEF MemInv, InfoOk
<1> QED
  BY <1>1, <1>13, <1>14

(* Only one element of a set of numbers is the least.                      *)
LEMMA FirstIs ==
    ASSUME NEW S, S \subseteq Nat, NEW x \in S, \A i \in S : x <= i
    PROVE  (CHOOSE k \in S : \A i \in S : k <= i) = x
<1> DEFINE c == CHOOSE k \in S : \A i \in S : k <= i
<1>1. c \in S /\ \A i \in S : c <= i
  BY FirstOf
<1> HIDE DEF c
<1>2. c \in Nat /\ x \in Nat /\ c <= x /\ x <= c
  BY <1>1
<1>3. c = x
  BY <1>2
<1> QED
  BY <1>3 DEF c

(* The first memory record that is met settles the ranges.                 *)
LEMMA UbeStep ==
    ASSUME NEW d, d.env \in Seq(TableRecord), NEW j \in 0 .. Len(d.env), j + 1 \in 1 .. Len(d.env)
    PROVE  /\ (d.env[j + 1].tag = "memory" /\ MemoryUpTo(d.env, j) = {}
               => UbeUpTo(d, j + 1) = Prefix(Typed(d.env[j + 1].map, UbeType), E820MAX))
           /\ (d.env[j + 1].tag # "memory" \/ MemoryUpTo(d.env, j) # {} => UbeUpTo(d, j + 1) = UbeUpTo(d, j))
           /\ (MemoryUpTo(d.env, j + 1) = {}) <=> (MemoryUpTo(d.env, j) = {} /\ d.env[j + 1].tag # "memory")
           /\ MemoryUpTo(d.env, 0) = {}
<1> DEFINE m == MemoryUpTo(d.env, j)
           mm == MemoryUpTo(d.env, j + 1)
           First(S) == CHOOSE k \in S : \A i \in S : k <= i
           Cut(k) == Prefix(Typed(d.env[k].map, UbeType), E820MAX)
<1>0. j \in Nat /\ \A k : k \in 1 .. j + 1 <=> k \in 1 .. j \/ k = j + 1
  OBVIOUS
<1>1. mm = IF d.env[j + 1].tag = "memory" THEN m \cup {j + 1} ELSE m
  BY <1>0, Zenon DEF MemoryUpTo
<1>2. m \subseteq Nat /\ mm \subseteq Nat /\ \A k \in m : k < j + 1
  BY <1>0 DEF MemoryUpTo
<1>3. /\ UbeUpTo(d, j) = IF m = {} THEN <<>> ELSE Cut(First(m))
      /\ UbeUpTo(d, j + 1) = IF mm = {} THEN <<>> ELSE Cut(First(mm))
  BY Zenon DEF UbeUpTo
<1>4. MemoryUpTo(d.env, 0) = {}
  BY DEF MemoryUpTo
<1> HIDE DEF m, mm, Cut
<1>5. ASSUME d.env[j + 1].tag = "memory", m = {} PROVE UbeUpTo(d, j + 1) = Cut(j + 1)
  <2>1. mm = {j + 1}
    BY <1>1, <1>5
  <2>2. First(mm) = j + 1
    BY <1>0, <1>2, <2>1, FirstIs
  <2> QED
    BY <1>3, <2>1, <2>2
<1>6. ASSUME d.env[j + 1].tag = "memory", m # {} PROVE UbeUpTo(d, j + 1) = UbeUpTo(d, j)
  <2>1. mm = m \cup {j + 1}
    BY <1>1, <1>6
  <2> DEFINE c == First(m)
  <2>2. c \in m /\ \A i \in m : c <= i
    BY <1>2, <1>6, FirstOf
  <2>c. c = First(m)
    OBVIOUS
  <2> HIDE DEF c
  <2>3. c \in mm /\ \A i \in mm : c <= i
    BY <1>0, <1>2, <2>1, <2>2
  <2>4. First(mm) = c
    BY <1>2, <2>3, FirstIs
  <2> QED
    BY <1>3, <1>6, <2>3, <2>4, <2>c
<1>7. ASSUME d.env[j + 1].tag # "memory" PROVE UbeUpTo(d, j + 1) = UbeUpTo(d, j)
  BY <1>1, <1>3, <1>7
<1>8. (mm = {}) <=> (m = {} /\ d.env[j + 1].tag # "memory")
  BY <1>1
<1> QED
  BY <1>4, <1>5, <1>6, <1>7, <1>8 DEF m, mm, Cut

(* convert_uniform_boot: the walk over the environment starts.             *)
LEMMA StepUniformBoot ==
    ASSUME MemInv, convert_uniform_boot
    PROVE  MemInv'
<1> DEFINE d == boot.data
<1>1. /\ cpc = "bootloader" /\ cpc' = "uniform" /\ boot' = boot /\ info' = info /\ info.has_uniform_boot
      /\ rm' = rm \/ rm' = append_command_line(rm, d.arg, d.arg_bytes)
      /\ todo' = d.env /\ rest' = d.env_bytes
  BY DEF convert_uniform_boot
<1>2. InfoOk /\ boot \in Boots /\ LoaderFlags /\ FirmwareFlags /\ FirmwareReported
  BY <1>1 DEF MemInv
<1>3. boot.type = "uniform"
  BY <1>1, <1>2 DEF LoaderFlags
<1>4. d.env \in Seq(TableRecord) /\ Walkable(d.env, d.env_bytes) /\ d.env_bytes \in Nat
  BY <1>2, <1>3, BootTypes DEF Walkable
<1>5. PageOk(rm) /\ Reports(rm, FirmwareRanges, FirmwareSizes) /\ info.need_mem_sizes = ~FirmwareKnows
      /\ FirmwareRanges \in Seq(e820entry)
  BY <1>2, FirmwareTypes DEF FirmwareReported, Reports
<1>6. KeepsMemory(rm, rm')
  <2>1. CASE rm' = rm
    BY <1>5, <2>1 DEF KeepsMemory
  <2>2. CASE rm' = append_command_line(rm, d.arg, d.arg_bytes)
    BY <1>5, <2>2, LineKeepsMemory
  <2> QED
    BY <1>1, <2>1, <2>2
<1>7. Reports(rm', FirmwareRanges, FirmwareSizes)
  BY <1>5, <1>6, KeepsReports
<1>8. Walked(d.env, d.env_bytes, 0, d.env, d.env_bytes)
  BY <1>4, RecordTypes, WalkStart
<1>9. MemoryUpTo(d.env, 0) = {} /\ 0 \in 0 .. Len(d.env)
  BY <1>8 DEF MemoryUpTo, Walked
<1>10. UbeKnown(d, 0) = <<>>
  BY <1>9, Zenon DEF UbeKnown, UbeUpTo
<1>11. /\ FirmwareRanges \o <<>> = FirmwareRanges /\ RamSizes(<<>>) = {} /\ FirmwareSizes \cup {} = FirmwareSizes
  BY <1>5, ConcatEmptySeq, RamSizesNone
<1>12. Reports(rm', FirmwareRanges \o UbeKnown(d, 0), FirmwareSizes \cup RamSizes(UbeKnown(d, 0)))
  BY <1>7, <1>10, <1>11, Zenon
<1>13. SameMachine
  BY <1>1 DEF SameMachine
<1>14. /\ FirmwareRanges' = FirmwareRanges /\ FirmwareSizes' = FirmwareSizes /\ FirmwareKnows' = FirmwareKnows
       /\ Told' = Told /\ ToldExt' = ToldExt /\ LoaderFlags' = LoaderFlags /\ FirmwareFlags' = FirmwareFlags
  BY <1>13, SameSources
<1>15. info'.need_mem_sizes = (~FirmwareKnows' /\ MemoryUpTo(d.env, 0) = {})
  BY <1>1, <1>5, <1>9, <1>14
<1>16. \A k \in 1 .. 0 : d.env[k].size # 0
  OBVIOUS
<1>17. boot'.data = d
  BY <1>1
<1> HIDE DEF d
<1>18. /\ PageOk(rm') /\ rm'.e820_map = Prefix(FirmwareRanges \o UbeKnown(d, 0), E820MAX)
       /\ Sized(rm', FirmwareSizes \cup RamSizes(UbeKnown(d, 0)), Told, ToldExt)
  BY <1>12 DEF Reports
<1>19. /\ PageOk(rm') /\ rm'.e820_map = Prefix(FirmwareRanges' \o <<>>, E820MAX)
       /\ Sized(rm', FirmwareSizes' \cup RamSizes(<<>>), Told', ToldExt')
  BY <1>10, <1>14, <1>18, Zenon
<1>20. (IF FirmwareKnows' THEN <<>> ELSE UbeUpTo(d, 0)) = <<>>
  BY <1>9, Zenon DEF UbeUpTo
<1>21. UniformSoFar'
  BY <1>1, <1>8, <1>9, <1>15, <1>16, <1>17, <1>19, <1>20, Zenon DEF UniformSoFar, Reports, UbeKnown
<1> QED
  BY <1>1, <1>2, <1>14, <1>21 DEF MemInv, InfoOk

(* One record of the environment of a uniform boot loader: the first       *)
(* memory record is used, if the firmware knew of no RAM.                  *)
LEMMA StepUniformRecord ==
    ASSUME MemInv, UniformRecord
    PROVE  MemInv'
<1> DEFINE d == boot.data
           r == todo[1]
           n == d.env_bytes
           N == Len(d.env)
           FR == FirmwareRanges
           FS == FirmwareSizes
           K(j) == UbeKnown(d, j)
<1>1. /\ cpc = "uniform" /\ boot' = boot /\ rest > 0
      /\ IF r.tag = "memory" /\ info.need_mem_sizes
         THEN /\ rm' = convert_uniform_boot_memory(rm, r) /\ info' = [info EXCEPT !.need_mem_sizes = FALSE]
         ELSE rm' = rm /\ info' = info
      /\ rest' = rest - r.size /\ todo' = Tail(todo)
      /\ cpc' = IF r.size \in 1 .. rest THEN "uniform" ELSE "hung"
  BY DEF UniformRecord
<1>2. InfoOk /\ boot \in Boots /\ LoaderFlags /\ FirmwareFlags /\ UniformSoFar
  BY <1>1 DEF MemInv
<1>3. info.has_uniform_boot /\ boot.type = "uniform"
  BY <1>2 DEF LoaderFlags, UniformSoFar
<1>4. d.env \in Seq(TableRecord) /\ Walkable(d.env, n) /\ n \in Nat
  BY <1>2, <1>3, BootTypes DEF Walkable
<1>5. PICK j \in 0 .. N :
         /\ Walked(d.env, n, j, todo, rest) /\ \A k \in 1 .. j : d.env[k].size # 0
         /\ Reports(rm, FR \o K(j), FS \cup RamSizes(K(j)))
         /\ info.need_mem_sizes = (~FirmwareKnows /\ MemoryUpTo(d.env, j) = {})
  BY <1>2, Zenon DEF UniformSoFar
<1>6. N \in Nat /\ DOMAIN d.env = 1 .. N
  BY <1>4, LenProperties
<1>7. j < N
  <2>1. ASSUME j = N PROVE FALSE
    <3>1. ~Loops(d.env, n)
      BY <1>5, <1>6, <2>1 DEF Loops, Inside
    <3>2. n <= SizeUpTo(d.env, j)
      BY <1>4, <2>1, <3>1 DEF Walkable
    <3>3. rest = n - SizeUpTo(d.env, j)
      BY <1>5 DEF Walked
    <3>4. SizeUpTo(d.env, j) \in Nat
      BY <1>4, <1>5, RecordTypes, SizeSteps
    <3> HIDE DEF n
    <3> QED
      BY <1>1, <1>4, <3>2, <3>3, <3>4
  <2> QED
    BY <1>5, <1>6, <2>1
<1>8. /\ r = d.env[j + 1] /\ j + 1 \in 1 .. N /\ rest \in Nat
      /\ r.size <= rest => /\ j + 1 \in Inside(d.env, n)
                           /\ Walked(d.env, n, j + 1, Tail(todo), rest - r.size)
  <2>1. rest > 0 /\ Walked(d.env, n, j, todo, rest) /\ j < Len(d.env)
    BY <1>1, <1>5, <1>7
  <2> HIDE DEF d, n, r
  <2>2. /\ todo[1] = d.env[j + 1] /\ j + 1 \in 1 .. Len(d.env) /\ rest \in Nat
        /\ todo[1].size <= rest => /\ j + 1 \in Inside(d.env, n)
                                   /\ Walked(d.env, n, j + 1, Tail(todo), rest - todo[1].size)
    BY <1>4, <2>1, RecordTypes, WalkNext
  <2> QED
    BY <2>2, Zenon DEF r
<1>9. r \in TableRecord
  BY <1>4, <1>8, ElementOfSeq
<1>u. /\ (r.tag = "memory" /\ MemoryUpTo(d.env, j) = {}
           => UbeUpTo(d, j + 1) = Prefix(Typed(r.map, UbeType), E820MAX))
      /\ (r.tag # "memory" \/ MemoryUpTo(d.env, j) # {} => UbeUpTo(d, j + 1) = UbeUpTo(d, j))
      /\ (MemoryUpTo(d.env, j + 1) = {}) <=> (MemoryUpTo(d.env, j) = {} /\ r.tag # "memory")
  BY <1>4, <1>5, <1>8, UbeStep
<1>f. FR \in Seq(e820entry)
  BY <1>2, FirmwareTypes
<1> DEFINE More ==
             /\ Reports(rm', FR \o K(j + 1), FS \cup RamSizes(K(j + 1)))
             /\ info'.need_mem_sizes = (~FirmwareKnows /\ MemoryUpTo(d.env, j + 1) = {})
             /\ DOMAIN info' = DOMAIN NoInfo /\ SameMachine
<1>13. ASSUME r.tag = "memory", info.need_mem_sizes PROVE More
  <2>0. ~FirmwareKnows /\ MemoryUpTo(d.env, j) = {}
    BY <1>5, <1>13, Zenon
  <2>1. K(j) = <<>> /\ K(j + 1) = Prefix(Typed(r.map, UbeType), E820MAX)
    BY <1>u, <1>13, <2>0, Zenon DEF UbeKnown, UbeUpTo
  <2>2. K(j + 1) \in Seq(e820entry)
    BY <1>9, <2>1, RecordTypes, TypedRanges
  <2>3. rm' = AddAll(rm, K(j + 1))
    BY <1>1, <1>13, <2>1 DEF convert_uniform_boot_memory
  <2>i. DOMAIN info' = DOMAIN NoInfo /\ SameMachine /\ info'.need_mem_sizes = FALSE
    BY <1>1, <1>2, <1>13 DEF InfoOk, NoInfo, SameMachine
  <2>4. FR \o <<>> = FR /\ FS \cup RamSizes(<<>>) = FS
    BY <1>f, ConcatEmptySeq, RamSizesNone
  <2> HIDE DEF FR, FS, K
  <2>5. Reports(rm, FR, FS)
    BY <1>5, <2>1, <2>4, Zenon
  <2>6. Reports(rm', FR \o K(j + 1), FS \cup RamSizes(K(j + 1)))
    BY <1>f, <2>2, <2>3, <2>5, AddReports
  <2>7. FALSE = (~FirmwareKnows /\ MemoryUpTo(d.env, j + 1) = {})
    BY <1>u, <1>13
  <2> QED
    BY <2>6, <2>7, <2>i, Zenon
<1>14. ASSUME ~(r.tag = "memory" /\ info.need_mem_sizes) PROVE More
  <2>1. DOMAIN info' = DOMAIN NoInfo /\ SameMachine /\ info' = info /\ rm' = rm
    BY <1>1, <1>2, <1>14 DEF InfoOk, SameMachine
  <2>2. K(j + 1) = K(j)
    BY <1>5, <1>u, <1>14, Zenon DEF UbeKnown
  <2>3. info.need_mem_sizes = (~FirmwareKnows /\ MemoryUpTo(d.env, j + 1) = {})
    BY <1>5, <1>u, <1>14
  <2> HIDE DEF FR, FS, K
  <2> QED
    BY <1>5, <2>1, <2>2, <2>3, Zenon
<1>15. More
  BY <1>13, <1>14
<1>16. CASE r.size \notin 1 .. rest
  BY <1>1, <1>2, <1>15, <1>16 DEF MemInv, InfoOk
<1>17. CASE r.size \in 1 .. rest
  <2>1. /\ FirmwareRanges' = FirmwareRanges /\ FirmwareSizes' = FirmwareSizes /\ FirmwareKnows' = FirmwareKnows
        /\ Told' = Told /\ ToldExt' = ToldExt /\ LoaderFlags' = LoaderFlags /\ FirmwareFlags' = FirmwareFlags
    BY <1>15, SameSources
  <2>2. boot'.data = d /\ info'.has_uniform_boot /\ cpc' = "uniform"
    BY <1>1, <1>3, <1>15, <1>17 DEF SameMachine, NoInfo
  <2>3. Walked(d.env, n, j + 1, todo', rest') /\ j + 1 \in 0 .. N
    <3>1. r.size <= rest
      BY <1>8, <1>17
    <3> QED
      BY <1>1, <1>8, <3>1
  <2>4. \A k \in 1 .. j + 1 : d.env[k].size # 0
    <3>1. \A k \in 1 .. j + 1 : k \in 1 .. j \/ k = j + 1
      BY <1>5
    <3>2. r.size # 0
      BY <1>17
    <3> QED
      BY <1>5, <1>8, <3>1, <3>2, Zenon
  <2>5. info'.need_mem_sizes = (~FirmwareKnows' /\ MemoryUpTo(d.env, j + 1) = {})
    BY <1>15, <2>1
  <2>6. /\ PageOk(rm') /\ rm'.e820_map = Prefix(FirmwareRanges \o K(j + 1), E820MAX)
        /\ Sized(rm', FirmwareSizes \cup RamSizes(K(j + 1)), Told, ToldExt)
    BY <1>15 DEF Reports
  <2>7. (IF FirmwareKnows' THEN <<>> ELSE UbeUpTo(d, j + 1)) = K(j + 1)
    BY <2>1, Zenon DEF UbeKnown
  <2> HIDE DEF d, K
  <2>8. /\ PageOk(rm') /\ rm'.e820_map = Prefix(FirmwareRanges' \o K(j + 1), E820MAX)
        /\ Sized(rm', FirmwareSizes' \cup RamSizes(K(j + 1)), Told', ToldExt')
    BY <2>1, <2>6, Zenon
  <2>9. UniformSoFar'
    BY <2>2, <2>3, <2>4, <2>5, <2>7, <2>8, Zenon DEF UniformSoFar, Reports, UbeKnown, n, N
  <2> QED
    BY <1>1, <1>2, <1>15, <2>1, <2>2, <2>9 DEF MemInv, InfoOk
<1> QED
  BY <1>16, <1>17

(* The walk over the environment ends: the ranges of the boot loader are   *)
(* in the page.                                                            *)
LEMMA StepUniformEnd ==
    ASSUME MemInv, UniformEnd
    PROVE  MemInv'
<1> DEFINE d == boot.data
           n == d.env_bytes
           N == Len(d.env)
<1>1. cpc = "uniform" /\ cpc' = "hardware" /\ boot' = boot /\ rm' = rm /\ info' = info /\ rest = 0
  BY DEF UniformEnd
<1>2. InfoOk /\ boot \in Boots /\ LoaderFlags /\ FirmwareFlags /\ UniformSoFar
  BY <1>1 DEF MemInv
<1>3. info.has_uniform_boot /\ boot.type = "uniform" /\ ~info.has_multiboot
  <2>1. info.has_uniform_boot /\ boot.type = "uniform"
    BY <1>2 DEF LoaderFlags, UniformSoFar
  <2> QED
    BY <1>2, <2>1 DEF LoaderFlags
<1>4. d.env \in Seq(TableRecord) /\ n \in Nat
  BY <1>2, <1>3, BootTypes DEF Walkable
<1>5. PICK j \in 0 .. N :
         /\ Walked(d.env, n, j, todo, rest)
         /\ Reports(rm, FirmwareRanges \o UbeKnown(d, j), FirmwareSizes \cup RamSizes(UbeKnown(d, j)))
  BY <1>2, Zenon DEF UniformSoFar
<1>6. Inside(d.env, n) = 1 .. j
  <2>1. rest = n - SizeUpTo(d.env, j) /\ 1 .. j \subseteq Inside(d.env, n)
    BY <1>5 DEF Walked
  <2>2. SizeUpTo(d.env, j) \in Nat
    BY <1>4, <1>5, RecordTypes, SizeSteps
  <2> HIDE DEF n
  <2>3. n <= SizeUpTo(d.env, j)
    BY <1>1, <1>4, <2>1, <2>2
  <2> HIDE DEF d
  <2> QED
    BY <1>4, <1>5, <2>1, <2>3, RecordTypes, WalkedAll
<1>7. MemoryRecords(d.env, n) = MemoryUpTo(d.env, j)
  BY <1>6, Zenon DEF MemoryRecords, MemoryUpTo
<1>8. UbeRanges(d) = UbeUpTo(d, j)
  <2> HIDE DEF d
  <2>1. MemoryRecords(d.env, d.env_bytes) = MemoryUpTo(d.env, j)
    BY <1>7
  <2> DEFINE First(m) == CHOOSE k \in m : \A i \in m : k <= i
             Of(m) == IF m = {} THEN <<>> ELSE Prefix(Typed(d.env[First(m)].map, UbeType), E820MAX)
  <2>2. UbeRanges(d) = Of(MemoryRecords(d.env, d.env_bytes))
    BY Zenon DEF UbeRanges
  <2>3. UbeUpTo(d, j) = Of(MemoryUpTo(d.env, j))
    BY Zenon DEF UbeUpTo
  <2> HIDE DEF Of
  <2> QED
    BY <2>1, <2>2, <2>3, Zenon
<1>9. LoaderRanges = UbeKnown(d, j)
  BY <1>3, <1>8, Zenon DEF LoaderRanges, UbeKnown
<1>10. LoaderSizes = RamSizes(LoaderRanges)
  BY <1>3 DEF LoaderSizes
<1>11. SameMachine /\ Reports(rm', FirmwareRanges \o LoaderRanges, FirmwareSizes \cup LoaderSizes)
  BY <1>1, <1>5, <1>9, <1>10 DEF SameMachine
<1>12. MemoryReported' /\ LoaderFlags' /\ FirmwareFlags'
  BY <1>2, <1>11, MemoryNext
<1> QED
  BY <1>1, <1>2, <1>12 DEF MemInv, InfoOk

(* A step that leaves the converter alone.                                 *)
LEMMA MemInvStutters ==
    ASSUME MemInv, UNCHANGED cvars
    PROVE  MemInv'
<1>1. cpc' = cpc /\ boot' = boot /\ rm' = rm /\ info' = info /\ todo' = todo /\ rest' = rest
  BY DEF cvars
<1>2. SameMachine
  BY <1>1 DEF SameMachine
<1>3. /\ FirmwareRanges' = FirmwareRanges /\ LoaderRanges' = LoaderRanges
      /\ FirmwareSizes' = FirmwareSizes /\ LoaderSizes' = LoaderSizes
      /\ FirmwareKnows' = FirmwareKnows /\ Told' = Told /\ ToldExt' = ToldExt
      /\ LoaderFlags' = LoaderFlags /\ FirmwareFlags' = FirmwareFlags
  BY <1>2, SameSources
<1>4. TableSoFar' = TableSoFar
  BY <1>1, <1>3, Zenon DEF TableSoFar, Reports
<1>5. UniformSoFar' = UniformSoFar
  BY <1>1, <1>3, Zenon DEF UniformSoFar, Reports, UbeKnown
<1>6. FirmwareReported' = FirmwareReported /\ MemoryReported' = MemoryReported
  BY <1>1, <1>3, Zenon DEF FirmwareReported, MemoryReported, Reports
<1>7. FreshPage' = FreshPage /\ InfoOk' = InfoOk
  BY <1>1, Zenon DEF FreshPage, InfoOk
<1> QED
  BY <1>1, <1>3, <1>4, <1>5, <1>6, <1>7, Zenon DEF MemInv

(* The page always says what the converter has found so far.               *)
THEOREM MemInvHolds == Spec => []MemInv
<1>1. Init => MemInv
  BY DEF Init, MemInv, InfoOk
<1>2. MemInv /\ [Next]_vars => MemInv'
  <2> SUFFICES ASSUME MemInv, [Next]_vars PROVE MemInv'
    OBVIOUS
  <2>1. CASE Build
    BY <2>1, MemInvStutters DEF Build
  <2>2. CASE Load
    <3>1. cpc' = "loaded" /\ info' = info
      BY <2>2 DEF Load
    <3>2. InfoOk'
      BY <3>1 DEF MemInv, InfoOk
    <3> QED
      BY <3>1, <3>2 DEF MemInv
  <2>3. CASE Enter
    <3>1. cpc' = "startup" /\ info' = info /\ boot' \in Boots
      BY <2>3 DEF Enter
    <3>2. InfoOk'
      BY <3>1 DEF MemInv, InfoOk
    <3> QED
      BY <3>1, <3>2 DEF MemInv
  <2>4. CASE Convert
    <3>1. ConvertStep
      BY <2>4 DEF Convert
    <3> QED
      BY <3>1, StepInitialize, StepClass, StepFirmware, StepWalkLinuxBios, StepLinuxBiosRecord,
         StepLinuxBiosEnd, StepPcbios, StepNoFirmware, StepMultiboot, StepUniformBoot, StepUniformRecord,
         StepUniformEnd, StepElfBoot, StepElfNote, StepElfEnd, StepUnknownBootloader, StepHardware
         DEF ConvertStep
  <2>5. CASE UNCHANGED vars
    BY <2>5, MemInvStutters DEF vars
  <2> QED
    BY <2>1, <2>2, <2>3, <2>4, <2>5 DEF Next
<1> QED
  BY <1>1, <1>2, PTL DEF Spec

(* The largest of a set of sizes is the one no other passes.               *)
LEMMA LargestIs ==
    ASSUME NEW S, S \subseteq Int, NEW x \in S, \A y \in S : y <= x
    PROVE  Largest(S) = x
<1> DEFINE c == CHOOSE z \in S : \A y \in S : y <= z
<1>1. c \in S /\ \A y \in S : y <= c
  OBVIOUS
<1>2. Largest(S) = c
  BY Zenon DEF Largest
<1> HIDE DEF c
<1>3. c \in Int /\ x \in Int /\ c <= x /\ x <= c
  BY <1>1
<1> QED
  BY <1>2, <1>3

(* Linux is told of the memory that the firmware, or else the boot loader, *)
(* reports: for every machine, every table that can be walked and every    *)
(* limit of the page.                                                      *)
THEOREM MemoryToldRight == Spec => []MemoryAsReported
<1>1. MemInv => MemoryAsReported
  <2> SUFFICES ASSUME MemInv, cpc = "linux" PROVE MemoryAsReported
    BY Zenon DEF MemoryAsReported
  <2> DEFINE sizes == LoaderSizes \cup (IF info.has_linuxbios THEN RamSizes(FirmwareRanges) ELSE {})
             told == IF info.has_pcbios THEN boot.e801 ELSE 0
             best == Largest(sizes \cup {told})
  <2>1. MemoryReported
    BY DEF MemInv
  <2>2. /\ rm.e820_map = Prefix(FirmwareRanges \o LoaderRanges, E820MAX)
        /\ Sized(rm, FirmwareSizes \cup LoaderSizes, Told, ToldExt)
    BY <2>1 DEF MemoryReported, Reports
  <2>3. FirmwareSizes \cup LoaderSizes = sizes /\ Told = told
        /\ ToldExt = IF info.has_pcbios THEN boot.e88 ELSE 0
    BY DEF FirmwareSizes, Told, ToldExt
  <2>b. best = Largest(sizes \cup {told})
    OBVIOUS
  <2>g. MemoryAsReported <=>
           /\ rm.e820_map = Prefix(FirmwareRanges \o LoaderRanges, E820MAX)
           /\ rm.alt_mem_k = best
           /\ rm.ext_mem_k = IF best > told THEN ExtOf(best)
                             ELSE IF info.has_pcbios THEN boot.e88 ELSE 0
    BY Zenon DEF MemoryAsReported
  <2> HIDE DEF sizes, told, best
  <2>4. Sized(rm, sizes, told, ToldExt)
    BY <2>2, <2>3
  <2>5. best = rm.alt_mem_k
    BY <2>4, <2>b, LargestIs DEF Sized
  <2>6. rm.ext_mem_k = IF best > told THEN ExtOf(best) ELSE ToldExt
    BY <2>4, <2>5 DEF Sized
  <2> QED
    BY <2>2, <2>3, <2>5, <2>6, <2>g
<1> QED
  BY <1>1, MemInvHolds, PTL

-----------------------------------------------------------------------------
(* The assumptions on the builder's constants.                             *)
LEMMA Sizes ==
    /\ NumCells \in Nat \ {0} /\ NoteAlign \in Nat \ {0} /\ CMDLINE_MAX \in Nat \ {0}
    /\ Base \in Nat /\ Base > 4
    /\ SectorSize \in Nat /\ KernelLoc \in Nat /\ BzMemsz \in Nat /\ DEFAULT_RAMDISK_BASE \in Nat
    /\ CONVERTLOC \in Nat /\ REAL_MODE_DATA_LOC \in Nat /\ GDTLOC \in Nat
    /\ bss_size \in Nat /\ gdt_size \in Nat
    /\ REAL_MODE_DATA_LOC <= GDTLOC /\ Code \in Seq(Bytes)
BY BuilderAssumption, BaseAssumption

(* Total adds up a sequence of numbers.                                    *)
LEMMA TotalSteps ==
    ASSUME NEW f \in Seq(Nat)
    PROVE  /\ Total(f, 0) = 0
           /\ \A i \in 1 .. Len(f) : Total(f, i) = Total(f, i - 1) + f[i]
           /\ \A i \in 0 .. Len(f) : Total(f, i) \in Nat
           /\ \A i, j \in 0 .. Len(f) : i <= j => Total(f, i) <= Total(f, j)
<1> DEFINE N == Len(f)
           G == [x \in Nat \X (1 .. N) |-> x[1] + f[x[2]]]
           T[i \in 0 .. N] == IF i = 0 THEN 0 ELSE T[i - 1] + f[i]
<1>0. N \in Nat /\ \A i \in 1 .. N : f[i] \in Nat
  BY LenProperties, ElementOfSeq
<1>1. \A n : Total(f, n) = T[n]
  BY DEF Total
<1>a. N = Len(f)
  OBVIOUS
<1> HIDE DEF N
<1>3. G \in [Nat \X (1 .. N) -> Nat]
  BY <1>0
<1>5. PICK h \in [0 .. N -> Nat] : Recurs(h, N, 0, G)
  <2> HIDE DEF G
  <2> QED
    BY <1>0, <1>3, RecursExists
<1>6. h = [i \in 0 .. N |-> IF i = 0 THEN 0 ELSE h[i - 1] + f[i]]
  <2>1. h = [i \in 0 .. N |-> IF i = 0 THEN 0 ELSE G[<<h[i - 1], i>>]]
    BY <1>5 DEF Recurs
  <2>2. ASSUME NEW n \in 1 .. N PROVE G[<<h[n - 1], n>>] = h[n - 1] + f[n]
    <3>0. n - 1 \in 0 .. N
      BY <1>0
    <3>1. <<h[n - 1], n>> \in Nat \X (1 .. N)
      BY <1>5, <3>0
    <3> QED
      BY <3>1
  <2> HIDE DEF G
  <2>3. \A i \in 0 .. N : i = 0 \/ i \in 1 .. N
    BY <1>0
  <2>4. \A i \in 0 .. N : (IF i = 0 THEN 0 ELSE G[<<h[i - 1], i>>]) = IF i = 0 THEN 0 ELSE h[i - 1] + f[i]
    BY <2>2, <2>3, Zenon
  <2> QED
    BY <2>1, <2>4, Zenon
<1>7. T = [i \in 0 .. N |-> IF i = 0 THEN 0 ELSE T[i - 1] + f[i]]
  BY <1>6, Zenon
<1> HIDE DEF T
<1>8. \A i \in 0 .. N : T[i] = IF i = 0 THEN 0 ELSE T[i - 1] + f[i]
  BY <1>7
<1>9. T[0] = 0 /\ \A i \in 1 .. N : T[i] = T[i - 1] + f[i]
  BY <1>0, <1>8
<1> DEFINE Z == {i \in 0 .. N : T[i] \in Nat /\ \A k \in 0 .. i : T[k] \in Nat /\ T[k] <= T[i]}
<1>10. \A i \in 0 .. N : i \in Z
  <2>1. 0 \in Z
    BY <1>0, <1>9
  <2>2. ASSUME NEW i \in 0 .. N - 1, i \in Z PROVE i + 1 \in Z
    <3>1. i + 1 \in 1 .. N /\ (i + 1) - 1 = i /\ i + 1 \in 0 .. N /\ i \in Nat
      BY <1>0
    <3>2. T[i + 1] = T[i] + f[i + 1] /\ T[i] \in Nat
      BY <1>9, <2>2, <3>1
    <3>3. f[i + 1] \in Nat
      BY <1>0, <3>1
    <3>4. T[i + 1] \in Nat /\ T[i] <= T[i + 1]
      BY <3>2, <3>3
    <3>5. \A k \in 0 .. i + 1 : k \in 0 .. i \/ k = i + 1
      BY <3>1
    <3> QED
      BY <2>2, <3>1, <3>4, <3>5
  <2> HIDE DEF Z
  <2> QED
    BY <1>0, <2>1, <2>2, UpTo
<1>11. \A i \in 0 .. N : T[i] \in Nat
  BY <1>10
<1>12. \A i, j \in 0 .. N : i <= j => T[i] <= T[j]
  BY <1>0, <1>10
<1> QED
  BY <1>1, <1>9, <1>11, <1>12, <1>a

(* The powers of the base.                                                 *)
LEMMA PowerFacts ==
    /\ Power[0] = 1
    /\ \A i \in 1 .. NumCells : Power[i] = Base * Power[i - 1]
    /\ \A i \in 0 .. NumCells : Power[i] \in Nat \ {0}
<1> DEFINE N == NumCells
           V == Nat \ {0}
           G == [x \in V \X (1 .. N) |-> Base * x[1]]
<1>0. N \in Nat /\ Base \in Nat /\ Base > 1
  BY Sizes
<1>m. \A v \in V : Base * v \in V
  <2>1. ASSUME NEW v \in V PROVE Base * v \in V
    <3>1. Base * 1 <= Base * v /\ Base * v \in Nat
      BY <1>0, MultMonotone, MultType
    <3> QED
      BY <1>0, <3>1
  <2> QED
    BY <2>1
<1> HIDE DEF N
<1>2. G \in [V \X (1 .. N) -> V]
  BY <1>m
<1>v. 1 \in V
  OBVIOUS
<1>3. PICK h \in [0 .. N -> V] : Recurs(h, N, 1, G)
  BY <1>0, <1>2, <1>v, RecursExists
<1>4. h = [i \in 0 .. N |-> IF i = 0 THEN 1 ELSE Base * h[i - 1]]
  <2>1. h = [i \in 0 .. N |-> IF i = 0 THEN 1 ELSE G[<<h[i - 1], i>>]]
    BY <1>3, Zenon DEF Recurs
  <2>2. ASSUME NEW i \in 1 .. N PROVE G[<<h[i - 1], i>>] = Base * h[i - 1]
    <3>1. i - 1 \in 0 .. N
      BY <1>0
    <3>2. h[i - 1] \in V
      BY <1>3, <3>1
    <3> HIDE DEF V
    <3> QED
      BY <3>2
  <2> HIDE DEF G
  <2>3. \A i \in 0 .. N : i = 0 \/ i \in 1 .. N
    BY <1>0
  <2>4. \A i \in 0 .. N : (IF i = 0 THEN 1 ELSE G[<<h[i - 1], i>>]) = IF i = 0 THEN 1 ELSE Base * h[i - 1]
    BY <2>2, <2>3, Zenon
  <2> QED
    BY <2>1, <2>4, Zenon
<1>5. Power = [i \in 0 .. N |-> IF i = 0 THEN 1 ELSE Base * Power[i - 1]]
  BY <1>4, Zenon DEF Power, N
<1>b. 0 \in 0 .. N /\ \A i \in 1 .. N : i \in 0 .. N /\ i # 0
  BY <1>0
<1>6. \A i \in 0 .. N : Power[i] = IF i = 0 THEN 1 ELSE Base * Power[i - 1]
  BY <1>5
<1>7. Power[0] = 1 /\ \A i \in 1 .. N : Power[i] = Base * Power[i - 1]
  BY <1>6, <1>b, Zenon
<1>8. \A i \in 0 .. N : Power[i] \in V
  <2> DEFINE S == {i \in 0 .. N : Power[i] \in V}
  <2>1. 0 \in S
    BY <1>0, <1>7
  <2>2. ASSUME NEW i \in 0 .. N - 1, i \in S PROVE i + 1 \in S
    <3>1. i + 1 \in 1 .. N /\ (i + 1) - 1 = i /\ i + 1 \in 0 .. N
      BY <1>0
    <3>2. Power[i + 1] = Base * Power[i]
      BY <1>7, <3>1
    <3>3. Power[i] \in V
      BY <2>2
    <3> HIDE DEF V
    <3> QED
      BY <1>m, <3>1, <3>2, <3>3
  <2> HIDE DEF S
  <2>3. \A i \in 0 .. N : i \in S
    BY <1>0, <2>1, <2>2, UpTo
  <2> QED
    BY <2>3 DEF S
<1> QED
  BY <1>7, <1>8 DEF N, V

(* A number written in cells and read back is the number, if the cells     *)
(* hold it.                                                                *)
LEMMA ReadBack ==
    ASSUME NEW n \in Nat, n < Power[NumCells], NEW s, NEW at,
           \A i \in 1 .. NumCells : s[at + i] = cpu_to_elf(n)[i]
    PROVE  NumberAt(s, at) = n
<1> DEFINE N == NumCells
           d(i) == (n \div Power[i - 1]) % Base
           f == [i \in 1 .. N |-> d(i) * Power[i - 1]]
<1>0. N \in Nat /\ N > 0 /\ Base \in Nat \ {0}
  BY Sizes
<1>1. /\ Power[0] = 1 /\ \A i \in 1 .. N : Power[i] = Base * Power[i - 1]
      /\ \A i \in 0 .. N : Power[i] \in Nat \ {0}
  BY PowerFacts
<1>2. \A i \in 1 .. N : s[at + i] = d(i)
  BY DEF cpu_to_elf
<1>3. NumberAt(s, at) = Total(f, N)
  <2>1. [i \in 1 .. N |-> s[at + i] * Power[i - 1]] = f
    BY <1>2
  <2> QED
    BY <2>1, Zenon DEF NumberAt
<1>a. n < Power[N]
  OBVIOUS
<1> HIDE DEF N
<1>4. \A i \in 1 .. N : d(i) \in 0 .. Base - 1 /\ Power[i - 1] \in Nat \ {0} /\ d(i) * Power[i - 1] \in Nat
  <2>1. ASSUME NEW i \in 1 .. N
        PROVE d(i) \in 0 .. Base - 1 /\ Power[i - 1] \in Nat \ {0} /\ d(i) * Power[i - 1] \in Nat
    <3>1. i - 1 \in 0 .. N
      BY <1>0
    <3>2. Power[i - 1] \in Nat \ {0}
      BY <1>1, <3>1
    <3>3. n \div Power[i - 1] \in Nat
      BY <3>2, DivMod
    <3>4. d(i) \in 0 .. Base - 1
      BY <1>0, <3>3, DivMod
    <3> HIDE DEF d
    <3> QED
      BY <3>2, <3>4, MultType
  <2> QED
    BY <2>1
<1> HIDE DEF d
<1>5. f \in Seq(Nat) /\ Len(f) = N /\ \A i \in 1 .. N : f[i] = d(i) * Power[i - 1]
  <2>1. f \in [1 .. N -> Nat]
    BY <1>4
  <2> QED
    BY <1>0, <2>1, SeqDef
<1> HIDE DEF f
<1>6. /\ Total(f, 0) = 0 /\ \A i \in 0 .. N : Total(f, i) \in Nat
      /\ \A i \in 1 .. N : Total(f, i) = Total(f, i - 1) + f[i]
  BY <1>5, TotalSteps
<1> DEFINE S == {i \in 0 .. N : n % Power[i] = Total(f, i)}
<1>7. 0 \in S
  <2>1. n % 1 = 0
    OBVIOUS
  <2> QED
    BY <1>0, <1>1, <1>6, <2>1
<1>8. ASSUME NEW i \in 0 .. N - 1, i \in S PROVE i + 1 \in S
  <2> DEFINE p == Power[i]
             q == n \div p
             t == Total(f, i)
             e == q \div Base
             c == q % Base
  <2>1. i + 1 \in 1 .. N /\ (i + 1) - 1 = i /\ i + 1 \in 0 .. N /\ i \in 0 .. N
    BY <1>0
  <2>2. p \in Nat \ {0} /\ Power[i + 1] = Base * p /\ Power[i + 1] \in Nat \ {0}
    BY <1>1, <2>1
  <2>3. n % p = t /\ t \in Nat
    BY <1>6, <1>8, <2>1
  <2>4. q \in Nat /\ t \in 0 .. p - 1 /\ t = n - p * q
    BY <2>2, <2>3, DivMod
  <2>5. Total(f, i + 1) = t + c * p
    BY <1>5, <1>6, <2>1 DEF d
  <2> HIDE DEF q, p, t
  <2>6. e \in Nat /\ c \in 0 .. Base - 1 /\ c = q - Base * e
    BY <1>0, <2>4, DivMod
  <2> HIDE DEF e, c
  <2> DEFINE m == Base * p
             pc1 == p * c
             pq == p * q
             me == m * e
  <2>7. q = Base * e + c /\ Base * e \in Nat
    BY <1>0, <2>4, <2>6, MultType
  <2>8. p * (Base * e + c) = (Base * p) * e + p * c
    BY <1>0, <2>2, <2>6
  <2>9. pq = me + pc1
    BY <2>7, <2>8
  <2>10. p * c + p <= p * Base /\ c * p = p * c /\ p * Base = Base * p
    <3>1. p \in Nat /\ c \in Int /\ Base \in Int /\ p \in Int /\ c < Base
      BY <1>0, <2>2, <2>6
    <3>2. p * c + p <= p * Base
      BY <3>1, MultGap
    <3>3. c * p = p * c /\ p * Base = Base * p
      BY <3>1, MultType
    <3> QED
      BY <3>2, <3>3
  <2>11. pc1 \in Nat /\ pq \in Nat /\ me \in Nat /\ m \in Nat \ {0}
    BY <1>0, <2>2, <2>4, <2>6, MultType
  <2>12. pc1 + p <= m /\ c * p = pc1 /\ t = n - pq
    BY <2>4, <2>10
  <2>13. m = Power[i + 1] /\ me = m * e
    BY <2>2
  <2> HIDE DEF m, pc1, pq, me
  <2>14. n = me + (pc1 + t) /\ pc1 + t \in 0 .. m - 1
    BY <2>2, <2>4, <2>9, <2>11, <2>12
  <2>15. n = m * e + (pc1 + t)
    BY <2>13, <2>14
  <2>16. n % m = pc1 + t
    BY <2>6, <2>11, <2>14, <2>15, DivOf
  <2>17. Total(f, i + 1) = pc1 + t
    BY <2>4, <2>5, <2>11, <2>12, <2>2
  <2> QED
    BY <2>1, <2>13, <2>16, <2>17
<1> HIDE DEF S
<1>9. N \in S
  <2>1. \A i \in 0 .. N : i \in S
    BY <1>0, <1>7, <1>8, UpTo
  <2> QED
    BY <1>0, <2>1
<1>10. n % Power[N] = n
  <2>1. Power[N] \in Nat \ {0}
    BY <1>0, <1>1
  <2>2. n \in 0 .. Power[N] - 1
    BY <1>a, <2>1
  <2> QED
    BY <2>1, <2>2, SmallMod
<1> QED
  BY <1>3, <1>9, <1>10 DEF S

(* A function on 1 .. n is a sequence of length n.                         *)
LEMMA FunctionIsSeq ==
    ASSUME NEW S, NEW n \in Nat, NEW f \in [1 .. n -> S]
    PROVE  f \in Seq(S) /\ Len(f) = n
BY SeqDef

(* Where the elements of two sequences in a row are.                       *)
LEMMA ConcatAt ==
    ASSUME NEW S, NEW a \in Seq(S), NEW b \in Seq(S)
    PROVE  /\ a \o b \in Seq(S) /\ Len(a \o b) = Len(a) + Len(b) /\ Len(a) \in Nat /\ Len(b) \in Nat
           /\ \A k \in 1 .. Len(a) : (a \o b)[k] = a[k]
           /\ \A k \in 1 .. Len(b) : (a \o b)[Len(a) + k] = b[k]
<1> DEFINE c == a \o b
           la == Len(a)
           lb == Len(b)
<1>1. la \in Nat /\ lb \in Nat
  BY LenProperties
<1>2. c \in Seq(S) /\ Len(c) = la + lb /\ \A i \in 1 .. la + lb : c[i] = IF i <= la THEN a[i] ELSE b[i - la]
  BY ConcatProperties
<1> HIDE DEF c, la, lb
<1>3. \A k \in 1 .. la : c[k] = a[k]
  BY <1>1, <1>2
<1>4. ASSUME NEW k \in 1 .. lb PROVE c[la + k] = b[k]
  <2> DEFINE i == la + k
  <2>1. i \in 1 .. la + lb /\ ~(i <= la) /\ i - la = k
    BY <1>1
  <2> HIDE DEF i
  <2>2. c[i] = b[i - la]
    BY <1>2, <2>1
  <2> QED
    BY <2>1, <2>2 DEF i
<1> QED
  BY <1>1, <1>2, <1>3, <1>4 DEF c, la, lb

(* Where the elements of joined sequences are.                             *)
Lens(f) == [k \in DOMAIN f |-> Len(f[k])]
JoinedWell(f) ==
    /\ Lens(f) \in Seq(Nat) /\ Len(Lens(f)) = Len(f)
    /\ \A i \in 0 .. Len(f) : Len(Joined(f, i)) = Total(Lens(f), i)
    /\ \A j \in 1 .. Len(f) : \A k \in 1 .. Len(f[j]) :
          /\ Total(Lens(f), j - 1) + k \in 1 .. Total(Lens(f), Len(f))
          /\ Joined(f, Len(f))[Total(Lens(f), j - 1) + k] = f[j][k]

(* They are where the lengths of those before put them.                    *)
LEMMA JoinedAt ==
    ASSUME NEW S, NEW f \in Seq(Seq(S))
    PROVE  Joined(f, Len(f)) \in Seq(S) /\ JoinedWell(f)
<1> DEFINE N == Len(f)
           J(i) == Joined(f, i)
           len == Lens(f)
           T(i) == Total(len, i)
<1>0. N \in Nat /\ DOMAIN f = 1 .. N /\ \A i \in 1 .. N : f[i] \in Seq(S) /\ Len(f[i]) \in Nat
  BY LenProperties, ElementOfSeq
<1>1. /\ J(0) = <<>> /\ \A i \in 1 .. N : J(i) = J(i - 1) \o f[i]
      /\ \A i \in 0 .. N : J(i) \in Seq(S)
  BY JoinedSteps
<1>a. N = Len(f)
  OBVIOUS
<1> HIDE DEF N
<1>2. len \in Seq(Nat) /\ Len(len) = N /\ \A i \in 1 .. N : len[i] = Len(f[i])
  <2>1. len \in [1 .. N -> Nat] /\ \A i \in 1 .. N : len[i] = Len(f[i])
    BY <1>0 DEF Lens
  <2> QED
    BY <1>0, <2>1, SeqDef
<1>3. /\ T(0) = 0 /\ \A i \in 1 .. N : T(i) = T(i - 1) + len[i]
      /\ \A i \in 0 .. N : T(i) \in Nat
      /\ \A i, j \in 0 .. N : i <= j => T(i) <= T(j)
  BY <1>2, TotalSteps
<1>l. len = Lens(f)
  OBVIOUS
<1> HIDE DEF J, T, len
<1> DEFINE Good(i) == \A j \in 1 .. i : \A k \in 1 .. Len(f[j]) : J(i)[T(j - 1) + k] = f[j][k]
           Z == {i \in 0 .. N : Len(J(i)) = T(i) /\ Good(i)}
<1>4. 0 \in Z
  <2>1. Len(<<>>) = 0 /\ 1 .. 0 = {} /\ 0 \in 0 .. N
    BY <1>0
  <2> QED
    BY <1>1, <1>3, <2>1
<1>5. ASSUME NEW i \in 0 .. N - 1, i \in Z PROVE i + 1 \in Z
  <2>1. i + 1 \in 1 .. N /\ (i + 1) - 1 = i /\ i + 1 \in 0 .. N /\ i \in 0 .. N
    BY <1>0
  <2> DEFINE a == J(i)
             b == f[i + 1]
  <2>2. J(i + 1) = a \o b /\ a \in Seq(S) /\ b \in Seq(S)
    BY <1>0, <1>1, <2>1
  <2>3. Len(a) = T(i) /\ Good(i)
    BY <1>5
  <2>4. T(i + 1) = T(i) + Len(b) /\ T(i) \in Nat
    BY <1>2, <1>3, <2>1
  <2>b. b = f[i + 1] /\ a = J(i)
    OBVIOUS
  <2> HIDE DEF a, b
  <2>5. /\ Len(a \o b) = Len(a) + Len(b)
        /\ \A k \in 1 .. Len(a) : (a \o b)[k] = a[k]
        /\ \A k \in 1 .. Len(b) : (a \o b)[Len(a) + k] = b[k]
    BY <2>2, ConcatAt
  <2>6. ASSUME NEW j \in 1 .. i + 1, NEW k \in 1 .. Len(f[j]) PROVE J(i + 1)[T(j - 1) + k] = f[j][k]
    <3>1. CASE j = i + 1
      <4>1. T(j - 1) = Len(a) /\ f[j] = b
        BY <2>1, <2>3, <2>b, <3>1
      <4>2. (a \o b)[Len(a) + k] = b[k]
        BY <2>5, <4>1
      <4> QED
        BY <2>2, <4>1, <4>2
    <3>2. CASE j \in 1 .. i
      <4> DEFINE x == T(j - 1) + k
      <4>1. j \in 1 .. N /\ j - 1 \in 0 .. N /\ j \in 0 .. N /\ j <= i
        BY <1>0, <2>1, <3>2
      <4>2. T(j) = T(j - 1) + Len(f[j]) /\ T(j - 1) \in Nat /\ T(j) <= T(i) /\ Len(f[j]) \in Nat
        BY <1>0, <1>2, <1>3, <2>1, <4>1
      <4>a. k \in Nat /\ 1 <= k /\ k <= Len(f[j])
        BY <4>2
      <4> DEFINE u == T(j - 1)
                 v == Len(f[j])
                 w == T(i)
      <4>b. u + v <= w /\ u \in Nat /\ v \in Nat /\ w \in Nat /\ k <= v /\ x = u + k /\ Len(a) = w
        BY <2>3, <2>4, <4>a, <4>2
      <4> HIDE DEF u, v, w
      <4>3. x \in 1 .. Len(a)
        BY <4>a, <4>b
      <4>4. a[x] = f[j][k]
        BY <2>3, <2>b, <3>2
      <4> HIDE DEF x
      <4>5. (a \o b)[x] = a[x]
        BY <2>5, <4>3
      <4> QED
        BY <2>2, <4>4, <4>5 DEF x
    <3> QED
      BY <2>1, <3>1, <3>2
  <2> QED
    BY <2>1, <2>2, <2>3, <2>4, <2>5, <2>6
<1> HIDE DEF Z
<1>6. \A i \in 0 .. N : i \in Z
  BY <1>0, <1>4, <1>5, UpTo
<1> HIDE DEF Good
<1>7. N \in 0 .. N /\ \A i \in 0 .. N : Len(J(i)) = T(i) /\ Good(i)
  BY <1>0, <1>6 DEF Z
<1>8. ASSUME NEW j \in 1 .. N, NEW k \in 1 .. Len(f[j])
      PROVE T(j - 1) + k \in 1 .. T(N) /\ J(N)[T(j - 1) + k] = f[j][k]
  <2>1. j - 1 \in 0 .. N /\ j \in 0 .. N /\ j <= N
    BY <1>0
  <2>2. T(j) = T(j - 1) + Len(f[j]) /\ T(j - 1) \in Nat /\ T(j) <= T(N) /\ Len(f[j]) \in Nat /\ T(N) \in Nat
    BY <1>0, <1>2, <1>3, <1>7, <2>1
  <2>3. Good(N)
    BY <1>7
  <2> QED
    BY <2>2, <2>3 DEF Good
<1>9. J(N) \in Seq(S)
  BY <1>1, <1>7
<1> QED
  BY <1>a, <1>l, <1>2, <1>7, <1>8, <1>9 DEF J, T, JoinedWell

(* The total of equal numbers.                                             *)
LEMMA TotalOfEqual ==
    ASSUME NEW f \in Seq(Nat), NEW c \in Nat, \A i \in 1 .. Len(f) : f[i] = c
    PROVE  \A i \in 0 .. Len(f) : Total(f, i) = c * i
<1> DEFINE N == Len(f)
           Z == {i \in 0 .. N : Total(f, i) = c * i}
<1>0. N \in Nat
  BY LenProperties
<1>1. /\ Total(f, 0) = 0 /\ \A i \in 1 .. N : Total(f, i) = Total(f, i - 1) + f[i]
  BY TotalSteps
<1>a. N = Len(f)
  OBVIOUS
<1> HIDE DEF N
<1>2. 0 \in Z
  BY <1>0, <1>1
<1>3. ASSUME NEW i \in 0 .. N - 1, i \in Z PROVE i + 1 \in Z
  <2>1. i + 1 \in 1 .. N /\ (i + 1) - 1 = i /\ i + 1 \in 0 .. N /\ i \in Nat
    BY <1>0
  <2>2. Total(f, i + 1) = c * i + c
    BY <1>a, <1>1, <1>3, <2>1
  <2>3. c * (i + 1) = c * i + c
    BY <2>1
  <2> QED
    BY <2>1, <2>2, <2>3
<1> HIDE DEF Z
<1>4. \A i \in 0 .. N : i \in Z
  BY <1>0, <1>2, <1>3, UpTo
<1> QED
  BY <1>4, <1>a DEF Z

-----------------------------------------------------------------------------
(* The cells of a number.                                                  *)
LEMMA NumberCells ==
    ASSUME NEW n \in Nat
    PROVE  cpu_to_elf(n) \in Seq(Bytes) /\ Len(cpu_to_elf(n)) = NumCells
<1>0. NumCells \in Nat /\ Base \in Nat \ {0}
  BY Sizes
<1>1. ASSUME NEW i \in 1 .. NumCells PROVE (n \div Power[i - 1]) % Base \in Bytes
  <2>1. i - 1 \in 0 .. NumCells
    BY <1>0
  <2>2. Power[i - 1] \in Nat \ {0}
    BY <2>1, PowerFacts
  <2>3. n \div Power[i - 1] \in Nat
    BY <2>2, DivMod
  <2> QED
    BY <1>0, <2>3, DivMod DEF Bytes
<1>2. cpu_to_elf(n) \in [1 .. NumCells -> Bytes]
  BY <1>1 DEF cpu_to_elf
<1> HIDE DEF Bytes
<1> QED
  BY <1>0, <1>2, SeqDef

(* A piece of a file, with zeros past its end.                             *)
LEMMA SliceFacts ==
    ASSUME NEW data \in Seq(Bytes), NEW offset \in Nat, NEW n \in Nat
    PROVE  /\ Slice(data, offset, n) \in Seq(Bytes) /\ Len(Slice(data, offset, n)) = n
           /\ \A i \in 1 .. n : Slice(data, offset, n)[i]
                                = IF offset + i \in DOMAIN data THEN data[offset + i] ELSE 0
<1>0. 0 \in Bytes /\ DOMAIN data = 1 .. Len(data)
  BY Sizes, LenProperties DEF Bytes
<1> HIDE DEF Bytes
<1>1. \A i \in DOMAIN data : data[i] \in Bytes
  BY <1>0, ElementOfSeq
<1>2. Slice(data, offset, n) \in [1 .. n -> Bytes]
  BY <1>0, <1>1 DEF Slice
<1>3. \A i \in 1 .. n : Slice(data, offset, n)[i]
                        = IF offset + i \in DOMAIN data THEN data[offset + i] ELSE 0
  BY DEF Slice
<1> QED
  BY <1>2, <1>3, SeqDef

(* Four sequences in a row.                                                *)
InRow(w, a, b, c, d) ==
    /\ Len(w) = Len(a) + Len(b) + Len(c) + Len(d)
    /\ Len(a) \in Nat /\ Len(b) \in Nat /\ Len(c) \in Nat /\ Len(d) \in Nat
    /\ \A k \in 1 .. Len(a) : w[k] = a[k]
    /\ \A k \in 1 .. Len(b) : w[Len(a) + k] = b[k]
    /\ \A k \in 1 .. Len(c) : w[Len(a) + Len(b) + k] = c[k]
    /\ \A k \in 1 .. Len(d) : w[Len(a) + Len(b) + Len(c) + k] = d[k]

(* Their elements are where their lengths put them.                        *)
LEMMA FourInRow ==
    ASSUME NEW S, NEW a \in Seq(S), NEW b \in Seq(S), NEW c \in Seq(S), NEW d \in Seq(S)
    PROVE  a \o b \o c \o d \in Seq(S) /\ InRow(a \o b \o c \o d, a, b, c, d)
<1> DEFINE e == a \o b
           g == e \o c
           h == g \o d
           la == Len(a)
           lb == Len(b)
           lc == Len(c)
           ld == Len(d)
<1>1. /\ e \in Seq(S) /\ Len(e) = la + lb /\ la \in Nat /\ lb \in Nat
      /\ \A k \in 1 .. la : e[k] = a[k]
      /\ \A k \in 1 .. lb : e[la + k] = b[k]
  BY ConcatAt
<1>a. e \in Seq(S)
  BY <1>1
<1> HIDE DEF e
<1>2. /\ g \in Seq(S) /\ Len(g) = Len(e) + lc /\ lc \in Nat
      /\ \A k \in 1 .. Len(e) : g[k] = e[k]
      /\ \A k \in 1 .. lc : g[Len(e) + k] = c[k]
  BY <1>a, ConcatAt
<1>b. g \in Seq(S)
  BY <1>2
<1> HIDE DEF g
<1>3. /\ h \in Seq(S) /\ Len(h) = Len(g) + ld /\ ld \in Nat
      /\ \A k \in 1 .. Len(g) : h[k] = g[k]
      /\ \A k \in 1 .. ld : h[Len(g) + k] = d[k]
  BY <1>b, ConcatAt
<1> HIDE DEF h, la, lb, lc, ld
<1>4. ASSUME NEW k \in 1 .. la PROVE h[k] = a[k]
  BY <1>1, <1>2, <1>3
<1>5. ASSUME NEW k \in 1 .. lb PROVE h[la + k] = b[k]
  <2> DEFINE i == la + k
  <2>1. i \in 1 .. Len(e) /\ i \in 1 .. Len(g)
    BY <1>1, <1>2
  <2>2. e[i] = b[k]
    BY <1>1
  <2> HIDE DEF i
  <2>3. h[i] = g[i] /\ g[i] = e[i]
    BY <1>2, <1>3, <2>1
  <2> QED
    BY <2>2, <2>3 DEF i
<1>6. ASSUME NEW k \in 1 .. lc PROVE h[la + lb + k] = c[k]
  <2> DEFINE i == la + lb + k
  <2>1. i \in 1 .. Len(g) /\ i = Len(e) + k
    BY <1>1, <1>2
  <2> HIDE DEF i
  <2>2. g[i] = c[k]
    BY <1>2, <2>1
  <2>3. h[i] = g[i]
    BY <1>3, <2>1
  <2> QED
    BY <2>2, <2>3 DEF i
<1>7. ASSUME NEW k \in 1 .. ld PROVE h[la + lb + lc + k] = d[k]
  <2>1. la + lb + lc + k = Len(g) + k
    BY <1>1, <1>2
  <2> QED
    BY <1>3, <2>1
<1>8. Len(h) = la + lb + lc + ld
  BY <1>1, <1>2, <1>3
<1>9. a \o b \o c \o d = h
  BY DEF h, g, e
<1>10. InRow(h, a, b, c, d)
  BY <1>1, <1>2, <1>3, <1>4, <1>5, <1>6, <1>7, <1>8 DEF la, lb, lc, ld, InRow
<1> QED
  BY <1>3, <1>9, <1>10

-----------------------------------------------------------------------------
(* What the builder has read and parsed.                                   *)
KernelData == Kernels[kernel].data
RamdiskData == IF want.ramdisk = None THEN <<>> ELSE Ramdisks[want.ramdisk]

BufferedKernel ==
    /\ kernel \in DOMAIN Kernels
    /\ kbuf \in Seq(Bytes) /\ Len(kbuf) <= Len(KernelData)
    /\ \A k \in 1 .. Len(kbuf) : kbuf[k] = KernelData[k]

ParsedKernel ==
    /\ Len(kbuf) >= HeaderCells
    /\ \/ parser = "bzImage" /\ Header.format = "HdrS" /\ SetupCells(Header) <= Len(kbuf)
       \/ parser = "elf32" /\ Header.format = "ELF32"

Wanted ==
    /\ want.ramdisk \in DOMAIN Ramdisks \cup {None}
    /\ want.base \in Nat /\ want.cmdline \in Seq(Bytes \ {0})

BufferedRamdisk ==
    /\ rbuf \in Seq(Bytes) /\ left \in Nat /\ Len(rbuf) + left <= Len(RamdiskData)
    /\ \A k \in 1 .. Len(rbuf) : rbuf[k] = RamdiskData[k]

(* A segment in memory.                                                    *)
LoadPhdr == [type : {PT_LOAD}, paddr : Nat, data : Seq(Bytes), memsz : Nat]
NotePhdr == [type |-> PT_NOTE, paddr |-> 0, data |-> <<>>, memsz |-> 0]

Phdrs(e) ==
    /\ e \in Seq(LoadPhdr \cup {NotePhdr}) /\ Len(e) >= 3 /\ e[1] = NotePhdr
    /\ \A i \in 2 .. Len(e) : e[i] \in LoadPhdr

(* The header of a kernel whose format is known is the one of its file.    *)
LEMMA HeaderIs ==
    ASSUME BufferedKernel, ParsedKernel
    PROVE  /\ Header = Kernels[kernel].header /\ KernelData \in Seq(Bytes)
           /\ parser = "bzImage" => SetupCells(Header) \in Nat /\ SetupCells(Header) <= Len(kbuf)
                                    /\ Header.version \in Seq(Bytes) /\ Header.format = "HdrS"
           /\ parser # "bzImage" => Header.phdrs \in Seq(KernelPhdr) /\ Header.format = "ELF32"
<1>1. KernelFile(Kernels[kernel])
  BY BuilderAssumption DEF BufferedKernel
<1>2. Header = Kernels[kernel].header
  BY DEF ParsedKernel, Header
<1>3. ASSUME parser = "bzImage"
      PROVE  SetupCells(Header) \in Nat /\ SetupCells(Header) <= Len(kbuf)
             /\ Header.version \in Seq(Bytes) /\ Header.format = "HdrS"
  <2>1. Header.format = "HdrS" /\ SetupCells(Header) <= Len(kbuf)
    BY <1>3 DEF ParsedKernel
  <2>2. Header.setup_sects \in Nat /\ Header.version \in Seq(Bytes)
    BY <1>1, <1>2, <2>1 DEF KernelFile
  <2> DEFINE z == IF Header.setup_sects = 0 THEN 4 ELSE Header.setup_sects
  <2>3. z \in Nat /\ SectorSize \in Nat
    BY <2>2, Sizes
  <2>4. SetupCells(Header) = SectorSize + SectorSize * z
    BY DEF SetupCells
  <2> HIDE DEF z
  <2>5. SectorSize * z \in Nat
    BY <2>3, MultType
  <2> QED
    BY <2>1, <2>2, <2>3, <2>4, <2>5
<1>4. ASSUME parser # "bzImage"
      PROVE Header.phdrs \in Seq(KernelPhdr) /\ Header.format = "ELF32"
  BY <1>1, <1>2, <1>4 DEF KernelFile, ParsedKernel
<1> QED
  BY <1>1, <1>2, <1>3, <1>4 DEF KernelFile, KernelData

(* The segments of the kernel.                                             *)
LEMMA KernelPhdrs ==
    ASSUME BufferedKernel, ParsedKernel
    PROVE  parse_kernel \in Seq(LoadPhdr)
<1>0. kbuf \in Seq(Bytes) /\ Len(kbuf) \in Nat /\ KernelLoc \in Nat /\ BzMemsz \in Nat
  BY Sizes, LenProperties DEF BufferedKernel
<1>1. CASE parser = "bzImage"
  <2> DEFINE o == SetupCells(Header)
             d == Slice(kbuf, o, Len(kbuf) - o)
  <2>1. o \in Nat /\ Len(kbuf) - o \in Nat
    BY <1>0, <1>1, HeaderIs
  <2>2. d \in Seq(Bytes)
    BY <1>0, <2>1, SliceFacts
  <2>3. parse_kernel = <<Segment(KernelLoc, d, BzMemsz)>>
    BY <1>1 DEF parse_kernel, parse_bzImage_kernel
  <2> HIDE DEF d
  <2>4. Segment(KernelLoc, d, BzMemsz) \in LoadPhdr
    BY <1>0, <2>2 DEF Segment, LoadPhdr
  <2> HIDE DEF LoadPhdr
  <2> QED
    BY <2>3, <2>4
<1>2. CASE parser # "bzImage"
  <2> DEFINE ph == Header.phdrs
             f == [i \in DOMAIN ph |-> IF i \in Loads(Header) THEN <<ElfSegment(ph[i])>> ELSE <<>>]
  <2>1. ph \in Seq(KernelPhdr)
    BY <1>2, HeaderIs
  <2>2. parse_kernel = Joined(f, Len(ph))
    BY <1>2 DEF parse_kernel, parse_elf32_kernel
  <2>p. ph = Header.phdrs
    OBVIOUS
  <2> HIDE DEF ph
  <2>3. Len(ph) \in Nat /\ DOMAIN ph = 1 .. Len(ph) /\ \A i \in 1 .. Len(ph) : ph[i] \in KernelPhdr
    BY <2>1, LenProperties, ElementOfSeq
  <2>4. ASSUME NEW p \in KernelPhdr PROVE ElfSegment(p) \in LoadPhdr
    <3>1. p.paddr \in Nat /\ p.offset \in Nat /\ p.filesz \in Nat /\ p.memsz \in Nat
      BY DEF KernelPhdr
    <3> DEFINE d == Slice(kbuf, p.offset, p.filesz)
    <3>2. d \in Seq(Bytes)
      BY <1>0, <3>1, SliceFacts
    <3>3. ElfSegment(p) = Segment(p.paddr, d, p.memsz)
      BY DEF ElfSegment
    <3> HIDE DEF d
    <3> QED
      BY <3>1, <3>2, <3>3 DEF Segment, LoadPhdr
  <2> HIDE DEF LoadPhdr, KernelPhdr
  <2>5. \A i \in 1 .. Len(ph) : <<ElfSegment(ph[i])>> \in Seq(LoadPhdr)
    BY <2>3, <2>4
  <2>6. f \in [1 .. Len(ph) -> Seq(LoadPhdr)]
    BY <2>3, <2>5, EmptySeq
  <2>7. f \in Seq(Seq(LoadPhdr)) /\ Len(f) = Len(ph)
    BY <2>3, <2>6, SeqDef
  <2> HIDE DEF f
  <2>8. Len(ph) \in 0 .. Len(f)
    BY <2>3, <2>7
  <2> QED
    BY <2>2, <2>7, <2>8, JoinedSteps
<1> QED
  BY <1>1, <1>2

(* The ramdisk that was asked for.                                         *)
LEMMA RamdiskIs ==
    ASSUME Wanted
    PROVE  RamdiskData \in Seq(Bytes) /\ ramdisk_size = Len(RamdiskData) /\ ramdisk_size \in Nat
<1>1. RamdiskData \in Seq(Bytes)
  BY BuilderAssumption, EmptySeq DEF Wanted, RamdiskData
<1>2. ramdisk_size = Len(RamdiskData)
  BY EmptySeq DEF ramdisk_size, RamdiskData
<1> QED
  BY <1>1, <1>2, LenProperties

(* The payload: the converter and the parameters at its end.               *)
LEMMA PayloadIs ==
    ASSUME Wanted
    PROVE  LET l == Len(Code)
               start == IF ramdisk_size = 0 THEN 0 ELSE want.base
           IN /\ payload \in Seq(Bytes) /\ Len(payload) = l + 2 * NumCells + CMDLINE_MAX
              /\ l \in Nat /\ start \in Nat /\ ramdisk_size \in Nat
              /\ \A k \in 1 .. l : payload[k] = Code[k]
              /\ \A k \in 1 .. NumCells : payload[l + k] = cpu_to_elf(start)[k]
              /\ \A k \in 1 .. NumCells : payload[l + NumCells + k] = cpu_to_elf(ramdisk_size)[k]
              /\ \A k \in 1 .. CMDLINE_MAX : payload[l + 2 * NumCells + k] = ParamCmdline[k]
<1> DEFINE l == Len(Code)
           start == IF ramdisk_size = 0 THEN 0 ELSE want.base
           b == cpu_to_elf(start)
           c == cpu_to_elf(ramdisk_size)
           d == ParamCmdline
<1>0. Code \in Seq(Bytes) /\ NumCells \in Nat /\ CMDLINE_MAX \in Nat /\ 0 \in Bytes
  BY Sizes DEF Bytes
<1>1. ramdisk_size \in Nat /\ start \in Nat
  BY RamdiskIs DEF Wanted
<1>2. b \in Seq(Bytes) /\ Len(b) = NumCells /\ c \in Seq(Bytes) /\ Len(c) = NumCells
  BY <1>1, NumberCells
<1>3. d \in Seq(Bytes) /\ Len(d) = CMDLINE_MAX
  <2>1. \A i \in 1 .. Len(want.cmdline) : want.cmdline[i] \in Bytes \ {0}
    BY ElementOfSeq DEF Wanted
  <2>2. Len(want.cmdline) \in Nat
    BY LenProperties DEF Wanted
  <2> HIDE DEF Bytes
  <2>3. d \in [1 .. CMDLINE_MAX -> Bytes]
    BY <1>0, <2>1, <2>2 DEF ParamCmdline
  <2> QED
    BY <1>0, <2>3, SeqDef
<1>4. payload = Code \o b \o c \o d
  BY DEF payload
<1>t. Code \in Seq(Bytes) /\ b \in Seq(Bytes) /\ c \in Seq(Bytes) /\ d \in Seq(Bytes)
  BY <1>0, <1>2, <1>3
<1> DEFINE w == Code \o b \o c \o d
<1>v. Len(b) = NumCells /\ Len(c) = NumCells /\ Len(d) = CMDLINE_MAX
  BY <1>2, <1>3
<1>u. b = cpu_to_elf(start) /\ c = cpu_to_elf(ramdisk_size) /\ d = ParamCmdline
  OBVIOUS
<1> HIDE DEF b, c, d, start
<1>5. /\ w \in Seq(Bytes) /\ Len(w) = l + Len(b) + Len(c) + Len(d) /\ l \in Nat
      /\ \A k \in 1 .. l : w[k] = Code[k]
      /\ \A k \in 1 .. Len(b) : w[l + k] = b[k]
      /\ \A k \in 1 .. Len(c) : w[l + Len(b) + k] = c[k]
      /\ \A k \in 1 .. Len(d) : w[l + Len(b) + Len(c) + k] = d[k]
  <2>1. w \in Seq(Bytes) /\ InRow(w, Code, b, c, d)
    BY <1>t, FourInRow
  <2> QED
    BY <2>1 DEF InRow
<1> HIDE DEF w, l
<1>6. l + NumCells + NumCells + CMDLINE_MAX = l + 2 * NumCells + CMDLINE_MAX
      /\ \A k \in 1 .. CMDLINE_MAX : l + NumCells + NumCells + k = l + 2 * NumCells + k
  BY <1>0, <1>5
<1>7. payload = w
  BY <1>4 DEF w
<1>8. /\ payload \in Seq(Bytes) /\ Len(payload) = l + 2 * NumCells + CMDLINE_MAX
      /\ l \in Nat /\ start \in Nat /\ ramdisk_size \in Nat
      /\ \A k \in 1 .. l : payload[k] = Code[k]
  BY <1>1, <1>5, <1>6, <1>7, <1>v
<1>9. /\ \A k \in 1 .. NumCells : payload[l + k] = b[k]
      /\ \A k \in 1 .. NumCells : payload[l + NumCells + k] = c[k]
  BY <1>5, <1>7, <1>v
<1>10. \A k \in 1 .. CMDLINE_MAX : payload[l + 2 * NumCells + k] = d[k]
  BY <1>5, <1>6, <1>7, <1>v
<1> QED
  BY <1>8, <1>9, <1>10, <1>u, Zenon DEF l, start

(* The program headers that linux_i386_mkelf fills.                        *)
LEMMA EhdrIs ==
    ASSUME BufferedKernel, ParsedKernel, Wanted, BufferedRamdisk, Len(rbuf) = Len(RamdiskData)
    PROVE  /\ Phdrs(e_phdr)
           /\ e_phdr[2] = Segment(CONVERTLOC, payload, Len(payload) + bss_size)
           /\ e_phdr[3] = Segment(REAL_MODE_DATA_LOC, <<>>, GDTLOC - REAL_MODE_DATA_LOC + gdt_size)
           /\ \A k \in 1 .. Len(parse_kernel) :
                 3 + k \in 4 .. Len(e_phdr) /\ e_phdr[3 + k] = parse_kernel[k]
           /\ ramdisk_size # 0 => /\ Len(e_phdr) >= 4
                                  /\ e_phdr[Len(e_phdr)] = Segment(want.base, rbuf, ramdisk_size)
<1> DEFINE S == LoadPhdr \cup {NotePhdr}
           s2 == Segment(CONVERTLOC, payload, Len(payload) + bss_size)
           s3 == Segment(REAL_MODE_DATA_LOC, <<>>, GDTLOC - REAL_MODE_DATA_LOC + gdt_size)
           s4 == Segment(want.base, rbuf, ramdisk_size)
           a == <<NotePhdr, s2, s3>>
           b == parse_kernel
           r == IF ramdisk_size = 0 THEN <<>> ELSE <<s4>>
           c == a \o b
           e == c \o r
<1>1. s2 \in LoadPhdr
  <2>1. payload \in Seq(Bytes) /\ Len(payload) \in Nat /\ CONVERTLOC \in Nat /\ bss_size \in Nat
    BY PayloadIs, LenProperties, Sizes
  <2> QED
    BY <2>1 DEF Segment, LoadPhdr
<1>2. s3 \in LoadPhdr
  <2>1. GDTLOC - REAL_MODE_DATA_LOC + gdt_size \in Nat /\ REAL_MODE_DATA_LOC \in Nat /\ <<>> \in Seq(Bytes)
    BY Sizes, EmptySeq
  <2> QED
    BY <2>1 DEF Segment, LoadPhdr
<1>3. s4 \in LoadPhdr
  <2>1. want.base \in Nat /\ rbuf \in Seq(Bytes) /\ ramdisk_size \in Nat
    BY RamdiskIs DEF Wanted, BufferedRamdisk
  <2> QED
    BY <2>1 DEF Segment, LoadPhdr
<1>4. b \in Seq(LoadPhdr)
  BY KernelPhdrs
<1>5. e_phdr = e
  BY DEF e_phdr, NotePhdr
<1>q. ramdisk_size # 0 => r = <<s4>>
  OBVIOUS
<1>s. s2 = Segment(CONVERTLOC, payload, Len(payload) + bss_size)
      /\ s3 = Segment(REAL_MODE_DATA_LOC, <<>>, GDTLOC - REAL_MODE_DATA_LOC + gdt_size)
      /\ s4 = Segment(want.base, rbuf, ramdisk_size) /\ b = parse_kernel
  OBVIOUS
<1> HIDE DEF s2, s3, s4, LoadPhdr, NotePhdr, b
<1>6. r \in Seq(LoadPhdr)
  BY <1>3, EmptySeq
<1> HIDE DEF r
<1>7. a \in Seq(S) /\ Len(a) = 3 /\ a[1] = NotePhdr /\ a[2] = s2 /\ a[3] = s3
  BY <1>1, <1>2
<1>8. b \in Seq(S) /\ r \in Seq(S)
  BY <1>4, <1>6, SeqMonotonic
<1>9. a \in Seq(S) /\ b \in Seq(S) /\ r \in Seq(S)
  BY <1>7, <1>8
<1> HIDE DEF S, a
<1>10. /\ c \in Seq(S) /\ Len(c) = Len(a) + Len(b) /\ Len(b) \in Nat
       /\ \A k \in 1 .. Len(a) : c[k] = a[k]
       /\ \A k \in 1 .. Len(b) : c[Len(a) + k] = b[k]
  BY <1>9, ConcatAt
<1>11. c \in Seq(S)
  BY <1>10
<1> HIDE DEF c
<1>12. /\ e \in Seq(S) /\ Len(e) = Len(c) + Len(r) /\ Len(r) \in Nat
       /\ \A k \in 1 .. Len(c) : e[k] = c[k]
       /\ \A k \in 1 .. Len(r) : e[Len(c) + k] = r[k]
  BY <1>9, <1>11, ConcatAt
<1> HIDE DEF e
<1>13. Len(e) = 3 + Len(b) + Len(r) /\ e[1] = NotePhdr /\ e[2] = s2 /\ e[3] = s3
  BY <1>7, <1>10, <1>12
<1>14. ASSUME NEW k \in 1 .. Len(b) PROVE 3 + k \in 4 .. Len(e) /\ e[3 + k] = b[k]
  <2> DEFINE i == 3 + k
  <2>1. i \in 1 .. Len(c) /\ i \in 4 .. Len(e) /\ c[i] = b[k]
    BY <1>7, <1>10, <1>12, <1>13
  <2> HIDE DEF i
  <2>2. e[i] = c[i]
    BY <1>12, <2>1
  <2> QED
    BY <2>1, <2>2 DEF i
<1>15. ASSUME NEW k \in 1 .. Len(r) PROVE e[3 + Len(b) + k] = r[k]
  <2>1. 3 + Len(b) + k = Len(c) + k
    BY <1>7, <1>10
  <2> QED
    BY <1>12, <2>1
<1>16. ASSUME NEW i \in 2 .. Len(e) PROVE e[i] \in LoadPhdr
  <2>1. CASE i = 2 \/ i = 3
    BY <1>1, <1>2, <1>13, <2>1
  <2>2. CASE i \in 4 .. 3 + Len(b)
    <3>1. i - 3 \in 1 .. Len(b) /\ 3 + (i - 3) = i
      BY <1>10, <2>2
    <3>2. e[i] = b[i - 3]
      BY <1>14, <3>1
    <3> QED
      BY <1>4, <3>1, <3>2, ElementOfSeq
  <2>3. CASE i \in 4 + Len(b) .. 3 + Len(b) + Len(r)
    <3>1. i - (3 + Len(b)) \in 1 .. Len(r) /\ 3 + Len(b) + (i - (3 + Len(b))) = i
      BY <1>10, <1>12, <2>3
    <3>2. e[i] = r[i - (3 + Len(b))]
      BY <1>15, <3>1
    <3> QED
      BY <1>6, <3>1, <3>2, ElementOfSeq
  <2> QED
    BY <1>10, <1>12, <1>13, <2>1, <2>2, <2>3
<1>17. Phdrs(e)
  BY <1>10, <1>12, <1>13, <1>16 DEF Phdrs, S
<1>18. ASSUME ramdisk_size # 0 PROVE Len(e) >= 4 /\ e[Len(e)] = s4
  <2>1. Len(r) = 1 /\ r[1] = s4
    BY <1>18, <1>q
  <2>2. 1 \in 1 .. Len(r) /\ Len(e) = 3 + Len(b) + 1 /\ Len(e) >= 4
    BY <1>10, <1>13, <2>1
  <2>3. e[3 + Len(b) + 1] = r[1]
    BY <1>15, <2>2
  <2> QED
    BY <2>1, <2>2, <2>3
<1> QED
  BY <1>5, <1>13, <1>14, <1>17, <1>18, <1>s

-----------------------------------------------------------------------------
(* Rounding up to the alignment of notes.                                  *)
LEMMA RoundupFacts ==
    ASSUME NEW n \in Nat
    PROVE  roundup(n) \in Nat /\ n <= roundup(n)
<1> DEFINE A == NoteAlign
           x == n + A - 1
           q == x \div A
<1>1. A \in Nat \ {0} /\ x \in Nat
  BY Sizes
<1>2. q \in Nat /\ A * q <= x /\ x < A * q + A
  BY <1>1, DivMod
<1>3. A * q = q * A /\ A * q \in Nat
  BY <1>1, <1>2, MultType
<1>4. roundup(n) = q * A
  BY DEF roundup
<1>5. x = n + A - 1
  OBVIOUS
<1> HIDE DEF q, A, x
<1> DEFINE w == A * q
<1>6. w \in Nat /\ x < w + A /\ roundup(n) = w
  BY <1>2, <1>3, <1>4
<1> HIDE DEF w
<1> QED
  BY <1>1, <1>5, <1>6

(* The halves of a checksum are bytes, and make the checksum.              *)
LEMMA WordHalves ==
    ASSUME NEW c \in Words
    PROVE  c % Base \in Bytes /\ c \div Base \in Bytes /\ (c % Base) + Base * (c \div Base) = c
<1>1. Base \in Nat \ {0} /\ c \in Nat /\ c < Base * Base /\ Base * Base \in Nat
  BY Sizes, MultType DEF Words, Word
<1> DEFINE q == c \div Base
           m == Base * q
<1>2. q \in Nat /\ c % Base \in 0 .. Base - 1 /\ c % Base = c - Base * q
  BY <1>1, DivMod
<1>3. Base <= q <=> Base * Base <= c
  BY <1>1, DivAtLeast
<1>4. q < Base
  BY <1>1, <1>2, <1>3
<1>5. m \in Nat
  BY <1>1, <1>2, MultType
<1>6. c % Base = c - m
  BY <1>2
<1> HIDE DEF m, q
<1>7. (c % Base) + m = c
  BY <1>1, <1>2, <1>5, <1>6
<1> QED
  BY <1>1, <1>2, <1>4, <1>7 DEF m, q, Bytes

(* The notes take the room that was computed for them, and end with the    *)
(* checksum and its padding.                                               *)
LEMMA NotesAre ==
    ASSUME KernelVersion \in Seq(Bytes), NEW c \in Words
    PROVE  LET w == serialize_notes(e_notes(c))
               n == sizeof_notes(e_notes(0))
           IN /\ w \in Seq(Nat) /\ Len(w) = n /\ n \in Nat
              /\ n - roundup(2) \in Nat /\ n - roundup(2) + 2 <= n
              /\ w[n - roundup(2) + 1] = c % Base /\ w[n - roundup(2) + 2] = c \div Base
<1> DEFINE v == KernelVersion
           lo == c % Base
           hi == c \div Base
           D1 == <<1, 0>>
           D3 == <<lo, hi>>
           f1 == <<1, 2>> \o Slice(D1, 0, roundup(2))
           f2 == <<2, Len(v)>> \o Slice(v, 0, roundup(Len(v)))
           f3 == <<3, 2>> \o Slice(D3, 0, roundup(2))
<1>0. lo \in Bytes /\ hi \in Bytes /\ 1 \in Bytes /\ 0 \in Bytes /\ Bytes \subseteq Nat
  BY WordHalves, Sizes DEF Bytes
<1>1. v \in Seq(Bytes) /\ Len(v) \in Nat
  BY LenProperties
<1>2. roundup(2) \in Nat /\ 2 <= roundup(2) /\ roundup(Len(v)) \in Nat /\ Len(v) <= roundup(Len(v))
  BY <1>1, RoundupFacts
<1> DEFINE r == roundup(2)
<1>k. r \in Nat /\ 2 <= r /\ roundup(2) = r
  BY <1>2
<1> HIDE DEF r
<1>a. e_notes(c) = <<[type |-> 1, desc |-> D1], [type |-> 2, desc |-> v], [type |-> 3, desc |-> D3]>>
  BY DEF e_notes, EIN_PROGRAM_NAME, EIN_PROGRAM_VERSION, EIN_PROGRAM_CHECKSUM
<1> DEFINE D0 == <<0 % Base, 0 \div Base>>
<1>b. e_notes(0) = <<[type |-> 1, desc |-> D1], [type |-> 2, desc |-> v], [type |-> 3, desc |-> D0]>>
  BY DEF e_notes, EIN_PROGRAM_NAME, EIN_PROGRAM_VERSION, EIN_PROGRAM_CHECKSUM
<1>c. Len(D1) = 2 /\ Len(D3) = 2 /\ Len(D0) = 2
  OBVIOUS
<1>d. D1 \in Seq(Bytes) /\ D3 \in Seq(Bytes)
  <2> HIDE DEF lo, hi, Bytes
  <2> QED
    BY <1>0
<1>e. D3[1] = lo /\ D3[2] = hi /\ DOMAIN D3 = 1 .. 2
  OBVIOUS
<1> HIDE DEF v, lo, hi, D1, D3, D0
<1> DEFINE s0 == e_notes(0)
           len == [i \in DOMAIN s0 |-> 2 + roundup(Len(s0[i].desc))]
<1>f. DOMAIN s0 = 1 .. 3 /\ Len(s0) = 3 /\ s0[1].desc = D1 /\ s0[2].desc = v /\ s0[3].desc = D0
  BY <1>b
<1>3. sizeof_notes(e_notes(0)) = Total(len, 3)
  <2>2. sizeof_notes(s0) = Total(len, Len(s0))
    BY DEF sizeof_notes
  <2> HIDE DEF len
  <2> QED
    BY <1>f, <2>2
<1> HIDE DEF s0
<1>g. DOMAIN len = 1 .. 3 /\ len[1] = 2 + r /\ len[2] = 2 + roundup(Len(v)) /\ len[3] = 2 + r
  <2>1. Len(s0[1].desc) = 2 /\ Len(s0[2].desc) = Len(v) /\ Len(s0[3].desc) = 2
    BY <1>c, <1>f
  <2>2. roundup(Len(s0[1].desc)) = r /\ roundup(Len(s0[2].desc)) = roundup(Len(v)) /\ roundup(Len(s0[3].desc)) = r
    BY <1>k, <2>1, Zenon
  <2>3. 1 \in 1 .. 3 /\ 2 \in 1 .. 3 /\ 3 \in 1 .. 3
    OBVIOUS
  <2> QED
    BY <1>f, <2>2, <2>3
<1> DEFINE s == e_notes(c)
           P(y) == <<y.type, Len(y.desc)>> \o Slice(y.desc, 0, roundup(Len(y.desc)))
           f == [i \in DOMAIN s |-> P(s[i])]
<1>h. DOMAIN s = 1 .. 3 /\ Len(s) = 3 /\ s[1].desc = D1 /\ s[2].desc = v /\ s[3].desc = D3
      /\ s[1].type = 1 /\ s[2].type = 2 /\ s[3].type = 3
  BY <1>a
<1>4. serialize_notes(e_notes(c)) = Joined(f, 3)
  <2>2. serialize_notes(s) = Joined(f, Len(s))
    BY DEF serialize_notes
  <2> HIDE DEF f
  <2> QED
    BY <1>h, <2>2
<1> HIDE DEF s
<1>i. P(s[1]) = f1 /\ P(s[2]) = f2 /\ P(s[3]) = f3
  BY <1>c, <1>h, <1>k, Zenon
<1> HIDE DEF P
<1>j. DOMAIN f = 1 .. 3 /\ f[1] = f1 /\ f[2] = f2 /\ f[3] = f3 /\ f = [i \in 1 .. 3 |-> f[i]]
  BY <1>h, <1>i
<1> HIDE DEF f
<1> DEFINE x1 == Slice(D1, 0, r)
           x2 == Slice(v, 0, roundup(Len(v)))
           x3 == Slice(D3, 0, r)
<1>5. /\ x1 \in Seq(Bytes) /\ x2 \in Seq(Bytes) /\ x3 \in Seq(Bytes)
      /\ Len(x1) = r /\ Len(x2) = roundup(Len(v)) /\ Len(x3) = r
  BY <1>1, <1>2, <1>k, <1>d, SliceFacts
<1>6. x3[1] = lo /\ x3[2] = hi
  <2>1. \A i \in 1 .. r : x3[i] = IF 0 + i \in DOMAIN D3 THEN D3[0 + i] ELSE 0
    BY DEF x3, Slice
  <2>2. 1 \in 1 .. r /\ 2 \in 1 .. r /\ 0 + 1 = 1 /\ 0 + 2 = 2
    BY <1>2, <1>k
  <2> QED
    BY <1>e, <2>1, <2>2
<1> HIDE DEF x1, x2, x3
<1>7. x1 \in Seq(Nat) /\ x2 \in Seq(Nat) /\ x3 \in Seq(Nat)
  <2> HIDE DEF Bytes
  <2> QED
    BY <1>0, <1>5, SeqMonotonic
<1> DEFINE y1 == <<1, 2>>
           y2 == <<2, Len(v)>>
           y3 == <<3, 2>>
<1>8. y1 \in Seq(Nat) /\ y2 \in Seq(Nat) /\ y3 \in Seq(Nat) /\ Len(y1) = 2 /\ Len(y2) = 2 /\ Len(y3) = 2
  BY <1>1
<1>9. f1 = y1 \o x1 /\ f2 = y2 \o x2 /\ f3 = y3 \o x3
  BY <1>k DEF x1, x2, x3
<1> HIDE DEF y1, y2, y3, f1, f2, f3
<1>10. /\ f1 \in Seq(Nat) /\ Len(f1) = 2 + r
       /\ f2 \in Seq(Nat) /\ Len(f2) = 2 + roundup(Len(v))
       /\ f3 \in Seq(Nat) /\ Len(f3) = 2 + r
  <2>1. Len(y1 \o x1) = Len(y1) + Len(x1) /\ y1 \o x1 \in Seq(Nat)
    BY <1>7, <1>8, ConcatAt
  <2>2. Len(y2 \o x2) = Len(y2) + Len(x2) /\ y2 \o x2 \in Seq(Nat)
    BY <1>7, <1>8, ConcatAt
  <2>3. Len(y3 \o x3) = Len(y3) + Len(x3) /\ y3 \o x3 \in Seq(Nat)
    BY <1>7, <1>8, ConcatAt
  <2> QED
    BY <1>5, <1>8, <1>9, <2>1, <2>2, <2>3
<1>11. f3[2 + 1] = lo /\ f3[2 + 2] = hi
  <2>0. x3 \in Seq(Nat) /\ y3 \in Seq(Nat)
    BY <1>7, <1>8
  <2>1. \A k \in 1 .. Len(x3) : (y3 \o x3)[Len(y3) + k] = x3[k]
    BY <2>0, ConcatAt
  <2>2. 1 \in 1 .. Len(x3) /\ 2 \in 1 .. Len(x3)
    BY <1>2, <1>k, <1>5
  <2>3. (y3 \o x3)[Len(y3) + 1] = x3[1] /\ (y3 \o x3)[Len(y3) + 2] = x3[2]
    BY <2>1, <2>2
  <2> QED
    BY <1>6, <1>8, <1>9, <2>3
<1>12. f \in Seq(Seq(Nat)) /\ Len(f) = 3
  <2>1. \A i \in 1 .. 3 : i = 1 \/ i = 2 \/ i = 3
    OBVIOUS
  <2>2. \A i \in 1 .. 3 : f[i] \in Seq(Nat)
    BY <1>10, <1>j, <2>1, Zenon
  <2> DEFINE V == Seq(Nat)
  <2>3. f \in [1 .. 3 -> V]
    BY <1>j, <2>2
  <2> HIDE DEF V
  <2>4. f \in Seq(V) /\ Len(f) = 3
    <3>1. 3 \in Nat
      OBVIOUS
    <3> QED
      BY <2>3, <3>1, FunctionIsSeq
  <2> QED
    BY <2>4 DEF V
<1>13. len = Lens(f) /\ len[3] = 2 + r
  <2>1. \A i \in 1 .. 3 : i = 1 \/ i = 2 \/ i = 3
    OBVIOUS
  <2>2. \A i \in 1 .. 3 : len[i] = Len(f[i])
    BY <1>10, <1>g, <1>j, <2>1, Zenon
  <2>3. len = [i \in 1 .. 3 |-> len[i]]
    BY <1>f
  <2> HIDE DEF len
  <2> QED
    BY <1>g, <1>j, <2>2, <2>3 DEF Lens
<1> HIDE DEF len
<1>14. /\ len \in Seq(Nat) /\ Len(len) = 3 /\ Joined(f, 3) \in Seq(Nat)
       /\ \A i \in 0 .. 3 : Len(Joined(f, i)) = Total(len, i)
       /\ \A j \in 1 .. 3 : \A k \in 1 .. Len(f[j]) : Joined(f, 3)[Total(len, j - 1) + k] = f[j][k]
  <2>1. /\ len \in Seq(Nat) /\ Len(len) = Len(f) /\ Joined(f, Len(f)) \in Seq(Nat)
        /\ \A i \in 0 .. Len(f) : Len(Joined(f, i)) = Total(len, i)
        /\ \A j \in 1 .. Len(f) : \A k \in 1 .. Len(f[j]) :
              Joined(f, Len(f))[Total(len, j - 1) + k] = f[j][k]
    <3>1. Joined(f, Len(f)) \in Seq(Nat) /\ JoinedWell(f)
      BY <1>12, JoinedAt
    <3> QED
      BY <1>13, <3>1 DEF JoinedWell
  <2> QED
    BY <1>12, <2>1
<1>15. Total(len, 3) = Total(len, 2) + len[3] /\ Total(len, 2) \in Nat /\ Total(len, 3) \in Nat
  <2>1. 3 \in 1 .. Len(len) /\ 3 - 1 = 2 /\ 2 \in 0 .. Len(len) /\ 3 \in 0 .. Len(len)
    BY <1>14
  <2>2. len \in Seq(Nat)
    BY <1>14
  <2> QED
    BY <2>1, <2>2, TotalSteps
<1> DEFINE w == Joined(f, 3)
           n == Total(len, 3)
           t == Total(len, 2)
<1>16. w[t + (2 + 1)] = lo /\ w[t + (2 + 2)] = hi
  <2>1. 3 \in 1 .. 3 /\ 3 - 1 = 2 /\ 2 + 1 \in 1 .. Len(f3) /\ 2 + 2 \in 1 .. Len(f3)
    BY <1>2, <1>k, <1>10
  <2>2. w[Total(len, 3 - 1) + (2 + 1)] = f[3][2 + 1] /\ w[Total(len, 3 - 1) + (2 + 2)] = f[3][2 + 2]
    BY <1>j, <1>14, <2>1
  <2> QED
    BY <1>11, <1>j, <2>1, <2>2
<1>17. n = t + 2 + r /\ t \in Nat /\ n \in Nat
  BY <1>2, <1>k, <1>13, <1>15
<1>18. Len(w) = n /\ w \in Seq(Nat)
  BY <1>14
<1> HIDE DEF w, n, t
<1>19. n - r + 1 = t + (2 + 1) /\ n - r + 2 = t + (2 + 2) /\ n - r \in Nat
       /\ n - r + 2 <= n
  BY <1>2, <1>k, <1>17
<1> QED
  BY <1>k, <1>3, <1>4, <1>16, <1>17, <1>18, <1>19, Zenon DEF w, n, lo, hi

-----------------------------------------------------------------------------
(* A program header of the file.                                           *)
FileHeader == [type : {PT_LOAD, PT_NOTE}, offset : Nat, paddr : Nat, filesz : Nat, memsz : Nat]
PhdrBytesOf(p) == PhdrBytes(p.type, p.offset, p.paddr, p.filesz, p.memsz)

(* Where its fields are.                                                   *)
LEMMA PhdrBytesAre ==
    ASSUME NEW p \in FileHeader
    PROVE  LET b == PhdrBytesOf(p)
           IN /\ b \in Seq(Bytes) /\ Len(b) = PhdrCells /\ PhdrCells \in Nat \ {0} /\ b[1] = p.type
              /\ \A k \in 1 .. NumCells :
                    /\ b[2 + k] = cpu_to_elf(p.offset)[k]
                    /\ b[2 + NumCells + k] = cpu_to_elf(p.paddr)[k]
                    /\ b[2 + 2 * NumCells + k] = cpu_to_elf(p.filesz)[k]
                    /\ b[2 + 3 * NumCells + k] = cpu_to_elf(p.memsz)[k]
<1> DEFINE t == <<p.type, 0>>
           o == cpu_to_elf(p.offset)
           a == cpu_to_elf(p.paddr)
           f == cpu_to_elf(p.filesz)
           m == cpu_to_elf(p.memsz)
           u == t \o o \o a \o f
           b == u \o m
           N == NumCells
<1>0. N \in Nat /\ N > 0 /\ PhdrCells = 2 + 4 * N
  BY Sizes DEF PhdrCells
<1>1. /\ p.type \in Bytes /\ 0 \in Bytes
      /\ p.offset \in Nat /\ p.paddr \in Nat /\ p.filesz \in Nat /\ p.memsz \in Nat
  BY Sizes DEF FileHeader, Bytes, PT_LOAD, PT_NOTE
<1>2. /\ o \in Seq(Bytes) /\ Len(o) = N /\ a \in Seq(Bytes) /\ Len(a) = N
      /\ f \in Seq(Bytes) /\ Len(f) = N /\ m \in Seq(Bytes) /\ Len(m) = N
  BY <1>1, NumberCells
<1>3. t \in Seq(Bytes) /\ Len(t) = 2 /\ t[1] = p.type
  <2> HIDE DEF Bytes
  <2> QED
    BY <1>1
<1>4. PhdrBytesOf(p) = b
  BY DEF PhdrBytesOf, PhdrBytes
<1> HIDE DEF o, a, f, m, t, N
<1>5. t \in Seq(Bytes) /\ o \in Seq(Bytes) /\ a \in Seq(Bytes) /\ f \in Seq(Bytes)
  BY <1>2, <1>3
<1>6. u \in Seq(Bytes) /\ InRow(u, t, o, a, f)
  BY <1>5, FourInRow
<1> HIDE DEF u
<1>7. u \in Seq(Bytes) /\ m \in Seq(Bytes)
  BY <1>2, <1>6
<1>8. /\ b \in Seq(Bytes) /\ Len(b) = Len(u) + Len(m)
      /\ \A k \in 1 .. Len(u) : b[k] = u[k]
      /\ \A k \in 1 .. Len(m) : b[Len(u) + k] = m[k]
  BY <1>7, ConcatAt
<1> HIDE DEF b
<1>9. /\ Len(u) = 2 + N + N + N
      /\ \A k \in 1 .. 2 : u[k] = t[k]
      /\ \A k \in 1 .. N : u[2 + k] = o[k]
      /\ \A k \in 1 .. N : u[2 + N + k] = a[k]
      /\ \A k \in 1 .. N : u[2 + N + N + k] = f[k]
  BY <1>2, <1>3, <1>6 DEF InRow
<1>10. Len(b) = PhdrCells /\ PhdrCells \in Nat \ {0} /\ Len(u) = 2 + 3 * N
  BY <1>0, <1>2, <1>8, <1>9
<1>11. b[1] = p.type
  <2>1. 1 \in 1 .. 2 /\ 1 \in 1 .. Len(u)
    BY <1>0, <1>9
  <2> QED
    BY <1>3, <1>8, <1>9, <2>1
<1>12. ASSUME NEW k \in 1 .. N
       PROVE  /\ b[2 + k] = o[k] /\ b[2 + N + k] = a[k]
              /\ b[2 + 2 * N + k] = f[k] /\ b[2 + 3 * N + k] = m[k]
  <2>1. /\ 2 + k \in 1 .. Len(u) /\ 2 + N + k \in 1 .. Len(u)
        /\ 2 + N + N + k \in 1 .. Len(u) /\ 2 + 2 * N + k = 2 + N + N + k /\ 2 + 3 * N + k = Len(u) + k
    BY <1>0, <1>9
  <2>2. b[2 + k] = u[2 + k] /\ b[2 + N + k] = u[2 + N + k] /\ b[2 + N + N + k] = u[2 + N + N + k]
    BY <1>8, <2>1
  <2>3. b[2 + 3 * N + k] = m[k]
    BY <1>2, <1>8, <2>1
  <2> QED
    BY <1>9, <2>1, <2>2, <2>3
<1> QED
  BY <1>4, <1>8, <1>10, <1>11, <1>12 DEF o, a, f, m, N

(* The boot loader reads the header that was written, if its fields hold   *)
(* the values.                                                             *)
LEMMA ReadPhdr ==
    ASSUME NEW p \in FileHeader, NEW s, NEW at \in Nat,
           p.offset < Power[NumCells], p.paddr < Power[NumCells],
           p.filesz < Power[NumCells], p.memsz < Power[NumCells],
           \A k \in 1 .. PhdrCells : s[at + k] = PhdrBytesOf(p)[k]
    PROVE  [type |-> s[at + 1], offset |-> NumberAt(s, at + 2), paddr |-> NumberAt(s, at + 2 + NumCells),
            filesz |-> NumberAt(s, at + 2 + 2 * NumCells),
            memsz |-> NumberAt(s, at + 2 + 3 * NumCells)] = p
<1> DEFINE b == PhdrBytesOf(p)
           N == NumCells
<1>0. N \in Nat /\ PhdrCells = 2 + 4 * N /\ PhdrCells \in Nat \ {0}
  BY Sizes DEF PhdrCells
<1>1. /\ b[1] = p.type
      /\ \A k \in 1 .. N :
                    /\ b[2 + k] = cpu_to_elf(p.offset)[k]
                    /\ b[2 + N + k] = cpu_to_elf(p.paddr)[k]
                    /\ b[2 + 2 * N + k] = cpu_to_elf(p.filesz)[k]
                    /\ b[2 + 3 * N + k] = cpu_to_elf(p.memsz)[k]
  BY PhdrBytesAre
<1>2. \A k \in 1 .. PhdrCells : s[at + k] = b[k]
  OBVIOUS
<1> HIDE DEF b
<1>3. s[at + 1] = p.type
  <2>1. 1 \in 1 .. PhdrCells
    BY <1>0
  <2> QED
    BY <1>1, <1>2, <2>1
<1>4. ASSUME NEW k \in 1 .. N
      PROVE  /\ s[(at + 2) + k] = cpu_to_elf(p.offset)[k]
             /\ s[(at + 2 + N) + k] = cpu_to_elf(p.paddr)[k]
             /\ s[(at + 2 + 2 * N) + k] = cpu_to_elf(p.filesz)[k]
             /\ s[(at + 2 + 3 * N) + k] = cpu_to_elf(p.memsz)[k]
  <2>1. /\ 2 + k \in 1 .. PhdrCells /\ at + (2 + k) = (at + 2) + k
        /\ 2 + N + k \in 1 .. PhdrCells /\ at + (2 + N + k) = (at + 2 + N) + k
        /\ 2 + 2 * N + k \in 1 .. PhdrCells /\ at + (2 + 2 * N + k) = (at + 2 + 2 * N) + k
        /\ 2 + 3 * N + k \in 1 .. PhdrCells /\ at + (2 + 3 * N + k) = (at + 2 + 3 * N) + k
    BY <1>0
  <2>2. /\ s[at + (2 + k)] = b[2 + k] /\ s[at + (2 + N + k)] = b[2 + N + k]
        /\ s[at + (2 + 2 * N + k)] = b[2 + 2 * N + k]
        /\ s[at + (2 + 3 * N + k)] = b[2 + 3 * N + k]
    BY <1>2, <2>1
  <2> QED
    BY <1>1, <2>1, <2>2
<1>5. p.offset \in Nat /\ p.paddr \in Nat /\ p.filesz \in Nat /\ p.memsz \in Nat
  BY DEF FileHeader
<1> DEFINE a1 == at + 2
           a2 == at + 2 + N
           a3 == at + 2 + 2 * N
           a4 == at + 2 + 3 * N
<1>6. \A k \in 1 .. N : /\ s[a1 + k] = cpu_to_elf(p.offset)[k] /\ s[a2 + k] = cpu_to_elf(p.paddr)[k]
                        /\ s[a3 + k] = cpu_to_elf(p.filesz)[k] /\ s[a4 + k] = cpu_to_elf(p.memsz)[k]
  BY <1>4
<1>a. a1 = at + 2 /\ a2 = at + 2 + NumCells /\ a3 = at + 2 + 2 * NumCells /\ a4 = at + 2 + 3 * NumCells
  OBVIOUS
<1> HIDE DEF a1, a2, a3, a4
<1>7. NumberAt(s, a1) = p.offset
  BY <1>5, <1>6, ReadBack
<1>8. NumberAt(s, a2) = p.paddr
  BY <1>5, <1>6, ReadBack
<1>9. NumberAt(s, a3) = p.filesz
  BY <1>5, <1>6, ReadBack
<1>10. NumberAt(s, a4) = p.memsz
  BY <1>5, <1>6, ReadBack
<1>11. p = [type |-> p.type, offset |-> p.offset, paddr |-> p.paddr, filesz |-> p.filesz, memsz |-> p.memsz]
  BY DEF FileHeader
<1> QED
  BY <1>3, <1>a, <1>7, <1>8, <1>9, <1>10, <1>11, Zenon

(* The segments' data, and the header written for each.                    *)
Datas == [i \in DOMAIN ehdr |-> ehdr[i].data]
NoteCells == sizeof_notes(e_notes(0))
WrittenPhdr(i) ==
    IF ehdr[i].type = PT_NOTE
    THEN [type |-> PT_NOTE, offset |-> HeadCells, paddr |-> 0, filesz |-> NoteCells, memsz |-> NoteCells]
    ELSE [type |-> PT_LOAD, offset |-> HeadCells + NoteCells + Total(Lens(Datas), i - 1),
          paddr |-> ehdr[i].paddr, filesz |-> Len(ehdr[i].data), memsz |-> ehdr[i].memsz]

(* The parts of program headers have their types.                          *)
LEMMA PhdrTypes ==
    ASSUME Phdrs(ehdr)
    PROVE  /\ Len(ehdr) \in Nat /\ Len(ehdr) >= 3 /\ DOMAIN ehdr = 1 .. Len(ehdr)
           /\ HeadCells \in Nat /\ PhdrCells \in Nat \ {0}
           /\ Datas \in Seq(Seq(Bytes)) /\ Len(Datas) = Len(ehdr)
           /\ \A i \in 1 .. Len(ehdr) : /\ Datas[i] = ehdr[i].data /\ ehdr[i].data \in Seq(Bytes)
                                        /\ ehdr[i].paddr \in Nat /\ ehdr[i].memsz \in Nat
                                        /\ ehdr[i].type = IF i = 1 THEN PT_NOTE ELSE PT_LOAD
           /\ ehdr[1].data = <<>> /\ ehdr[1].memsz = 0
<1> DEFINE L == Len(ehdr)
<1>1. L \in Nat /\ L >= 3 /\ DOMAIN ehdr = 1 .. L /\ ehdr[1] = NotePhdr /\ \A i \in 2 .. L : ehdr[i] \in LoadPhdr
  BY LenProperties DEF Phdrs
<1>2. PhdrCells \in Nat \ {0} /\ NumCells \in Nat
  BY Sizes DEF PhdrCells
<1>3. PhdrCells * L \in Nat
  BY <1>1, <1>2, MultType
<1>4. HeadCells \in Nat
  BY <1>2, <1>3 DEF HeadCells
<1>5. ehdr[1].data = <<>> /\ ehdr[1].memsz = 0 /\ ehdr[1].paddr = 0 /\ ehdr[1].type = PT_NOTE
  BY <1>1 DEF NotePhdr
<1>6. <<>> \in Seq(Bytes)
  BY EmptySeq
<1>7. ASSUME NEW i \in 1 .. L
      PROVE /\ ehdr[i].data \in Seq(Bytes) /\ ehdr[i].paddr \in Nat /\ ehdr[i].memsz \in Nat
            /\ ehdr[i].type = IF i = 1 THEN PT_NOTE ELSE PT_LOAD
  <2>1. CASE i = 1
    <3>1. ehdr[i] = ehdr[1] /\ 0 \in Nat
      BY <2>1
    <3> QED
      BY <1>5, <1>6, <2>1, <3>1, Zenon
  <2>2. CASE i \in 2 .. L
    <3>1. ehdr[i] \in LoadPhdr
      BY <1>1, <2>2
    <3> QED
      BY <2>2, <3>1 DEF LoadPhdr
  <2> QED
    BY <1>1, <2>1, <2>2
<1> DEFINE V == Seq(Bytes)
<1>8. Datas \in [1 .. L -> V] /\ \A i \in 1 .. L : Datas[i] = ehdr[i].data
  BY <1>1, <1>7 DEF Datas
<1> HIDE DEF V
<1>9. Datas \in Seq(V) /\ Len(Datas) = L
  BY <1>1, <1>8, FunctionIsSeq
<1> QED
  BY <1>1, <1>2, <1>4, <1>5, <1>7, <1>8, <1>9 DEF V

(* The lengths of the data and their offsets.                              *)
LEMMA OffsetTypes ==
    ASSUME Phdrs(ehdr)
    PROVE  /\ Lens(Datas) = [k \in DOMAIN ehdr |-> Len(ehdr[k].data)]
           /\ Lens(Datas) \in Seq(Nat) /\ Len(Lens(Datas)) = Len(ehdr)
           /\ \A i \in 0 .. Len(ehdr) : Total(Lens(Datas), i) \in Nat
           /\ \A i \in 1 .. Len(ehdr) : /\ Total(Lens(Datas), i - 1) \in Nat /\ Len(ehdr[i].data) \in Nat
                                        /\ Total(Lens(Datas), i - 1) + Len(ehdr[i].data)
                                              <= Total(Lens(Datas), Len(ehdr))
<1> DEFINE L == Len(ehdr)
           T(i) == Total(Lens(Datas), i)
<1>1. /\ L \in Nat /\ DOMAIN ehdr = 1 .. L /\ Datas \in Seq(Seq(Bytes)) /\ Len(Datas) = L
      /\ \A i \in 1 .. L : Datas[i] = ehdr[i].data /\ ehdr[i].data \in Seq(Bytes)
  BY PhdrTypes
<1>2. JoinedWell(Datas)
  BY <1>1, JoinedAt
<1>3. Lens(Datas) \in Seq(Nat) /\ Len(Lens(Datas)) = L
  BY <1>1, <1>2 DEF JoinedWell
<1>4. DOMAIN Datas = 1 .. L
  BY <1>1, LenProperties
<1>5. Lens(Datas) = [k \in DOMAIN ehdr |-> Len(ehdr[k].data)]
  BY <1>1, <1>4 DEF Lens
<1>6. \A i \in 1 .. L : Lens(Datas)[i] = Len(ehdr[i].data) /\ Len(ehdr[i].data) \in Nat
  BY <1>1, <1>5, LenProperties
<1>7. /\ \A i \in 1 .. L : T(i) = T(i - 1) + Lens(Datas)[i]
      /\ \A i \in 0 .. L : T(i) \in Nat
      /\ \A i, j \in 0 .. L : i <= j => T(i) <= T(j)
  BY <1>3, TotalSteps
<1> HIDE DEF T, L
<1>8. ASSUME NEW i \in 1 .. L
      PROVE  T(i - 1) \in Nat /\ Len(ehdr[i].data) \in Nat /\ T(i - 1) + Len(ehdr[i].data) <= T(L)
  <2>1. i - 1 \in 0 .. L /\ i \in 0 .. L /\ L \in 0 .. L /\ i <= L
    BY <1>1
  <2>2. T(i) <= T(L) /\ T(i) = T(i - 1) + Len(ehdr[i].data)
    BY <1>6, <1>7, <2>1
  <2> QED
    BY <1>6, <1>7, <2>1, <2>2
<1> QED
  BY <1>3, <1>5, <1>7, <1>8 DEF T, L

(* What is written for a segment is a program header.                      *)
LEMMA WrittenTypes ==
    ASSUME Phdrs(ehdr), NoteCells \in Nat
    PROVE  \A i \in 1 .. Len(ehdr) : WrittenPhdr(i) \in FileHeader
<1>1. HeadCells \in Nat /\ \A i \in 1 .. Len(ehdr) : ehdr[i].paddr \in Nat /\ ehdr[i].memsz \in Nat
  BY PhdrTypes
<1>2. \A i \in 1 .. Len(ehdr) : Total(Lens(Datas), i - 1) \in Nat /\ Len(ehdr[i].data) \in Nat
  BY OffsetTypes
<1> QED
  BY <1>1, <1>2 DEF WrittenPhdr, FileHeader

(* The head of the file: two numbers and the program headers.              *)
LEMMA HeadIs ==
    ASSUME Phdrs(ehdr), NoteCells \in Nat
    PROVE  /\ ElfHead \in Seq(Bytes) /\ Len(ElfHead) = HeadCells
           /\ \A k \in 1 .. NumCells :
                 NumCells + k \in 1 .. HeadCells /\ ElfHead[NumCells + k] = cpu_to_elf(Len(ehdr))[k]
           /\ \A i \in 1 .. Len(ehdr) :
                 /\ 2 * NumCells + PhdrCells * (i - 1) \in Nat
                 /\ \A k \in 1 .. PhdrCells :
                       /\ 2 * NumCells + PhdrCells * (i - 1) + k \in 1 .. HeadCells
                       /\ ElfHead[2 * NumCells + PhdrCells * (i - 1) + k] = PhdrBytesOf(WrittenPhdr(i))[k]
<1> DEFINE L == Len(ehdr)
           N == NumCells
           P == PhdrCells
           a == cpu_to_elf(CONVERTLOC)
           b == cpu_to_elf(L)
           u == a \o b
           B(i) == PhdrBytesOf(WrittenPhdr(i))
           f == [i \in 1 .. L |-> B(i)]
           w == Joined(f, L)
           V == Seq(Bytes)
<1>0. L \in Nat /\ DOMAIN ehdr = 1 .. L /\ N \in Nat /\ P \in Nat \ {0} /\ HeadCells = 2 * N + P * L /\ CONVERTLOC \in Nat
      /\ HeadCells \in Nat
  BY PhdrTypes, Sizes DEF HeadCells
<1>1. \A i \in 1 .. L : B(i) \in Seq(Bytes) /\ Len(B(i)) = P
  BY WrittenTypes, PhdrBytesAre
<1>2. serialize_phdrs(NoteCells) = w
  <2> DEFINE off(i) == HeadCells + NoteCells + Total([k \in DOMAIN ehdr |-> Len(ehdr[k].data)], i - 1)
             G(i) == IF ehdr[i].type = PT_NOTE
                     THEN PhdrBytes(PT_NOTE, HeadCells, 0, NoteCells, NoteCells)
                     ELSE PhdrBytes(PT_LOAD, off(i), ehdr[i].paddr, Len(ehdr[i].data), ehdr[i].memsz)
  <2>1. serialize_phdrs(NoteCells) = Joined([i \in DOMAIN ehdr |-> G(i)], L)
    BY Zenon DEF serialize_phdrs
  <2>2. Lens(Datas) = [k \in DOMAIN ehdr |-> Len(ehdr[k].data)]
    BY OffsetTypes
  <2>3. \A i : off(i) = HeadCells + NoteCells + Total(Lens(Datas), i - 1)
    BY <2>2, Zenon
  <2> HIDE DEF off
  <2>4. \A i : G(i) = B(i)
    BY <2>3 DEF PhdrBytesOf, WrittenPhdr
  <2> HIDE DEF G, B
  <2>5. [i \in DOMAIN ehdr |-> G(i)] = f
    BY <1>0, <2>4
  <2> QED
    BY <2>1, <2>5, Zenon
<1> HIDE DEF B
<1>3. f \in [1 .. L -> V] /\ \A i \in 1 .. L : f[i] = B(i)
  BY <1>1
<1>v. V = Seq(Bytes)
  OBVIOUS
<1> HIDE DEF V
<1>4. f \in Seq(V) /\ Len(f) = L
  BY <1>0, <1>3, FunctionIsSeq
<1>5. f \in Seq(Seq(Bytes))
  BY <1>4, <1>v
<1> HIDE DEF f
<1>6. w \in Seq(Bytes) /\ JoinedWell(f)
  BY <1>4, <1>5, JoinedAt
<1>7. /\ Lens(f) \in Seq(Nat) /\ Len(Lens(f)) = L
      /\ \A i \in 0 .. L : Len(Joined(f, i)) = Total(Lens(f), i)
      /\ \A j \in 1 .. L : \A k \in 1 .. Len(f[j]) :
            /\ Total(Lens(f), j - 1) + k \in 1 .. Total(Lens(f), L)
            /\ w[Total(Lens(f), j - 1) + k] = f[j][k]
  BY <1>4, <1>6 DEF JoinedWell
<1>8. \A i \in 0 .. L : Total(Lens(f), i) = P * i
  <2>1. DOMAIN f = 1 .. L
    BY <1>3
  <2>2. \A i \in 1 .. Len(Lens(f)) : Lens(f)[i] = P
    BY <1>1, <1>3, <1>7, <2>1 DEF Lens
  <2>3. Lens(f) \in Seq(Nat) /\ P \in Nat
    BY <1>0, <1>7
  <2> QED
    BY <1>7, <2>2, <2>3, TotalOfEqual
<1>9. Len(w) = P * L
  <2>1. L \in 0 .. L
    BY <1>0
  <2> QED
    BY <1>7, <1>8, <2>1
<1>10. ASSUME NEW i \in 1 .. L, NEW k \in 1 .. P
       PROVE  P * (i - 1) + k \in 1 .. P * L /\ w[P * (i - 1) + k] = B(i)[k] /\ P * (i - 1) \in Nat
  <2>1. i - 1 \in 0 .. L /\ L \in 0 .. L /\ k \in 1 .. Len(f[i]) /\ i - 1 \in Nat
    BY <1>0, <1>1, <1>3
  <2>2. Total(Lens(f), i - 1) = P * (i - 1) /\ Total(Lens(f), L) = P * L
    BY <1>8, <2>1
  <2>3. Total(Lens(f), i - 1) + k \in 1 .. Total(Lens(f), L) /\ w[Total(Lens(f), i - 1) + k] = f[i][k]
    BY <1>7, <2>1
  <2>4. P * (i - 1) \in Nat
    BY <1>0, <2>1, MultType
  <2> QED
    BY <1>3, <2>2, <2>3, <2>4
<1> HIDE DEF w
<1>11. a \in Seq(Bytes) /\ Len(a) = N /\ b \in Seq(Bytes) /\ Len(b) = N
  BY <1>0, NumberCells
<1>b. b = cpu_to_elf(Len(ehdr))
  OBVIOUS
<1>12. ElfHead = u \o w
  BY <1>2 DEF ElfHead, serialize_ehdr, NoteCells
<1> HIDE DEF a, b
<1>c. a \in Seq(Bytes) /\ b \in Seq(Bytes)
  BY <1>11
<1>13. /\ u \in Seq(Bytes) /\ Len(u) = Len(a) + Len(b)
       /\ \A k \in 1 .. Len(b) : u[Len(a) + k] = b[k]
  BY <1>c, ConcatAt
<1>14. u \in Seq(Bytes) /\ w \in Seq(Bytes) /\ Len(u) = 2 * N
  BY <1>0, <1>6, <1>11, <1>13
<1> HIDE DEF u
<1>15. /\ u \o w \in Seq(Bytes) /\ Len(u \o w) = Len(u) + Len(w)
       /\ \A k \in 1 .. Len(u) : (u \o w)[k] = u[k]
       /\ \A k \in 1 .. Len(w) : (u \o w)[Len(u) + k] = w[k]
  <2>1. u \in Seq(Bytes) /\ w \in Seq(Bytes)
    BY <1>14
  <2> QED
    BY <2>1, ConcatAt
<1> DEFINE z == P * L
<1>16. z \in Nat /\ Len(w) = z /\ HeadCells = 2 * N + z
  BY <1>0, <1>9, MultType
<1>17. Len(ElfHead) = HeadCells /\ ElfHead \in Seq(Bytes)
  BY <1>12, <1>14, <1>15, <1>16
<1>z. z = P * L
  OBVIOUS
<1> HIDE DEF z
<1>18. ASSUME NEW k \in 1 .. N
       PROVE  N + k \in 1 .. HeadCells /\ ElfHead[N + k] = b[k]
  <2>1. N + k \in 1 .. 2 * N /\ N + k \in 1 .. HeadCells
    BY <1>0, <1>16
  <2>2. u[N + k] = b[k]
    BY <1>11, <1>13
  <2>3. (u \o w)[N + k] = u[N + k]
    BY <1>14, <1>15, <2>1
  <2> QED
    BY <1>12, <2>1, <2>2, <2>3
<1>19. ASSUME NEW i \in 1 .. L, NEW k \in 1 .. P
       PROVE  /\ 2 * N + P * (i - 1) + k \in 1 .. HeadCells
              /\ ElfHead[2 * N + P * (i - 1) + k] = B(i)[k]
              /\ 2 * N + P * (i - 1) \in Nat
  <2> DEFINE q == P * (i - 1)
             x == q + k
  <2>1. x \in 1 .. z /\ w[x] = B(i)[k] /\ q \in Nat
    BY <1>10, <1>z
  <2> HIDE DEF q
  <2>2. 2 * N + q + k = 2 * N + x /\ 2 * N + x \in 1 .. HeadCells /\ 2 * N + q \in Nat
    BY <1>0, <1>16, <2>1
  <2> HIDE DEF x
  <2>3. (u \o w)[2 * N + x] = w[x]
    BY <1>14, <1>15, <1>16, <2>1
  <2> QED
    BY <1>12, <2>1, <2>2, <2>3 DEF q
<1>20. 1 \in 1 .. P
  BY <1>0
<1> QED
  BY <1>17, <1>18, <1>19, <1>20, <1>b DEF B

-----------------------------------------------------------------------------
(* Checksums are words.                                                    *)
LEMMA SumTypes ==
    /\ \A data \in Seq(Bytes) : checksum_partial(data) \in Words /\ ipchksum(data) \in Words
    /\ \A offset \in Nat : \A sum, new \in Words : add_ipchksums(offset, sum, new) \in Words
<1>0. \A w \in Words : Complement(w) \in Words
  BY WordSize DEF Words, Complement
<1>1. ASSUME NEW data \in Seq(Bytes) PROVE checksum_partial(data) \in Words /\ ipchksum(data) \in Words
  <2>1. checksum_partial(data) \in Words
    BY PartialSums, SumsUnique
  <2> QED
    BY <1>0, <2>1 DEF ipchksum
<1>2. ASSUME NEW offset \in Nat, NEW sum \in Words, NEW new \in Words
      PROVE  add_ipchksums(offset, sum, new) \in Words
  <2> DEFINE p == Complement(sum)
             q == Complement(new)
             r == Shifted(offset, q)
  <2>1. p \in Words /\ q \in Words
    BY <1>0
  <2>2. add_ipchksums(offset, sum, new) = AddSums(p, r)
    BY DEF add_ipchksums, Shifted
  <2> HIDE DEF p, q
  <2>3. r \in Words
    BY <2>1, ShiftAdds
  <2> HIDE DEF r
  <2>4. AddSums(p, r) = Complement(OnesAdd(p, r))
    BY DEF AddSums, OnesAdd
  <2>5. OnesAdd(p, r) \in Words
    BY <2>1, <2>3, OnesAddLaws
  <2> QED
    BY <1>0, <2>2, <2>4, <2>5
<1> QED
  BY <1>1, <1>2

(* A segment as it is in memory.                                           *)
Padded(data, n) == [k \in 1 .. n |-> IF k <= Len(data) THEN data[k] ELSE 0]

(* The zeros behind the data do not count.                                 *)
LEMMA PaddedSum ==
    ASSUME NEW data \in Seq(Bytes), NEW n \in Nat
    PROVE  /\ Padded(data, n) \in Seq(Bytes) /\ Len(Padded(data, n)) = n
           /\ \A k \in 1 .. n : Padded(data, n)[k] = IF k <= Len(data) THEN data[k] ELSE 0
           /\ Len(data) <= n => ipchksum(Padded(data, n)) = ipchksum(data)
<1> DEFINE L == Len(data)
           w == Padded(data, n)
           z == [k \in 1 .. n - L |-> 0]
<1>0. L \in Nat /\ 0 \in Bytes /\ \A k \in 1 .. L : data[k] \in Bytes
  BY LenProperties, ElementOfSeq, Sizes DEF Bytes
<1>l. L = Len(data)
  OBVIOUS
<1>1. \A k \in 1 .. n : w[k] = IF k <= L THEN data[k] ELSE 0
  BY DEF Padded
<1>2. w \in [1 .. n -> Bytes]
  <2> HIDE DEF Bytes
  <2> QED
    BY <1>0 DEF Padded
<1> HIDE DEF Bytes, w, L
<1>3. w \in Seq(Bytes) /\ Len(w) = n
  BY <1>2, FunctionIsSeq
<1>4. ASSUME L <= n PROVE ipchksum(w) = ipchksum(data)
  <2>1. n - L \in Nat
    BY <1>0, <1>4
  <2>2. z \in [1 .. n - L -> Bytes] /\ \A k \in 1 .. n - L : z[k] = 0
    BY <1>0
  <2> HIDE DEF z
  <2>3. z \in Seq(Bytes) /\ Len(z) = n - L
    BY <2>1, <2>2, FunctionIsSeq
  <2> DEFINE c == data \o z
  <2>4. /\ c \in Seq(Bytes) /\ Len(c) = Len(data) + Len(z)
        /\ \A i \in 1 .. Len(data) + Len(z) : c[i] = IF i <= Len(data) THEN data[i] ELSE z[i - Len(data)]
    BY <2>3, ConcatProperties
  <2> HIDE DEF c
  <2>5. Len(c) = n
    BY <1>0, <1>l, <2>1, <2>3, <2>4
  <2>6. ASSUME NEW i \in 1 .. n PROVE w[i] = c[i]
    <3>1. c[i] = IF i <= L THEN data[i] ELSE z[i - L]
      BY <1>l, <2>4, <2>5
    <3>2. i > L => i - L \in 1 .. n - L
      BY <1>0
    <3> QED
      BY <1>0, <1>1, <2>2, <3>1, <3>2
  <2>7. w = c
    BY <1>3, <2>4, <2>5, <2>6, SeqEqual
  <2>8. checksum_partial(c) = OnesAdd(checksum_partial(data), Shifted(Len(data), checksum_partial(z)))
    BY <2>3, SumOfJoin DEF c
  <2>9. checksum_partial(z) = 0
    BY <2>2, <2>3, SumOfZeros
  <2>10. checksum_partial(data) \in Words /\ 0 \in Words
    BY SumTypes, WordSize DEF Words
  <2>11. Shifted(Len(data), 0) = 0
    BY <1>0, <1>l, <2>10, ShiftAdds
  <2>12. OnesAdd(checksum_partial(data), 0) = checksum_partial(data)
    BY <2>10, OnesAddLaws
  <2> QED
    BY <2>7, <2>8, <2>9, <2>11, <2>12 DEF ipchksum
<1> QED
  BY <1>1, <1>3, <1>4 DEF w, L

(* Three sequences can be put in a row in two ways.                        *)
LEMMA Regroup ==
    ASSUME NEW S, NEW a \in Seq(S), NEW b \in Seq(S), NEW c \in Seq(S)
    PROVE  (a \o b) \o c = a \o (b \o c)
OBVIOUS

(* Joining a sequence with one more in front.                              *)
LEMMA JoinedCons ==
    ASSUME NEW S, NEW a \in Seq(S), NEW f \in Seq(Seq(S))
    PROVE  /\ <<a>> \o f \in Seq(Seq(S)) /\ Len(<<a>> \o f) = Len(f) + 1
           /\ Joined(<<a>> \o f, Len(<<a>> \o f)) = a \o Joined(f, Len(f))
<1> DEFINE V == Seq(S)
           N == Len(f)
           h == <<a>>
           g == h \o f
<1>0. N \in Nat /\ \A i \in 1 .. N : f[i] \in V
  BY LenProperties, ElementOfSeq
<1>1. h \in Seq(V) /\ Len(h) = 1 /\ h[1] = a /\ f \in Seq(V)
  OBVIOUS
<1>v. V = Seq(S)
  OBVIOUS
<1> HIDE DEF h, V
<1>n. N = Len(f)
  OBVIOUS
<1>2. /\ g \in Seq(V) /\ Len(g) = Len(h) + Len(f)
      /\ \A k \in 1 .. Len(h) : g[k] = h[k]
      /\ \A k \in 1 .. Len(f) : g[Len(h) + k] = f[k]
  <2>1. h \in Seq(V) /\ f \in Seq(V)
    BY <1>1
  <2> QED
    BY <2>1, ConcatAt
<1> HIDE DEF g, N
<1>3. Len(g) = N + 1 /\ g[1] = a /\ \A k \in 1 .. N : g[1 + k] = f[k]
  BY <1>0, <1>1, <1>2, <1>n
<1>4. /\ Joined(g, 0) = <<>>
      /\ \A i \in 1 .. N + 1 : Joined(g, i) = Joined(g, i - 1) \o g[i]
  <2>1. g \in Seq(Seq(S))
    BY <1>2, <1>v
  <2> QED
    BY <1>3, <2>1, JoinedSteps
<1>5. /\ Joined(f, 0) = <<>>
      /\ \A i \in 1 .. N : Joined(f, i) = Joined(f, i - 1) \o f[i]
      /\ \A i \in 0 .. N : Joined(f, i) \in Seq(S)
  BY <1>n, JoinedSteps
<1> DEFINE Z == {i \in 0 .. N : Joined(g, i + 1) = a \o Joined(f, i)}
<1>6. 0 \in Z
  <2>1. 0 + 1 \in 1 .. N + 1 /\ (0 + 1) - 1 = 0 /\ 0 + 1 = 1 /\ 0 \in 0 .. N
    BY <1>0
  <2>2. Joined(g, 0 + 1) = <<>> \o a
    BY <1>3, <1>4, <2>1
  <2>3. <<>> \o a = a /\ a \o <<>> = a
    BY ConcatEmptySeq
  <2> QED
    BY <1>5, <2>1, <2>2, <2>3
<1>7. ASSUME NEW i \in 0 .. N - 1, i \in Z PROVE i + 1 \in Z
  <2> DEFINE j == i + 1
             x == Joined(f, i)
  <2>1. j \in 1 .. N /\ j - 1 = i /\ j \in 0 .. N /\ j + 1 \in 1 .. N + 1 /\ (j + 1) - 1 = j /\ j + 1 = 1 + j
        /\ i \in 0 .. N
    BY <1>0
  <2>2. Joined(g, j + 1) = Joined(g, j) \o f[j]
    BY <1>3, <1>4, <2>1
  <2>3. Joined(g, j) = a \o x
    BY <1>7
  <2>4. Joined(f, j) = x \o f[j]
    BY <1>5, <2>1
  <2>5. x \in Seq(S) /\ f[j] \in Seq(S)
    BY <1>0, <1>5, <1>v, <2>1
  <2> HIDE DEF x, j
  <2>6. (a \o x) \o f[j] = a \o (x \o f[j])
    <3> DEFINE y == f[j]
    <3>1. a \in Seq(S) /\ x \in Seq(S) /\ y \in Seq(S)
      BY <2>5
    <3> HIDE DEF y
    <3>2. (a \o x) \o y = a \o (x \o y)
      BY <3>1, Regroup
    <3> QED
      BY <3>2 DEF y
  <2>7. Joined(g, j + 1) = a \o Joined(f, j)
    BY <2>2, <2>3, <2>4, <2>6
  <2> QED
    BY <2>1, <2>7 DEF j
<1> HIDE DEF Z
<1>8. N \in Z
  <2>1. \A i \in 0 .. N : i \in Z
    BY <1>0, <1>6, <1>7, UpTo
  <2> QED
    BY <1>0, <2>1
<1>9. Joined(g, N + 1) = a \o Joined(f, N)
  BY <1>8 DEF Z
<1>10. g \in Seq(Seq(S))
  BY <1>2, <1>v
<1> QED
  BY <1>3, <1>9, <1>10, <1>n DEF g, h

-----------------------------------------------------------------------------
-----------------------------------------------------------------------------
(* Where the builder is past reading, probing and so on.                   *)
AtHeaders == {"headers", "sum", "write", "built"}
AtRamdisk == AtHeaders \cup {"ramdisk"}
AtOptions == AtRamdisk \cup {"options"}
AtProbe == AtOptions \cup {"probe"}
AtKernel == AtProbe \cup {"kernel"}

(* The bytes the checksum is about, up to segment n.                       *)
Paddeds == [i \in DOMAIN ehdr |-> Padded(ehdr[i].data, ehdr[i].memsz)]
SummedBytes(n) == ElfHead \o Joined(Paddeds, n)
AllFit == \A i \in DOMAIN ehdr : Len(ehdr[i].data) <= ehdr[i].memsz
SummedUp(n) ==
    /\ summed.checksum \in Words /\ summed.bytes \in Nat
    /\ AllFit => summed.bytes = Len(SummedBytes(n)) /\ summed.checksum = ipchksum(SummedBytes(n))

(* The file that is written, and what is written and still to be written.  *)
WholeFile == ElfHead \o serialize_notes(e_notes(summed.checksum)) \o Joined(Datas, Len(Datas))
Writing == out \in Seq(Nat) /\ bufs \in Seq(Seq(Nat)) /\ out \o Joined(bufs, Len(bufs)) = WholeFile

(* The builder's state, whatever calls stop short or are interrupted.      *)
BuildInv ==
    /\ inv \in Invocations /\ allocated \in Nat
    /\ pc \in {"main", "kernel"} => cut = FALSE
    /\ pc = "main" => kbuf = <<>>
    /\ pc \in AtKernel => BufferedKernel
    /\ pc \in AtProbe => (cut = FALSE => Len(kbuf) = Len(KernelData))
    /\ pc \in AtOptions => ParsedKernel
    /\ pc \in {"main", "kernel", "probe", "options"} => rbuf = <<>>
    /\ pc \in AtRamdisk => Wanted /\ BufferedRamdisk
    /\ pc \in AtHeaders => Len(rbuf) = Len(RamdiskData) /\ ehdr = e_phdr
    /\ pc \notin {"write", "built", "died"} => out = <<>>
    /\ pc = "sum" => bufs = <<ElfHead>> /\ summed.i \in 1 .. Len(ehdr) + 1 /\ SummedUp(summed.i - 1)
    /\ pc \in {"write", "built"} => SummedUp(Len(ehdr))
    /\ pc = "write" => Writing
    /\ pc = "built" => out = WholeFile

(* What the invocation alone decides.                                      *)
LEMMA SameInvocation ==
    ASSUME inv' = inv
    PROVE  kernel' = kernel /\ output' = output /\ KernelData' = KernelData
<1> DEFINE last(v, names, default) ==
             LET g == {i \in DOMAIN v.opts : v.opts[i].name \in names}
             IN IF g = {} THEN default ELSE v.opts[CHOOSE i \in g : \A j \in g : j <= i].arg
<1>a. LastGiven({"kernel"}, None) = last(inv, {"kernel"}, None)
      /\ LastGiven({"output"}, None) = last(inv, {"output"}, None)
  BY Zenon DEF LastGiven, Given
<1>b. LastGiven({"kernel"}, None)' = last(inv', {"kernel"}, None)
      /\ LastGiven({"output"}, None)' = last(inv', {"output"}, None)
  BY Zenon DEF LastGiven, Given
<1> HIDE DEF last
<1>1. LastGiven({"kernel"}, None)' = LastGiven({"kernel"}, None)
  BY <1>a, <1>b, Zenon
<1>2. LastGiven({"output"}, None)' = LastGiven({"output"}, None)
  BY <1>a, <1>b, Zenon
<1>3. kernel' = kernel
  BY <1>1, Zenon DEF kernel
<1>4. output' = output
  BY <1>2, Zenon DEF output
<1> QED
  BY <1>3, <1>4, Zenon DEF KernelData

(* What was read of the kernel decides the rest about it.                  *)
LEMMA SameKernel ==
    ASSUME inv' = inv, kbuf' = kbuf
    PROVE  /\ BufferedKernel => BufferedKernel'
           /\ KernelData' = KernelData /\ Header' = Header
           /\ parser' = parser => (ParsedKernel => ParsedKernel') /\ KernelVersion' = KernelVersion
                                  /\ parse_kernel' = parse_kernel
<1>1. kernel' = kernel /\ KernelData' = KernelData
  BY SameInvocation
<1>2. BufferedKernel => BufferedKernel'
  BY <1>1, Zenon DEF BufferedKernel
<1>3. Header' = Header
  BY <1>1, Zenon DEF Header
<1>4. ASSUME parser' = parser
      PROVE  (ParsedKernel => ParsedKernel') /\ KernelVersion' = KernelVersion /\ parse_kernel' = parse_kernel
  <2>1. ParsedKernel => ParsedKernel'
    BY <1>3, <1>4, Zenon DEF ParsedKernel, SetupCells
  <2>2. KernelVersion' = KernelVersion
    BY <1>3, <1>4, Zenon DEF KernelVersion
  <2>3. parse_bzImage_kernel' = parse_bzImage_kernel
    BY <1>3, <1>4, Zenon DEF parse_bzImage_kernel, SetupCells, Slice, Segment
  <2>4. parse_elf32_kernel' = parse_elf32_kernel
    BY <1>3, <1>4, Zenon DEF parse_elf32_kernel, Loads, ElfSegment, Segment, Slice
  <2> QED
    BY <1>4, <2>1, <2>2, <2>3, <2>4, Zenon DEF parse_kernel
<1> QED
  BY <1>1, <1>2, <1>3, <1>4

(* What the options decide.                                                *)
LEMMA SameWant ==
    ASSUME want' = want
    PROVE  /\ Wanted => Wanted'
           /\ RamdiskData' = RamdiskData /\ ramdisk_size' = ramdisk_size
           /\ payload' = payload
           /\ rbuf' = rbuf /\ left' = left => (BufferedRamdisk => BufferedRamdisk')
<1>1. Wanted => Wanted'
  BY Zenon DEF Wanted
<1>2. RamdiskData' = RamdiskData /\ ramdisk_size' = ramdisk_size
  BY Zenon DEF RamdiskData, ramdisk_size
<1>3. payload' = payload
  BY <1>2, Zenon DEF payload, ParamCmdline
<1>4. rbuf' = rbuf /\ left' = left => (BufferedRamdisk => BufferedRamdisk')
  BY <1>2, Zenon DEF BufferedRamdisk
<1> QED
  BY <1>1, <1>2, <1>3, <1>4

(* What the headers decide.                                                *)
LEMMA SameHeaders ==
    ASSUME ehdr' = ehdr, KernelVersion' = KernelVersion
    PROVE  /\ ElfHead' = ElfHead /\ Datas' = Datas /\ NoteCells' = NoteCells
           /\ \A c : serialize_notes(e_notes(c))' = serialize_notes(e_notes(c))
           /\ \A n : SummedBytes(n)' = SummedBytes(n)
           /\ AllFit' = AllFit /\ HeadCells' = HeadCells
<1>1. HeadCells' = HeadCells
  BY Zenon DEF HeadCells
<1>2. NoteCells' = NoteCells
  BY Zenon DEF NoteCells, e_notes
<1>3. \A c : serialize_notes(e_notes(c))' = serialize_notes(e_notes(c))
  BY Zenon DEF e_notes
<1>4. Datas' = Datas
  BY Zenon DEF Datas
<1>5. ElfHead' = ElfHead
  <2>1. serialize_ehdr' = serialize_ehdr
    BY Zenon DEF serialize_ehdr
  <2>2. e_notes(0)' = e_notes(0)
    BY Zenon DEF e_notes
  <2>3. serialize_phdrs(sizeof_notes(e_notes(0)))' = serialize_phdrs(sizeof_notes(e_notes(0)))
    BY <1>1, <2>2, Zenon DEF serialize_phdrs
  <2> QED
    BY <2>1, <2>3, Zenon DEF ElfHead
<1>6. Paddeds' = Paddeds
  BY Zenon DEF Paddeds
<1>7. \A n : SummedBytes(n)' = SummedBytes(n)
  BY <1>5, <1>6, Zenon DEF SummedBytes
<1>8. AllFit' = AllFit
  BY DEF AllFit
<1> QED
  BY <1>1, <1>2, <1>3, <1>4, <1>5, <1>7, <1>8

(* The program ends, or gives up.                                          *)
LEMMA StepQuit ==
    ASSUME BuildInv, MainHelp \/ MainError \/ Fail
    PROVE  BuildInv'
<1>1. pc' \in {"exit", "died"} /\ UNCHANGED <<inv, allocated, out>> /\ (pc' = "exit" => pc = "main")
  BY DEF MainHelp, MainError, Fail
<1> QED
  BY <1>1 DEF BuildInv, AtKernel, AtProbe, AtOptions, AtRamdisk, AtHeaders

(* main opens the kernel.                                                  *)
LEMMA StepStart ==
    ASSUME BuildInv, MainStart
    PROVE  BuildInv'
<1>1. /\ pc = "main" /\ pc' \in {"kernel", "died"} /\ (pc' = "kernel" => kernel \in DOMAIN Kernels)
      /\ UNCHANGED <<inv, kbuf, allocated, rbuf, out, cut>>
  BY DEF MainStart
<1>2. kernel' = kernel /\ KernelData' = KernelData
  BY <1>1, SameInvocation
<1>3. ASSUME pc' = "kernel" PROVE BufferedKernel'
  <2>1. KernelData \in Seq(Bytes)
    BY <1>1, <1>3, BuilderAssumption DEF KernelFile, KernelData
  <2>2. kbuf' = <<>>
    BY <1>1 DEF BuildInv
  <2>3. kbuf' \in Seq(Bytes) /\ Len(kbuf') = 0 /\ Len(KernelData) \in Nat
    BY <2>1, <2>2, LenProperties
  <2> QED
    BY <1>1, <1>2, <1>3, <2>3 DEF BufferedKernel
<1> QED
  BY <1>1, <1>3 DEF BuildInv, AtKernel, AtProbe, AtOptions, AtRamdisk, AtHeaders

(* gzread delivers a part of the file.                                     *)
LEMMA StepGzRead ==
    ASSUME BuildInv, GzRead
    PROVE  BuildInv'
<1>1. pc = "kernel" /\ UNCHANGED <<pc, inv, rbuf, out, cut>>
  BY DEF GzRead
<1>2. BufferedKernel
  BY <1>1 DEF BuildInv, AtKernel
<1>3. kernel' = kernel /\ KernelData' = KernelData
  BY <1>1, SameInvocation
<1>4. KernelData \in Seq(Bytes) /\ Len(KernelData) \in Nat /\ Len(kbuf) \in Nat
  BY <1>2, BuilderAssumption, LenProperties DEF KernelFile, KernelData, BufferedKernel
<1> DEFINE room == IF Len(kbuf) = allocated THEN 2 * allocated ELSE allocated
<1>r. room \in Nat
  BY DEF BuildInv
<1>5. PICK n \in 1 .. Smaller(room - Len(kbuf), KernelLeft) : kbuf' = SubSeq(KernelData, 1, Len(kbuf) + n)
  BY Zenon DEF GzRead, KernelData
<1>a. allocated' = room
  BY Zenon DEF GzRead
<1> HIDE DEF room
<1>6. KernelLeft = Len(KernelData) - Len(kbuf)
  BY DEF KernelLeft, KernelData
<1>7. n \in Nat /\ n <= KernelLeft
  <2>1. n \in Nat /\ n >= 1 /\ n <= Smaller(room - Len(kbuf), KernelLeft)
    BY <1>5
  <2> QED
    BY <1>4, <1>6, <1>r, <2>1 DEF Smaller
<1> DEFINE m == Len(kbuf) + n
<1>8. m \in 1 - 1 .. Len(KernelData) /\ m \in Nat
  BY <1>4, <1>6, <1>7
<1> HIDE DEF m
<1>9. kbuf' \in Seq(Bytes) /\ Len(kbuf') = m /\ \A k \in 1 .. m : kbuf'[k] = KernelData[k]
  <2>1. kbuf' = SubSeq(KernelData, 1, m)
    BY <1>5 DEF m
  <2> QED
    BY <1>4, <1>8, <2>1, SubSeqProperties
<1>10. BufferedKernel'
  BY <1>2, <1>3, <1>4, <1>8, <1>9 DEF BufferedKernel
<1> QED
  BY <1>1, <1>r, <1>a, <1>10 DEF BuildInv, AtKernel, AtProbe, AtOptions, AtRamdisk, AtHeaders

(* gzread says that the file is at its end, or is interrupted.             *)
LEMMA StepGzEnd ==
    ASSUME BuildInv, GzEnd \/ GzInterrupted
    PROVE  BuildInv'
<1>1. pc = "kernel" /\ pc' = "probe" /\ UNCHANGED <<inv, kbuf, allocated, rbuf, out>>
  BY DEF GzEnd, GzInterrupted
<1>2. BufferedKernel /\ cut = FALSE
  BY <1>1 DEF BuildInv, AtKernel
<1>3. BufferedKernel' /\ KernelData' = KernelData
  BY <1>1, <1>2, SameKernel
<1>4. Len(KernelData) \in Nat /\ Len(kbuf) \in Nat /\ Len(kbuf) <= Len(KernelData)
  BY <1>2, BuilderAssumption, LenProperties DEF KernelFile, KernelData, BufferedKernel
<1>5. KernelLeft = 0 \/ cut' = (KernelLeft > 0)
  BY DEF GzEnd, GzInterrupted
<1>6. KernelLeft = Len(KernelData) - Len(kbuf)
  BY DEF KernelLeft, KernelData
<1>7. cut' = FALSE => Len(kbuf') = Len(KernelData)'
  <2>1. CASE KernelLeft > 0
    <3>1. KernelLeft # 0
      BY <2>1
    <3> QED
      BY <1>5, <2>1, <3>1, Zenon
  <2>2. CASE ~(KernelLeft > 0)
    BY <1>1, <1>3, <1>4, <1>6, <2>2
  <2> QED
    BY <2>1, <2>2
<1> QED
  BY <1>1, <1>3, <1>7 DEF BuildInv, AtKernel, AtProbe, AtOptions, AtRamdisk, AtHeaders

(* The kernel is of a type that is known.                                  *)
LEMMA StepProbe ==
    ASSUME BuildInv, Probe
    PROVE  BuildInv'
<1> DEFINE fits == {i \in DOMAIN file_type : asked_type \in {None, file_type[i].name} /\ file_type[i].ok}
<1>1. pc = "probe" /\ pc' = (IF fits = {} THEN "died" ELSE "options") /\ UNCHANGED <<inv, kbuf, allocated, rbuf, out, cut>>
      /\ parser' = IF fits = {} THEN parser ELSE IF bzImage_i386_probe THEN "bzImage" ELSE "elf32"
  BY DEF Probe
<1>2. BufferedKernel' /\ KernelData' = KernelData /\ Header' = Header
  BY <1>1, SameKernel DEF BuildInv, AtKernel, AtProbe
<1>3. ASSUME fits # {} PROVE ParsedKernel'
  <2>1. bzImage_i386_probe \/ vmlinux_i386_probe
    <3>1. PICK i \in DOMAIN file_type : file_type[i].ok
      BY <1>3
    <3>2. DOMAIN file_type = 1 .. 3
      BY DEF file_type
    <3>3. file_type[1].ok = linux_i386_probe /\ file_type[2].ok = bzImage_i386_probe
          /\ file_type[3].ok = vmlinux_i386_probe
      BY DEF file_type
    <3>4. i = 1 \/ i = 2 \/ i = 3
      BY <3>2
    <3> QED
      BY <3>1, <3>3, <3>4, Zenon DEF linux_i386_probe
  <2>2. Header.format \in {"HdrS", "ELF32"} => Len(kbuf) >= HeaderCells
    BY DEF Header
  <2>3. CASE bzImage_i386_probe
    <3>1. parser' = "bzImage" /\ Header.format = "HdrS" /\ SetupCells(Header) <= Len(kbuf)
      BY <1>1, <1>3, <2>3 DEF bzImage_i386_probe
    <3>2. SetupCells(Header)' = SetupCells(Header)
      BY <1>2, Zenon DEF SetupCells
    <3> QED
      BY <1>1, <1>2, <2>2, <3>1, <3>2 DEF ParsedKernel
  <2>4. CASE ~bzImage_i386_probe
    BY <1>1, <1>2, <1>3, <2>1, <2>2, <2>4 DEF vmlinux_i386_probe, ParsedKernel
  <2> QED
    BY <2>3, <2>4
<1>4. cut' = FALSE => Len(kbuf') = Len(KernelData)'
  BY <1>1, <1>2 DEF BuildInv, AtProbe
<1> HIDE DEF fits
<1> QED
  BY <1>1, <1>2, <1>3, <1>4 DEF BuildInv, AtKernel, AtProbe, AtOptions, AtRamdisk, AtHeaders

(* What the last of some options says.                                     *)
LEMMA LastGivenIs ==
    ASSUME inv \in Invocations, NEW names, NEW default
    PROVE  \/ Given(names) = {} /\ LastGiven(names, default) = default
           \/ \E i \in Given(names) : LastGiven(names, default) = inv.opts[i].arg
<1>1. CASE Given(names) = {}
  BY <1>1 DEF LastGiven
<1>2. CASE Given(names) # {}
  <2>1. Len(inv.opts) \in Nat /\ DOMAIN inv.opts = 1 .. Len(inv.opts)
    BY BuilderAssumption
  <2>2. Given(names) \subseteq 1 .. Len(inv.opts)
    BY <2>1 DEF Given
  <2>3. \E i \in Given(names) : \A j \in Given(names) : j <= i
    <3> DEFINE S == Given(names)
               N == Len(inv.opts)
    <3>1. S # {} /\ S \subseteq Nat /\ N \in Nat /\ \A x \in S : x <= N
      BY <1>2, <2>1, <2>2
    <3> HIDE DEF S, N
    <3>2. PICK m \in S : \A k \in S : k <= m
      BY <3>1, LargestNat
    <3> QED
      BY <3>2 DEF S
  <2> DEFINE c == CHOOSE i \in Given(names) : \A j \in Given(names) : j <= i
  <2>4. c \in Given(names)
    BY <2>3
  <2>5. LastGiven(names, default) = inv.opts[c].arg
    BY <1>2, Zenon DEF LastGiven
  <2> QED
    BY <2>4, <2>5
<1> QED
  BY <1>1, <1>2

(* The options are parsed, and the ramdisk is opened.                      *)
LEMMA StepOptions ==
    ASSUME BuildInv, ParseOptions
    PROVE  BuildInv'
<1> DEFINE bad == \/ \E i \in DOMAIN inv.opts : inv.opts[i].name \notin KnownOptions
                  \/ \E i \in Given({"ramdisk-base"}) : inv.opts[i].arg \notin DOMAIN strtoul
           base == LastGiven({"ramdisk-base"}, None)
           ramdisk == LastGiven({"initrd", "ramdisk", "ramdisk-base"}, None)
           line == LastGiven({"command-line", "append"}, <<>>)
<1>1. /\ pc = "options"
      /\ pc' = IF bad \/ ramdisk \notin DOMAIN Ramdisks \cup {None} THEN "died" ELSE "ramdisk"
      /\ want' = IF bad THEN want
                 ELSE [ramdisk |-> ramdisk,
                       base |-> IF base = None THEN DEFAULT_RAMDISK_BASE ELSE strtoul[base],
                       cmdline |-> line]
      /\ left' = IF ~bad /\ ramdisk \in DOMAIN Ramdisks THEN Len(Ramdisks[ramdisk]) ELSE 0
      /\ UNCHANGED <<inv, kbuf, allocated, parser, rbuf, ehdr, summed, bufs, out, cut, interrupts>>
  BY Zenon DEF ParseOptions
<1>2. inv \in Invocations
  BY DEF BuildInv
<1>3. line \in Seq(Bytes \ {0})
  <2>1. ASSUME NEW i \in Given({"command-line", "append"}) PROVE inv.opts[i].arg \in Seq(Bytes \ {0})
    BY <1>2, BuilderAssumption DEF Given
  <2>2. <<>> \in Seq(Bytes \ {0})
    BY EmptySeq
  <2> QED
    BY <1>2, <2>1, <2>2, LastGivenIs
<1>4. ~bad => base = None \/ base \in DOMAIN strtoul
  <2> SUFFICES ASSUME ~bad PROVE base = None \/ base \in DOMAIN strtoul
    OBVIOUS
  <2>1. \A i \in Given({"ramdisk-base"}) : inv.opts[i].arg \in DOMAIN strtoul
    OBVIOUS
  <2> QED
    BY <1>2, <2>1, LastGivenIs
<1> HIDE DEF bad, base, ramdisk, line
<1>5. ASSUME pc' = "ramdisk" PROVE Wanted' /\ BufferedRamdisk'
  <2>1. ~bad /\ ramdisk \in DOMAIN Ramdisks \cup {None}
    BY <1>1, <1>5
  <2>2. want' = [ramdisk |-> ramdisk,
                 base |-> IF base = None THEN DEFAULT_RAMDISK_BASE ELSE strtoul[base],
                 cmdline |-> line]
    BY <1>1, <2>1
  <2>3. want'.base \in Nat
    BY <1>4, <2>1, <2>2, BuilderAssumption
  <2>4. Wanted'
    BY <1>3, <2>1, <2>2, <2>3 DEF Wanted
  <2>5. rbuf' = <<>>
    BY <1>1 DEF BuildInv
  <2>6. RamdiskData' = IF ramdisk = None THEN <<>> ELSE Ramdisks[ramdisk]
    BY <2>2 DEF RamdiskData
  <2>7. RamdiskData' \in Seq(Bytes)
    BY <2>1, <2>6, BuilderAssumption, EmptySeq
  <2>8. left' = 0 \/ (left' = Len(RamdiskData)' /\ ramdisk # None)
    <3>1. CASE ramdisk = None
      BY <1>1, <3>1, BuilderAssumption
    <3>2. CASE ramdisk # None
      BY <1>1, <2>1, <2>6, <3>2
    <3> QED
      BY <3>1, <3>2
  <2>9. rbuf' \in Seq(Bytes) /\ Len(rbuf') = 0 /\ Len(RamdiskData') \in Nat
    BY <2>5, <2>7, LenProperties
  <2>10. BufferedRamdisk'
    BY <2>8, <2>9 DEF BufferedRamdisk
  <2> QED
    BY <2>4, <2>10
<1>6. BufferedKernel' /\ KernelData' = KernelData /\ ParsedKernel'
  BY <1>1, SameKernel DEF BuildInv, AtKernel, AtProbe, AtOptions
<1>7. cut' = FALSE => Len(kbuf') = Len(KernelData)'
  BY <1>1, <1>6 DEF BuildInv, AtProbe, AtOptions
<1> QED
  BY <1>1, <1>5, <1>6, <1>7 DEF BuildInv, AtKernel, AtProbe, AtOptions, AtRamdisk, AtHeaders

(* read of the ramdisk delivers a part, is interrupted or finds nothing.   *)
LEMMA StepRead ==
    ASSUME BuildInv, ReadRamdisk \/ ReadInterrupted \/ RamdiskShrinks \/ ReadNothing
    PROVE  BuildInv'
<1>1. pc = "ramdisk" /\ UNCHANGED <<pc, inv, kbuf, allocated, parser, want, out, cut>>
  BY DEF ReadRamdisk, ReadInterrupted, RamdiskShrinks, ReadNothing, ivars
<1>2. BufferedKernel' /\ KernelData' = KernelData /\ ParsedKernel'
  BY <1>1, SameKernel DEF BuildInv, AtKernel, AtProbe, AtOptions, AtRamdisk
<1>3. Wanted' /\ RamdiskData' = RamdiskData
  BY <1>1, SameWant DEF BuildInv, AtRamdisk
<1>4. cut' = FALSE => Len(kbuf') = Len(KernelData)'
  BY <1>1, <1>2 DEF BuildInv, AtProbe, AtOptions, AtRamdisk
<1>5. Wanted /\ BufferedRamdisk
  BY <1>1 DEF BuildInv, AtRamdisk
<1>6. RamdiskData \in Seq(Bytes) /\ Len(RamdiskData) \in Nat /\ ramdisk_size = Len(RamdiskData)
  BY <1>5, RamdiskIs, LenProperties
<1>7. rbuf \in Seq(Bytes) /\ left \in Nat /\ Len(rbuf) + left <= Len(RamdiskData) /\ Len(rbuf) \in Nat
      /\ \A k \in 1 .. Len(rbuf) : rbuf[k] = RamdiskData[k]
  BY <1>5, LenProperties DEF BufferedRamdisk
<1>8. BufferedRamdisk'
  <2>1. CASE ReadRamdisk
    <3>1. PICK n \in 1 .. left :
             rbuf' = SubSeq(Ramdisks[want.ramdisk], 1, Len(rbuf) + n) /\ left' = left - n
      BY <2>1 DEF ReadRamdisk
    <3>2. want.ramdisk # None
      <4>1. Len(rbuf) < ramdisk_size
        BY <2>1 DEF ReadRamdisk
      <4> QED
        BY <1>7, <4>1 DEF ramdisk_size
    <3>3. RamdiskData = Ramdisks[want.ramdisk]
      BY <3>2 DEF RamdiskData
    <3> DEFINE m == Len(rbuf) + n
    <3>4. m \in 1 - 1 .. Len(RamdiskData) /\ m \in Nat /\ left' \in Nat /\ m + left' <= Len(RamdiskData)
      BY <1>6, <1>7, <3>1
    <3>5. rbuf' = SubSeq(RamdiskData, 1, m)
      BY <3>1, <3>3
    <3> HIDE DEF m
    <3>6. rbuf' \in Seq(Bytes) /\ Len(rbuf') = m /\ \A k \in 1 .. m : rbuf'[k] = RamdiskData[k]
      BY <1>6, <3>4, <3>5, SubSeqProperties
    <3> QED
      BY <1>3, <3>4, <3>6 DEF BufferedRamdisk
  <2>2. CASE RamdiskShrinks
    <3>1. rbuf' = rbuf /\ left' = 0
      BY <2>2 DEF RamdiskShrinks
    <3> QED
      BY <1>3, <1>6, <1>7, <3>1 DEF BufferedRamdisk
  <2>3. CASE ReadInterrupted \/ ReadNothing
    <3>1. rbuf' = rbuf /\ left' = left
      BY <2>3 DEF ReadInterrupted, ReadNothing, ivars
    <3> QED
      BY <1>1, <1>5, <3>1, SameWant
  <2> QED
    BY <2>1, <2>2, <2>3
<1> QED
  BY <1>1, <1>2, <1>3, <1>4, <1>8 DEF BuildInv, AtKernel, AtProbe, AtOptions, AtRamdisk, AtHeaders

(* Everything about the headers is known once they are filled in.          *)
LEMMA HeadersKnown ==
    ASSUME BuildInv, pc \in AtHeaders
    PROVE  /\ Phdrs(ehdr) /\ KernelVersion \in Seq(Bytes) /\ NoteCells \in Nat
           /\ BufferedKernel /\ ParsedKernel /\ Wanted /\ BufferedRamdisk
           /\ Len(rbuf) = Len(RamdiskData) /\ ehdr = e_phdr
           /\ (cut = FALSE => Len(kbuf) = Len(KernelData))
<1>1. /\ BufferedKernel /\ ParsedKernel /\ Wanted /\ BufferedRamdisk
      /\ Len(rbuf) = Len(RamdiskData) /\ ehdr = e_phdr
      /\ (cut = FALSE => Len(kbuf) = Len(KernelData))
  BY DEF BuildInv, AtKernel, AtProbe, AtOptions, AtRamdisk
<1>2. Phdrs(ehdr)
  BY <1>1, EhdrIs
<1>3. KernelVersion \in Seq(Bytes)
  <2>1. CASE parser = "bzImage"
    BY <1>1, <2>1, HeaderIs DEF KernelVersion
  <2>2. CASE parser # "bzImage"
    <3>1. 1 \in Bytes
      BY Sizes DEF Bytes
    <3> HIDE DEF Bytes
    <3>2. <<1>> \in Seq(Bytes)
      BY <3>1
    <3> QED
      BY <2>2, <3>2 DEF KernelVersion
  <2> QED
    BY <2>1, <2>2
<1>4. 0 \in Words
  BY WordSize DEF Words
<1>5. NoteCells \in Nat
  BY <1>3, <1>4, NotesAre DEF NoteCells
<1> QED
  BY <1>1, <1>2, <1>3, <1>5

(* What stays as it was while the image is written.                        *)
LEMMA HeadersStay ==
    ASSUME BuildInv, pc \in AtHeaders, pc' \in AtHeaders,
           UNCHANGED <<inv, kbuf, allocated, parser, want, rbuf, left, ehdr, cut>>
    PROVE  /\ inv' \in Invocations /\ allocated' \in Nat
           /\ BufferedKernel' /\ ParsedKernel' /\ Wanted' /\ BufferedRamdisk'
           /\ (cut' = FALSE => Len(kbuf') = Len(KernelData)')
           /\ Len(rbuf') = Len(RamdiskData)' /\ ehdr' = e_phdr'
           /\ KernelVersion' = KernelVersion
<1>1. /\ BufferedKernel /\ ParsedKernel /\ Wanted /\ BufferedRamdisk
      /\ Len(rbuf) = Len(RamdiskData) /\ ehdr = e_phdr
      /\ (cut = FALSE => Len(kbuf) = Len(KernelData))
  BY HeadersKnown
<1>2. BufferedKernel' /\ KernelData' = KernelData /\ ParsedKernel' /\ KernelVersion' = KernelVersion
      /\ parse_kernel' = parse_kernel
  BY <1>1, SameKernel
<1>3. Wanted' /\ RamdiskData' = RamdiskData /\ BufferedRamdisk' /\ payload' = payload
      /\ ramdisk_size' = ramdisk_size
  BY <1>1, SameWant
<1>4. e_phdr' = e_phdr
  BY <1>2, <1>3, Zenon DEF e_phdr
<1> QED
  BY <1>1, <1>2, <1>3, <1>4 DEF BuildInv

(* The bytes that are summed, segment by segment.                          *)
LEMMA SummedSteps ==
    ASSUME Phdrs(ehdr), NoteCells \in Nat
    PROVE  /\ SummedBytes(0) = ElfHead
           /\ \A n \in 0 .. Len(ehdr) : SummedBytes(n) \in Seq(Bytes)
           /\ \A n \in 1 .. Len(ehdr) :
                 SummedBytes(n) = SummedBytes(n - 1) \o Padded(ehdr[n].data, ehdr[n].memsz)
<1> DEFINE L == Len(ehdr)
<1>1. L \in Nat /\ DOMAIN ehdr = 1 .. L
      /\ \A i \in 1 .. L : ehdr[i].data \in Seq(Bytes) /\ ehdr[i].memsz \in Nat
  BY PhdrTypes
<1>2. ElfHead \in Seq(Bytes)
  BY HeadIs
<1>3. ASSUME NEW i \in 1 .. L PROVE Padded(ehdr[i].data, ehdr[i].memsz) \in Seq(Bytes)
  BY <1>1, PaddedSum
<1> HIDE DEF L
<1>4. Paddeds \in [1 .. L -> Seq(Bytes)] /\ \A i \in 1 .. L : Paddeds[i] = Padded(ehdr[i].data, ehdr[i].memsz)
  BY <1>1, <1>3 DEF Paddeds
<1>5. Paddeds \in Seq(Seq(Bytes)) /\ Len(Paddeds) = L
  BY <1>1, <1>4, FunctionIsSeq
<1>6. /\ Joined(Paddeds, 0) = <<>>
      /\ \A i \in 1 .. L : Joined(Paddeds, i) = Joined(Paddeds, i - 1) \o Paddeds[i]
      /\ \A i \in 0 .. L : Joined(Paddeds, i) \in Seq(Bytes)
  BY <1>5, JoinedSteps
<1>7. SummedBytes(0) = ElfHead
  BY <1>2, <1>6, ConcatEmptySeq DEF SummedBytes
<1>8. ASSUME NEW n \in 0 .. L PROVE SummedBytes(n) \in Seq(Bytes)
  BY <1>2, <1>6, ConcatProperties DEF SummedBytes
<1>9. ASSUME NEW n \in 1 .. L
      PROVE  SummedBytes(n) = SummedBytes(n - 1) \o Padded(ehdr[n].data, ehdr[n].memsz)
  <2> DEFINE a == Joined(Paddeds, n - 1)
             b == Padded(ehdr[n].data, ehdr[n].memsz)
  <2>1. n - 1 \in 0 .. L
    BY <1>1
  <2>2. a \in Seq(Bytes) /\ b \in Seq(Bytes) /\ Joined(Paddeds, n) = a \o b
    BY <1>3, <1>4, <1>6, <2>1
  <2> HIDE DEF a, b
  <2>3. (ElfHead \o a) \o b = ElfHead \o (a \o b)
    BY <1>2, <2>2, Regroup
  <2>4. SummedBytes(n - 1) = ElfHead \o a
    BY DEF SummedBytes, a
  <2>5. SummedBytes(n) = ElfHead \o (a \o b)
    BY <2>2 DEF SummedBytes
  <2> QED
    BY <2>3, <2>4, <2>5 DEF b
<1> QED
  BY <1>7, <1>8, <1>9 DEF L

(* linux_i386_mkelf fills in the headers.                                  *)
LEMMA StepFill ==
    ASSUME BuildInv, FillHeaders
    PROVE  BuildInv'
<1>1. /\ pc = "ramdisk" /\ pc' = "headers" /\ Len(rbuf) = ramdisk_size /\ ehdr' = e_phdr
      /\ UNCHANGED <<inv, kbuf, allocated, parser, want, rbuf, left, out, cut>>
  BY DEF FillHeaders
<1>2. BufferedKernel /\ ParsedKernel /\ Wanted /\ BufferedRamdisk
      /\ (cut = FALSE => Len(kbuf) = Len(KernelData)) /\ out = <<>>
  BY <1>1 DEF BuildInv, AtKernel, AtProbe, AtOptions, AtRamdisk
<1>3. BufferedKernel' /\ KernelData' = KernelData /\ ParsedKernel' /\ parse_kernel' = parse_kernel
  BY <1>1, <1>2, SameKernel
<1>4. Wanted' /\ RamdiskData' = RamdiskData /\ BufferedRamdisk' /\ payload' = payload
      /\ ramdisk_size' = ramdisk_size
  BY <1>1, <1>2, SameWant
<1>5. e_phdr' = e_phdr
  BY <1>1, <1>3, <1>4, Zenon DEF e_phdr
<1>6. Len(rbuf') = Len(RamdiskData)'
  BY <1>1, <1>2, <1>4, RamdiskIs
<1>7. cut' = FALSE => Len(kbuf') = Len(KernelData)'
  BY <1>1, <1>2, <1>3
<1>8. inv' \in Invocations /\ allocated' \in Nat
  BY <1>1 DEF BuildInv
<1> QED
  BY <1>1, <1>2, <1>3, <1>4, <1>5, <1>6, <1>7, <1>8
     DEF BuildInv, AtKernel, AtProbe, AtOptions, AtRamdisk, AtHeaders

(* write_elf starts with the headers and their checksum.                   *)
LEMMA StepSerialize ==
    ASSUME BuildInv, SerializeHeaders
    PROVE  BuildInv'
<1>1. /\ pc = "headers" /\ pc' = "sum" /\ bufs' = <<ElfHead>>
      /\ summed' = [checksum |-> ipchksum(bufs'[1]), bytes |-> HeadCells, i |-> 1]
      /\ UNCHANGED <<inv, kbuf, allocated, parser, want, rbuf, left, ehdr, out, cut>>
  BY DEF SerializeHeaders
<1>2. pc \in AtHeaders /\ pc' \in AtHeaders
  BY <1>1 DEF AtHeaders
<1>3. Phdrs(ehdr) /\ NoteCells \in Nat
  BY <1>2, HeadersKnown
<1>4. /\ inv' \in Invocations /\ allocated' \in Nat
      /\ BufferedKernel' /\ ParsedKernel' /\ Wanted' /\ BufferedRamdisk'
      /\ (cut' = FALSE => Len(kbuf') = Len(KernelData)')
      /\ Len(rbuf') = Len(RamdiskData)' /\ ehdr' = e_phdr' /\ KernelVersion' = KernelVersion
  BY <1>1, <1>2, HeadersStay
<1>5. ElfHead' = ElfHead /\ SummedBytes(0)' = SummedBytes(0) /\ ehdr' = ehdr
  BY <1>1, <1>4, SameHeaders
<1>6. ElfHead \in Seq(Bytes) /\ Len(ElfHead) = HeadCells /\ HeadCells \in Nat /\ SummedBytes(0) = ElfHead
      /\ Len(ehdr) \in Nat
  BY <1>3, HeadIs, SummedSteps, PhdrTypes
<1>7. bufs'[1] = ElfHead
  BY <1>1
<1>8. summed'.i = 1 /\ summed'.bytes = HeadCells /\ summed'.checksum = ipchksum(ElfHead)
  BY <1>1, <1>7
<1>9. ipchksum(ElfHead) \in Words
  BY <1>6, SumTypes
<1>10. SummedUp(0)'
  BY <1>5, <1>6, <1>8, <1>9 DEF SummedUp
<1>11. SummedUp(summed.i - 1)' /\ summed'.i \in 1 .. Len(ehdr') + 1
  BY <1>5, <1>6, <1>8, <1>10
<1>12. bufs' = <<ElfHead'>> /\ out' = <<>>
  BY <1>1, <1>5 DEF BuildInv
<1> QED
  BY <1>1, <1>4, <1>11, <1>12
     DEF BuildInv, AtKernel, AtProbe, AtOptions, AtRamdisk, AtHeaders

(* The checksum loop takes the next segment.                               *)
LEMMA StepSum ==
    ASSUME BuildInv, SumSegment
    PROVE  BuildInv'
<1>1. /\ pc = "sum" /\ pc' = "sum" /\ summed.i <= Len(ehdr) /\ bufs' = bufs
      /\ summed' = [checksum |-> add_ipchksums(summed.bytes, summed.checksum, ipchksum(ehdr[summed.i].data)),
                    bytes |-> summed.bytes + ehdr[summed.i].memsz,
                    i |-> summed.i + 1]
      /\ UNCHANGED <<inv, kbuf, allocated, parser, want, rbuf, left, ehdr, out, cut>>
  BY DEF SumSegment
<1>2. pc \in AtHeaders /\ pc' \in AtHeaders
  BY <1>1 DEF AtHeaders
<1>3. Phdrs(ehdr) /\ NoteCells \in Nat
  BY <1>2, HeadersKnown
<1>4. /\ inv' \in Invocations /\ allocated' \in Nat
      /\ BufferedKernel' /\ ParsedKernel' /\ Wanted' /\ BufferedRamdisk'
      /\ (cut' = FALSE => Len(kbuf') = Len(KernelData)')
      /\ Len(rbuf') = Len(RamdiskData)' /\ ehdr' = e_phdr' /\ KernelVersion' = KernelVersion
  BY <1>1, <1>2, HeadersStay
<1>5. ElfHead' = ElfHead /\ ehdr' = ehdr /\ AllFit' = AllFit
      /\ \A n : SummedBytes(n)' = SummedBytes(n)
  BY <1>1, <1>4, SameHeaders
<1> DEFINE i == summed.i
           data == ehdr[i].data
           memsz == ehdr[i].memsz
           a == SummedBytes(i - 1)
           b == Padded(data, memsz)
<1>6. bufs = <<ElfHead>> /\ i \in 1 .. Len(ehdr) + 1 /\ SummedUp(i - 1) /\ out = <<>>
  BY <1>1 DEF BuildInv
<1>7. Len(ehdr) \in Nat /\ DOMAIN ehdr = 1 .. Len(ehdr)
      /\ \A k \in 1 .. Len(ehdr) : ehdr[k].data \in Seq(Bytes) /\ ehdr[k].memsz \in Nat
  BY <1>3, PhdrTypes
<1>8. i \in 1 .. Len(ehdr) /\ i - 1 \in 0 .. Len(ehdr) /\ i + 1 \in 1 .. Len(ehdr) + 1
  BY <1>1, <1>6, <1>7
<1>9. data \in Seq(Bytes) /\ memsz \in Nat
  BY <1>7, <1>8
<1>10. a \in Seq(Bytes) /\ SummedBytes(i) = a \o b
  BY <1>3, <1>8, SummedSteps
<1>11. b \in Seq(Bytes) /\ Len(b) = memsz /\ (Len(data) <= memsz => ipchksum(b) = ipchksum(data))
  BY <1>9, PaddedSum
<1>12. summed.checksum \in Words /\ summed.bytes \in Nat
       /\ (AllFit => summed.bytes = Len(a) /\ summed.checksum = ipchksum(a))
  BY <1>6 DEF SummedUp
<1>13. /\ summed'.checksum = add_ipchksums(summed.bytes, summed.checksum, ipchksum(data))
       /\ summed'.bytes = summed.bytes + memsz /\ summed'.i = i + 1
  BY <1>1
<1>14. AllFit => Len(data) <= memsz
  BY <1>7, <1>8 DEF AllFit
<1> HIDE DEF i, data, memsz, a, b
<1>15. summed'.checksum \in Words /\ summed'.bytes \in Nat
  BY <1>9, <1>12, <1>13, SumTypes
<1>16. ASSUME AllFit PROVE summed'.bytes = Len(SummedBytes(i)) /\ summed'.checksum = ipchksum(SummedBytes(i))
  <2>1. Len(a \o b) = Len(a) + Len(b)
    BY <1>10, <1>11, ConcatProperties
  <2>2. add_ipchksums(Len(a), ipchksum(a), ipchksum(b)) = ipchksum(a \o b)
    BY <1>10, <1>11, SumsCompose
  <2> QED
    BY <1>10, <1>11, <1>12, <1>13, <1>14, <1>16, <2>1, <2>2
<1>17. (i + 1) - 1 = i
  BY <1>8
<1>18. SummedUp(summed.i - 1)'
  BY <1>5, <1>13, <1>15, <1>16, <1>17 DEF SummedUp
<1>19. summed'.i \in 1 .. Len(ehdr') + 1 /\ bufs' = <<ElfHead'>> /\ out' = <<>>
  BY <1>1, <1>5, <1>6, <1>8, <1>13
<1> QED
  BY <1>1, <1>4, <1>18, <1>19
     DEF BuildInv, AtKernel, AtProbe, AtOptions, AtRamdisk, AtHeaders

(* Cells are numbers.                                                      *)
LEMMA BytesAreNumbers ==
    /\ \A s \in Seq(Bytes) : s \in Seq(Nat)
    /\ \A f \in Seq(Seq(Bytes)) : f \in Seq(Seq(Nat))
<1>1. \A x \in Bytes : x \in Nat
  BY Sizes DEF Bytes
<1> HIDE DEF Bytes
<1>2. ASSUME NEW s \in Seq(Bytes) PROVE s \in Seq(Nat)
  BY <1>1
<1>3. ASSUME NEW f \in Seq(Seq(Bytes)) PROVE f \in Seq(Seq(Nat))
  BY <1>2
<1> QED
  BY <1>2, <1>3

(* The file that is being written is a sequence of numbers.                *)
LEMMA WholeFileIs ==
    ASSUME Phdrs(ehdr), NoteCells \in Nat, KernelVersion \in Seq(Bytes), summed.checksum \in Words
    PROVE  LET w == serialize_notes(e_notes(summed.checksum))
           IN /\ ElfHead \in Seq(Nat) /\ w \in Seq(Nat) /\ Len(w) = NoteCells
              /\ Datas \in Seq(Seq(Nat)) /\ Joined(Datas, Len(Datas)) \in Seq(Nat)
              /\ WholeFile \in Seq(Nat)
              /\ WholeFile = (ElfHead \o w) \o Joined(Datas, Len(Datas))
<1> DEFINE w == serialize_notes(e_notes(summed.checksum))
           d == Joined(Datas, Len(Datas))
<1>1. ElfHead \in Seq(Nat) /\ Datas \in Seq(Seq(Nat))
  BY HeadIs, PhdrTypes, BytesAreNumbers
<1>2. w \in Seq(Nat) /\ Len(w) = NoteCells
  BY NotesAre DEF NoteCells
<1>3. d \in Seq(Nat)
  BY <1>1, JoinedAt
<1>4. WholeFile = (ElfHead \o w) \o d
  BY DEF WholeFile
<1> HIDE DEF w, d
<1>5. (ElfHead \o w) \o d \in Seq(Nat)
  BY <1>1, <1>2, <1>3, ConcatProperties
<1> QED
  BY <1>1, <1>2, <1>3, <1>4, <1>5 DEF w, d

(* The output is opened, and the buffers that go to it are known.          *)
LEMMA StepWriteStart ==
    ASSUME BuildInv, WriteStart
    PROVE  BuildInv'
<1> DEFINE w == serialize_notes(e_notes(summed.checksum))
<1>1. /\ pc = "sum" /\ pc' \in {"died", "write"} /\ summed.i > Len(ehdr)
      /\ bufs' = <<bufs[1] \o w>> \o [i \in DOMAIN ehdr |-> ehdr[i].data]
      /\ UNCHANGED <<inv, kbuf, allocated, parser, want, rbuf, left, ehdr, summed, out, cut>>
  BY DEF WriteStart
<1>2. CASE pc' = "died"
  BY <1>1, <1>2 DEF BuildInv, AtKernel, AtProbe, AtOptions, AtRamdisk, AtHeaders
<1>3. CASE pc' = "write"
  <2>1. pc \in AtHeaders /\ pc' \in AtHeaders
    BY <1>1, <1>3 DEF AtHeaders
  <2>2. Phdrs(ehdr) /\ NoteCells \in Nat /\ KernelVersion \in Seq(Bytes)
    BY <2>1, HeadersKnown
  <2>3. /\ inv' \in Invocations /\ allocated' \in Nat
        /\ BufferedKernel' /\ ParsedKernel' /\ Wanted' /\ BufferedRamdisk'
        /\ (cut' = FALSE => Len(kbuf') = Len(KernelData)')
        /\ Len(rbuf') = Len(RamdiskData)' /\ ehdr' = e_phdr' /\ KernelVersion' = KernelVersion
    BY <1>1, <2>1, HeadersStay
  <2>4. /\ ElfHead' = ElfHead /\ Datas' = Datas /\ AllFit' = AllFit
        /\ \A n : SummedBytes(n)' = SummedBytes(n)
        /\ \A c : serialize_notes(e_notes(c))' = serialize_notes(e_notes(c))
    BY <1>1, <2>3, SameHeaders
  <2>5. bufs = <<ElfHead>> /\ out = <<>> /\ summed.i \in 1 .. Len(ehdr) + 1 /\ SummedUp(summed.i - 1)
    BY <1>1 DEF BuildInv
  <2>6. Len(ehdr) \in Nat
    BY <2>2, PhdrTypes
  <2>7. summed.i - 1 = Len(ehdr)
    BY <1>1, <2>5, <2>6
  <2>8. SummedUp(Len(ehdr))
    BY <2>5, <2>7
  <2>9. SummedUp(Len(ehdr))'
    BY <1>1, <2>4, <2>8 DEF SummedUp
  <2>10. /\ ElfHead \in Seq(Nat) /\ w \in Seq(Nat) /\ Datas \in Seq(Seq(Nat)) /\ WholeFile \in Seq(Nat)
         /\ WholeFile = (ElfHead \o w) \o Joined(Datas, Len(Datas))
    BY <2>2, <2>8, WholeFileIs DEF SummedUp
  <2>11. bufs' = <<ElfHead \o w>> \o Datas
    BY <1>1, <2>5 DEF Datas
  <2>12. WholeFile' = WholeFile
    BY <1>1, <2>4, Zenon DEF WholeFile
  <2> HIDE DEF w
  <2>13. ElfHead \o w \in Seq(Nat)
    BY <2>10, ConcatProperties
  <2>14. bufs' \in Seq(Seq(Nat)) /\ Joined(bufs', Len(bufs')) = WholeFile
    BY <2>10, <2>11, <2>13, JoinedCons
  <2>15. out' = <<>> /\ out' \in Seq(Nat)
    BY <1>1, <2>5
  <2>16. out' \o Joined(bufs', Len(bufs')) = WholeFile'
    BY <2>10, <2>12, <2>14, <2>15, ConcatEmptySeq
  <2>17. Writing'
    BY <2>14, <2>15, <2>16 DEF Writing
  <2> QED
    BY <1>3, <2>3, <2>9, <2>17 DEF BuildInv, AtKernel, AtProbe, AtOptions, AtRamdisk, AtHeaders
<1> QED
  BY <1>1, <1>2, <1>3

(* A sequence is its first element and the rest.                           *)
LEMMA FirstAndRest ==
    ASSUME NEW S, NEW f \in Seq(S), f # <<>>
    PROVE  f[1] \in S /\ Tail(f) \in Seq(S) /\ f = <<f[1]>> \o Tail(f)
OBVIOUS

(* Three sequences of numbers can be put in a row in two ways.             *)
LEMMA RegroupNumbers == \A x, y, z \in Seq(Nat) : (x \o y) \o z = x \o (y \o z)
OBVIOUS

(* What a call writes is missing from the buffers afterwards.              *)
LEMMA WriteMoves ==
    ASSUME NEW o \in Seq(Nat), NEW f \in Seq(Seq(Nat)), f # <<>>,
           NEW n \in 0 .. Len(f[1]),
           NEW g, g = IF n = Len(f[1]) THEN Tail(f)
                      ELSE <<SubSeq(f[1], n + 1, Len(f[1]))>> \o Tail(f)
    PROVE  /\ o \o SubSeq(f[1], 1, n) \in Seq(Nat) /\ g \in Seq(Seq(Nat))
           /\ (o \o SubSeq(f[1], 1, n)) \o Joined(g, Len(g)) = o \o Joined(f, Len(f))
<1> DEFINE h == f[1]
           t == Tail(f)
           j == Joined(t, Len(t))
           a == SubSeq(h, 1, n)
           b == SubSeq(h, n + 1, Len(h))
<1>1. h \in Seq(Nat) /\ t \in Seq(Seq(Nat)) /\ f = <<h>> \o t
  BY FirstAndRest
<1>g. \A x, y, z \in Seq(Nat) : (x \o y) \o z = x \o (y \o z)
  BY RegroupNumbers
<1>2. n \in 0 .. Len(h) /\ g = IF n = Len(h) THEN t ELSE <<b>> \o t
  OBVIOUS
<1> HIDE DEF h, t
<1>3. j \in Seq(Nat)
  BY <1>1, JoinedAt
<1>4. Joined(f, Len(f)) = h \o j
  BY <1>1, JoinedCons
<1>5. Len(h) \in Nat /\ n \in Nat
  BY <1>1, <1>2, LenProperties
<1>6. a \in Seq(Nat) /\ b \in Seq(Nat)
  <2>1. \A i \in 1 .. Len(h) : h[i] \in Nat
    BY <1>1, ElementOfSeq
  <2> DEFINE l == Len(h)
             p == n + 1
  <2>2. \A i \in 1 .. n : h[i] \in Nat
    BY <1>2, <1>5, <2>1
  <2>3. \A i \in p .. l : h[i] \in Nat
    BY <1>2, <1>5, <2>1
  <2>4. p \in Int /\ l \in Int /\ n \in Int /\ 1 \in Int
    BY <1>5
  <2> HIDE DEF l, p
  <2>5. SubSeq(h, 1, n) \in Seq(Nat)
    BY <2>2, <2>4, SubSeqProperties
  <2>6. SubSeq(h, p, l) \in Seq(Nat)
    BY <2>3, <2>4, SubSeqProperties
  <2> QED
    BY <2>5, <2>6 DEF p, l
<1>7. a \o b = h
  <2>1. SubSeq(h, 1, n) \o SubSeq(h, n + 1, Len(h)) = SubSeq(h, 1, Len(h))
    <3>1. 1 \in 1 .. Len(h) + 1 /\ n \in 1 - 1 .. Len(h) /\ Len(h) \in n .. Len(h)
      BY <1>2, <1>5
    <3> QED
      BY <1>1, <3>1, ConcatAdjacentSubSeq
  <2> QED
    BY <1>1, <2>1, SubSeqFull
<1>8. n = Len(h) => a = h
  BY <1>1, SubSeqFull
<1> HIDE DEF j, a, b
<1>9. o \o a \in Seq(Nat)
  BY <1>6, ConcatProperties
<1>10. CASE n = Len(h)
  <2>1. g = t /\ Joined(g, Len(g)) = j
    BY <1>2, <1>10 DEF j
  <2>2. (o \o h) \o j = o \o (h \o j)
    BY <1>1, <1>3, <1>g
  <2> QED
    BY <1>1, <1>4, <1>8, <1>9, <1>10, <2>1, <2>2 DEF a, h
<1>11. CASE n # Len(h)
  <2>1. g = <<b>> \o t
    BY <1>2, <1>11
  <2>2. g \in Seq(Seq(Nat)) /\ Joined(g, Len(g)) = b \o j
    BY <1>1, <1>6, <2>1, JoinedCons DEF j
  <2>3. b \o j \in Seq(Nat)
    BY <1>3, <1>6, ConcatProperties
  <2>4. (o \o a) \o (b \o j) = o \o (a \o (b \o j))
    BY <1>6, <2>3, <1>g
  <2>5. (a \o b) \o j = a \o (b \o j)
    BY <1>3, <1>6, <1>g
  <2> QED
    BY <1>4, <1>7, <1>9, <2>2, <2>4, <2>5 DEF a, h
<1> QED
  BY <1>10, <1>11

(* write takes a part of a buffer, or all of it.                           *)
LEMMA StepWrite ==
    ASSUME BuildInv, WriteSome \/ WriteInterrupted \/ WriteClose
    PROVE  BuildInv'
<1>1. /\ pc = "write" /\ pc' \in {"write", "built"}
      /\ UNCHANGED <<inv, kbuf, allocated, parser, want, rbuf, left, ehdr, summed, cut>>
  BY DEF WriteSome, WriteInterrupted, WriteClose
<1>2. pc \in AtHeaders /\ pc' \in AtHeaders
  BY <1>1 DEF AtHeaders
<1>3. Phdrs(ehdr) /\ NoteCells \in Nat /\ KernelVersion \in Seq(Bytes)
  BY <1>2, HeadersKnown
<1>4. /\ inv' \in Invocations /\ allocated' \in Nat
      /\ BufferedKernel' /\ ParsedKernel' /\ Wanted' /\ BufferedRamdisk'
      /\ (cut' = FALSE => Len(kbuf') = Len(KernelData)')
      /\ Len(rbuf') = Len(RamdiskData)' /\ ehdr' = e_phdr' /\ KernelVersion' = KernelVersion
  BY <1>1, <1>2, HeadersStay
<1>5. /\ ElfHead' = ElfHead /\ Datas' = Datas /\ AllFit' = AllFit
      /\ \A n : SummedBytes(n)' = SummedBytes(n)
      /\ \A c : serialize_notes(e_notes(c))' = serialize_notes(e_notes(c))
  BY <1>1, <1>4, SameHeaders
<1>6. SummedUp(Len(ehdr)) /\ Writing
  BY <1>1 DEF BuildInv
<1>7. SummedUp(Len(ehdr))'
  BY <1>1, <1>5, <1>6 DEF SummedUp
<1>8. WholeFile' = WholeFile
  BY <1>1, <1>5, Zenon DEF WholeFile
<1>9. out \in Seq(Nat) /\ bufs \in Seq(Seq(Nat)) /\ out \o Joined(bufs, Len(bufs)) = WholeFile
  BY <1>6 DEF Writing
<1>10. CASE WriteSome
  <2>1. pc' = "write" /\ bufs # <<>>
    BY <1>10 DEF WriteSome
  <2>2. PICK n \in IF bufs[1] = <<>> THEN {0} ELSE {1, Len(bufs[1])} :
          /\ out' = out \o SubSeq(bufs[1], 1, n)
          /\ bufs' = IF n = Len(bufs[1]) THEN Tail(bufs)
                     ELSE <<SubSeq(bufs[1], n + 1, Len(bufs[1]))>> \o Tail(bufs)
    BY <1>10 DEF WriteSome
  <2>3. bufs[1] \in Seq(Nat)
    BY <1>9, <2>1, FirstAndRest
  <2>4. Len(bufs[1]) \in Nat /\ (bufs[1] = <<>> \/ Len(bufs[1]) > 0)
    BY <2>3, LenProperties, EmptySeq
  <2>5. n \in 0 .. Len(bufs[1])
    BY <2>2, <2>4
  <2>6. out' \in Seq(Nat) /\ bufs' \in Seq(Seq(Nat))
        /\ out' \o Joined(bufs', Len(bufs')) = out \o Joined(bufs, Len(bufs))
    BY <1>9, <2>1, <2>2, <2>5, WriteMoves
  <2>7. Writing'
    BY <1>8, <1>9, <2>6 DEF Writing
  <2> QED
    BY <1>4, <1>7, <2>1, <2>7 DEF BuildInv, AtKernel, AtProbe, AtOptions, AtRamdisk, AtHeaders
<1>11. CASE WriteInterrupted
  <2>1. pc' = "write" /\ UNCHANGED <<bufs, out>>
    BY <1>11 DEF WriteInterrupted
  <2>2. Writing'
    BY <1>8, <1>9, <2>1 DEF Writing
  <2> QED
    BY <1>4, <1>7, <2>1, <2>2 DEF BuildInv, AtKernel, AtProbe, AtOptions, AtRamdisk, AtHeaders
<1>12. CASE WriteClose
  <2>1. pc' = "built" /\ out' = out /\ bufs = <<>>
    BY <1>12 DEF WriteClose
  <2>2. Len(bufs) = 0
    BY <2>1
  <2>3. Joined(bufs, Len(bufs)) = <<>>
    BY <1>9, <2>2, JoinedSteps
  <2>4. out' = WholeFile'
    BY <1>8, <1>9, <2>1, <2>3, ConcatEmptySeq
  <2> QED
    BY <1>4, <1>7, <2>1, <2>4 DEF BuildInv, AtKernel, AtProbe, AtOptions, AtRamdisk, AtHeaders
<1> QED
  BY <1>10, <1>11, <1>12

(* Nothing of the builder changes.                                         *)
LEMMA BuildInvStutters ==
    ASSUME BuildInv, UNCHANGED ivars
    PROVE  BuildInv'
<1>1. UNCHANGED <<pc, inv, kbuf, allocated, parser, want, rbuf, left, ehdr, summed, bufs, out, cut>>
  BY DEF ivars
<1>2. /\ BufferedKernel => BufferedKernel'
      /\ KernelData' = KernelData /\ KernelVersion' = KernelVersion
      /\ ParsedKernel => ParsedKernel'
      /\ parse_kernel' = parse_kernel
  BY <1>1, SameKernel
<1>3. /\ Wanted => Wanted'
      /\ BufferedRamdisk => BufferedRamdisk'
      /\ RamdiskData' = RamdiskData /\ ramdisk_size' = ramdisk_size /\ payload' = payload
  BY <1>1, SameWant
<1>4. e_phdr' = e_phdr
  BY <1>1, <1>2, <1>3, Zenon DEF e_phdr
<1>5. /\ ElfHead' = ElfHead /\ Datas' = Datas /\ AllFit' = AllFit
      /\ \A n : SummedBytes(n)' = SummedBytes(n)
      /\ \A c : serialize_notes(e_notes(c))' = serialize_notes(e_notes(c))
  BY <1>1, <1>2, SameHeaders
<1>6. ASSUME NEW n PROVE SummedUp(n) => SummedUp(n)'
  BY <1>1, <1>5 DEF SummedUp
<1>7. SummedUp(Len(ehdr)) => SummedUp(Len(ehdr))'
  BY <1>1, <1>5 DEF SummedUp
<1>8. SummedUp(summed.i - 1) => SummedUp(summed.i - 1)'
  BY <1>1, <1>5 DEF SummedUp
<1>9. WholeFile' = WholeFile
  BY <1>1, <1>5, Zenon DEF WholeFile
<1>10. Writing => Writing'
  BY <1>1, <1>9 DEF Writing
<1> QED
  BY <1>1, <1>2, <1>3, <1>4, <1>5, <1>7, <1>8, <1>9, <1>10 DEF BuildInv

(* Through every run of the builder, however its calls are cut short or    *)
(* interrupted, what it holds is a part of what it was asked for, and once *)
(* it is built the file is the headers, the notes and the segments' data.  *)
THEOREM BuildInvHolds == Spec => []BuildInv
<1>1. Init => BuildInv
  BY Sizes, BuilderAssumption DEF Init, ImageInit, BuildInv, AtKernel, AtProbe, AtOptions, AtRamdisk, AtHeaders
<1>2. BuildInv /\ [Next]_vars => BuildInv'
  <2> SUFFICES ASSUME BuildInv, [Next]_vars PROVE BuildInv'
    OBVIOUS
  <2>1. CASE Build
    <3>1. ImageNext
      BY <2>1 DEF Build
    <3> QED
      BY <3>1, StepQuit, StepStart, StepGzRead, StepGzEnd, StepProbe, StepOptions, StepRead, StepFill,
         StepSerialize, StepSum, StepWriteStart, StepWrite DEF ImageNext, ImageStep
  <2>2. CASE Load \/ Enter \/ Convert \/ UNCHANGED vars
    <3>1. UNCHANGED ivars
      BY <2>2 DEF Load, Enter, Convert, vars
    <3> QED
      BY <3>1, BuildInvStutters
  <2> QED
    BY <2>1, <2>2 DEF Next
<1> QED
  BY <1>1, <1>2, PTL DEF Spec

-----------------------------------------------------------------------------
-----------------------------------------------------------------------------
(* Where the parts of the finished file are.                               *)
LEMMA FileParts ==
    ASSUME BuildInv, pc = "built"
    PROVE  LET w == serialize_notes(e_notes(summed.checksum))
               d == Joined(Datas, Len(Datas))
           IN /\ HeadCells \in Nat /\ NoteCells \in Nat /\ Len(w) = NoteCells /\ Len(d) \in Nat
              /\ out \in Seq(Nat) /\ Len(out) = HeadCells + NoteCells + Len(d)
              /\ \A k \in 1 .. HeadCells : out[k] = ElfHead[k]
              /\ \A k \in 1 .. NoteCells : out[HeadCells + k] = w[k]
              /\ \A k \in 1 .. Len(d) : out[HeadCells + NoteCells + k] = d[k]
<1> DEFINE w == serialize_notes(e_notes(summed.checksum))
           d == Joined(Datas, Len(Datas))
           a == ElfHead
           c == a \o w
<1>1. pc \in AtHeaders
  BY DEF AtHeaders
<1>2. Phdrs(ehdr) /\ NoteCells \in Nat /\ KernelVersion \in Seq(Bytes)
  BY <1>1, HeadersKnown
<1>3. summed.checksum \in Words /\ out = WholeFile
  BY DEF BuildInv, SummedUp
<1>4. a \in Seq(Nat) /\ w \in Seq(Nat) /\ Len(w) = NoteCells /\ d \in Seq(Nat) /\ out = c \o d
      /\ out \in Seq(Nat)
  BY <1>2, <1>3, WholeFileIs
<1>5. Len(a) = HeadCells
  BY <1>2, HeadIs
<1>6. HeadCells \in Nat
  BY <1>2, PhdrTypes
<1> HIDE DEF w, d, a
<1>7. /\ c \in Seq(Nat) /\ Len(c) = Len(a) + Len(w)
      /\ \A k \in 1 .. Len(a) : c[k] = a[k]
      /\ \A k \in 1 .. Len(w) : c[Len(a) + k] = w[k]
  <2>1. a \in Seq(Nat) /\ w \in Seq(Nat)
    BY <1>4
  <2> QED
    BY <2>1, ConcatAt
<1> HIDE DEF c
<1>8. /\ Len(out) = Len(c) + Len(d) /\ Len(d) \in Nat
      /\ \A k \in 1 .. Len(c) : out[k] = c[k]
      /\ \A k \in 1 .. Len(d) : out[Len(c) + k] = d[k]
  <2>1. c \in Seq(Nat) /\ d \in Seq(Nat)
    BY <1>4, <1>7
  <2>2. /\ Len(c \o d) = Len(c) + Len(d) /\ Len(d) \in Nat
        /\ \A k \in 1 .. Len(c) : (c \o d)[k] = c[k]
        /\ \A k \in 1 .. Len(d) : (c \o d)[Len(c) + k] = d[k]
    BY <2>1, ConcatAt
  <2> QED
    BY <1>4, <2>2
<1>9. Len(c) = HeadCells + NoteCells
  BY <1>4, <1>5, <1>7
<1>10. ASSUME NEW k \in 1 .. HeadCells PROVE out[k] = a[k]
  <2>1. k \in 1 .. Len(c) /\ k \in 1 .. Len(a)
    BY <1>2, <1>5, <1>6, <1>9
  <2> QED
    BY <1>7, <1>8, <2>1
<1>11. ASSUME NEW k \in 1 .. NoteCells PROVE out[HeadCells + k] = w[k]
  <2> DEFINE m == HeadCells + k
  <2>1. m \in 1 .. Len(c) /\ k \in 1 .. Len(w) /\ m = Len(a) + k
    BY <1>2, <1>4, <1>5, <1>6, <1>9
  <2> HIDE DEF m
  <2>2. out[m] = c[m]
    BY <1>8, <2>1
  <2>3. c[m] = w[k]
    BY <1>7, <2>1
  <2> QED
    BY <2>2, <2>3 DEF m
<1>12. ASSUME NEW k \in 1 .. Len(d) PROVE out[HeadCells + NoteCells + k] = d[k]
  BY <1>8, <1>9
<1> QED
  BY <1>2, <1>4, <1>6, <1>8, <1>9, <1>10, <1>11, <1>12 DEF w, d, a

(* What the file holds of a segment.                                       *)
LEMMA FileData ==
    ASSUME BuildInv, pc = "built", NEW i \in 2 .. Len(ehdr), NEW k \in 1 .. Len(ehdr[i].data)
    PROVE  /\ WrittenPhdr(i).offset \in Nat
           /\ out[WrittenPhdr(i).offset + k] = ehdr[i].data[k]
<1> DEFINE T == Total(Lens(Datas), i - 1)
           d == Joined(Datas, Len(Datas))
<1>1. pc \in AtHeaders
  BY DEF AtHeaders
<1>2. Phdrs(ehdr) /\ NoteCells \in Nat
  BY <1>1, HeadersKnown
<1>3. Len(ehdr) \in Nat /\ HeadCells \in Nat /\ Datas \in Seq(Seq(Bytes)) /\ Len(Datas) = Len(ehdr)
      /\ \A j \in 1 .. Len(ehdr) : Datas[j] = ehdr[j].data /\ ehdr[j].type = IF j = 1 THEN PT_NOTE ELSE PT_LOAD
  BY <1>2, PhdrTypes
<1>4. i \in 1 .. Len(ehdr) /\ i # 1
  BY <1>3
<1>5. T \in Nat
  BY <1>2, <1>4, OffsetTypes
<1>6. WrittenPhdr(i).offset = HeadCells + NoteCells + T
  BY <1>3, <1>4 DEF WrittenPhdr, PT_NOTE, PT_LOAD
<1>7. JoinedWell(Datas)
  BY <1>3, JoinedAt
<1>8. T + k \in 1 .. Total(Lens(Datas), Len(Datas)) /\ d[T + k] = Datas[i][k]
      /\ Len(d) = Total(Lens(Datas), Len(Datas))
  <2>1. Len(Datas) \in 0 .. Len(Datas)
    BY <1>3
  <2>2. Len(d) = Total(Lens(Datas), Len(Datas))
    BY <1>7, <2>1 DEF JoinedWell
  <2>3. i \in 1 .. Len(Datas) /\ k \in 1 .. Len(Datas[i])
    BY <1>3, <1>4
  <2>4. \A j \in 1 .. Len(Datas) : \A l \in 1 .. Len(Datas[j]) :
          /\ Total(Lens(Datas), j - 1) + l \in 1 .. Total(Lens(Datas), Len(Datas))
          /\ Joined(Datas, Len(Datas))[Total(Lens(Datas), j - 1) + l] = Datas[j][l]
    BY <1>7, Zenon DEF JoinedWell
  <2> QED
    BY <2>2, <2>3, <2>4
<1> DEFINE m == T + k
<1>9. m \in 1 .. Len(d) /\ m \in Nat /\ k \in Nat
  BY <1>5, <1>8
<1>10. out[HeadCells + NoteCells + m] = d[m]
  <2>1. \A l \in 1 .. Len(d) : out[HeadCells + NoteCells + l] = d[l]
    BY FileParts
  <2> QED
    BY <1>9, <2>1
<1>11. HeadCells + NoteCells + m = (HeadCells + NoteCells + T) + k
  BY <1>2, <1>3, <1>5, <1>9
<1>12. out[(HeadCells + NoteCells + T) + k] = d[T + k]
  BY <1>10, <1>11
<1>13. d[T + k] = ehdr[i].data[k]
  BY <1>3, <1>4, <1>8
<1> HIDE DEF T, d, m
<1> QED
  BY <1>2, <1>3, <1>5, <1>6, <1>12, <1>13

(* The program headers in the file are the ones that were written.         *)
LEMMA FilePhdrsAre ==
    ASSUME BuildInv, pc = "built", Expressible
    PROVE  FilePhdrs = [i \in 1 .. Len(ehdr) |-> WrittenPhdr(i)]
<1> DEFINE L == Len(ehdr)
           N == NumCells
           P == PhdrCells
           M == Power[NumCells]
<1>1. pc \in AtHeaders
  BY DEF AtHeaders
<1>2. Phdrs(ehdr) /\ NoteCells \in Nat
  BY <1>1, HeadersKnown
<1>3. L \in Nat /\ DOMAIN ehdr = 1 .. L /\ HeadCells \in Nat /\ P \in Nat \ {0} /\ N \in Nat \ {0}
      /\ \A j \in 1 .. L : /\ ehdr[j].paddr \in Nat /\ ehdr[j].memsz \in Nat
                           /\ ehdr[j].type = IF j = 1 THEN PT_NOTE ELSE PT_LOAD
  BY <1>2, PhdrTypes, Sizes
<1>4. M \in Nat
  BY <1>3, PowerFacts
<1>5. /\ HeadCells + NoteCells + Total(Lens(Datas), L) < M /\ Total(Lens(Datas), L) \in Nat
      /\ \A i \in 1 .. L : ehdr[i].paddr < M /\ ehdr[i].memsz < M
  <2>1. Lens(Datas) = [k \in DOMAIN ehdr |-> Len(ehdr[k].data)] /\ L \in 0 .. L
    BY <1>2, <1>3, OffsetTypes
  <2>2. Total(Lens(Datas), L) \in Nat
    BY <1>2, <2>1, OffsetTypes
  <2> QED
    BY <1>3, <2>1, <2>2 DEF Expressible, NoteCells
<1>6. L < M
  <2>1. P * L \in Nat /\ L <= P * L
    <3>a. L \in Nat /\ P \in Nat /\ 1 <= P
      BY <1>3
    <3> HIDE DEF L, P
    <3>1. L * 1 <= L * P
      BY <3>a, MultMonotone
    <3>2. L * P \in Nat /\ P * L = L * P /\ L * 1 = L
      BY <3>a, MultType
    <3> QED
      BY <3>1, <3>2
  <2>2. HeadCells = 2 * N + P * L
    BY DEF HeadCells
  <2> DEFINE z == P * L
  <2> HIDE DEF z
  <2>3. HeadCells = 2 * N + z /\ z \in Nat /\ L <= z
    BY <2>1, <2>2 DEF z
  <2> QED
    BY <1>2, <1>3, <1>4, <1>5, <2>3
<1>7. \A k \in 1 .. HeadCells : out[k] = ElfHead[k]
  BY FileParts
<1>8. NumberAt(out, N) = L
  <2>1. \A k \in 1 .. N : out[N + k] = cpu_to_elf(L)[k]
    BY <1>2, <1>7, HeadIs
  <2> QED
    BY <1>3, <1>6, <2>1, ReadBack
<1>9. ASSUME NEW i \in 1 .. L PROVE FilePhdr(i) = WrittenPhdr(i)
  <2> DEFINE p == WrittenPhdr(i)
             at == 2 * N + P * (i - 1)
  <2>1. p \in FileHeader
    BY <1>2, WrittenTypes
  <2>2. at \in Nat /\ \A k \in 1 .. P : at + k \in 1 .. HeadCells /\ ElfHead[at + k] = PhdrBytesOf(p)[k]
    BY <1>2, HeadIs
  <2>3. \A k \in 1 .. P : out[at + k] = PhdrBytesOf(p)[k]
    BY <1>7, <2>2
  <2>4. /\ Total(Lens(Datas), i - 1) \in Nat /\ Len(ehdr[i].data) \in Nat
        /\ Total(Lens(Datas), i - 1) + Len(ehdr[i].data) <= Total(Lens(Datas), L)
    BY <1>2, OffsetTypes
  <2>5. p.offset < M /\ p.paddr < M /\ p.filesz < M /\ p.memsz < M
    <3>1. CASE ehdr[i].type = PT_NOTE
      <4>1. p.offset = HeadCells /\ p.paddr = 0 /\ p.filesz = NoteCells /\ p.memsz = NoteCells
        BY <3>1 DEF WrittenPhdr
      <4> QED
        BY <1>2, <1>3, <1>4, <1>5, <4>1
    <3>2. CASE ehdr[i].type # PT_NOTE
      <4>1. p.offset = HeadCells + NoteCells + Total(Lens(Datas), i - 1) /\ p.paddr = ehdr[i].paddr
            /\ p.filesz = Len(ehdr[i].data) /\ p.memsz = ehdr[i].memsz
        BY <3>2 DEF WrittenPhdr
      <4> DEFINE t == Total(Lens(Datas), i - 1)
                 u == Total(Lens(Datas), L)
                 l == Len(ehdr[i].data)
      <4>2. t \in Nat /\ l \in Nat /\ u \in Nat /\ t + l <= u /\ HeadCells + NoteCells + u < M
        BY <1>5, <2>4
      <4>3. p.offset = HeadCells + NoteCells + t /\ p.filesz = l
        BY <4>1
      <4> HIDE DEF t, u, l
      <4>4. p.offset < M /\ p.filesz < M
        BY <1>2, <1>3, <1>4, <4>2, <4>3
      <4> QED
        BY <1>5, <4>1, <4>4
    <3> QED
      BY <3>1, <3>2
  <2> HIDE DEF p, at
  <2>6. [type |-> out[at + 1], offset |-> NumberAt(out, at + 2), paddr |-> NumberAt(out, at + 2 + NumCells),
         filesz |-> NumberAt(out, at + 2 + 2 * NumCells),
         memsz |-> NumberAt(out, at + 2 + 3 * NumCells)] = p
    BY <2>1, <2>2, <2>3, <2>5, ReadPhdr
  <2> QED
    BY <2>6, Zenon DEF FilePhdr, p, at
<1> QED
  BY <1>8, <1>9 DEF FilePhdrs

(* What the file gives for a cell of a segment in memory.                  *)
LEMMA CellIs ==
    ASSUME BuildInv, pc = "built", NEW i \in 2 .. Len(ehdr), NEW k \in Nat
    PROVE  /\ WrittenPhdr(i).type = PT_LOAD /\ WrittenPhdr(i).paddr = ehdr[i].paddr
           /\ WrittenPhdr(i).filesz = Len(ehdr[i].data) /\ WrittenPhdr(i).memsz = ehdr[i].memsz
           /\ ehdr[i].paddr \in Nat /\ ehdr[i].memsz \in Nat /\ Len(ehdr[i].data) \in Nat
           /\ CellOf(WrittenPhdr(i), ehdr[i].paddr + k)
              = IF k + 1 <= Len(ehdr[i].data) THEN ehdr[i].data[k + 1] ELSE 0
<1> DEFINE p == WrittenPhdr(i)
           a == ehdr[i].paddr
           l == Len(ehdr[i].data)
<1>1. pc \in AtHeaders
  BY DEF AtHeaders
<1>2. Phdrs(ehdr)
  BY <1>1, HeadersKnown
<1>3. Len(ehdr) \in Nat
      /\ \A j \in 1 .. Len(ehdr) : /\ ehdr[j].data \in Seq(Bytes) /\ ehdr[j].paddr \in Nat /\ ehdr[j].memsz \in Nat
                                   /\ ehdr[j].type = IF j = 1 THEN PT_NOTE ELSE PT_LOAD
  BY <1>2, PhdrTypes
<1>4. i \in 1 .. Len(ehdr) /\ i # 1
  BY <1>3
<1>5. a \in Nat /\ ehdr[i].memsz \in Nat /\ l \in Nat /\ ehdr[i].type # PT_NOTE
  BY <1>3, <1>4, LenProperties DEF PT_NOTE, PT_LOAD
<1>6. p.type = PT_LOAD /\ p.paddr = a /\ p.filesz = l /\ p.memsz = ehdr[i].memsz
  BY <1>5 DEF WrittenPhdr
<1>7. (a + k) - a = k
  BY <1>5
<1>8. CASE k + 1 <= l
  <2>1. k + 1 \in 1 .. Len(ehdr[i].data)
    BY <1>5, <1>8
  <2>2. p.offset \in Nat /\ out[p.offset + (k + 1)] = ehdr[i].data[k + 1]
    BY <2>1, FileData
  <2> HIDE DEF p, a, l
  <2>3. k < l
    BY <1>5, <1>8
  <2>4. p.offset + (a + k) - a + 1 = p.offset + (k + 1)
    BY <1>5, <2>2
  <2>5. CellOf(p, a + k) = out[p.offset + (a + k) - a + 1]
    BY <1>6, <1>7, <2>3 DEF CellOf
  <2>6. CellOf(p, a + k) = ehdr[i].data[k + 1]
    BY <2>2, <2>4, <2>5
  <2> QED
    BY <1>5, <1>6, <1>8, <2>6 DEF p, a, l
<1>9. CASE ~(k + 1 <= l)
  <2> HIDE DEF p, a, l
  <2>1. ~(k < l)
    BY <1>5, <1>9
  <2>2. CellOf(p, a + k) = 0
    BY <1>6, <1>7, <2>1 DEF CellOf
  <2> QED
    BY <1>5, <1>6, <1>9, <2>2 DEF p, a, l
<1> QED
  BY <1>8, <1>9

(* The segments as a loader has them in memory.                            *)
LEMMA LoadedSegments ==
    ASSUME BuildInv, pc = "built", Expressible
    PROVE  LET ph == FilePhdrs
           IN /\ Len(ph) = Len(ehdr) /\ DOMAIN ph = 1 .. Len(ehdr)
              /\ [i \in DOMAIN ph |-> IF ph[i].type = PT_LOAD THEN InMemory(ph[i]) ELSE <<>>] = Paddeds
              /\ ph[1].offset = HeadCells /\ ph[1].memsz = NoteCells
              /\ (Fits(ph) => AllFit)
<1> DEFINE ph == FilePhdrs
           L == Len(ehdr)
<1>1. pc \in AtHeaders
  BY DEF AtHeaders
<1>2. Phdrs(ehdr)
  BY <1>1, HeadersKnown
<1>3. /\ L \in Nat /\ L >= 3 /\ DOMAIN ehdr = 1 .. L
      /\ \A j \in 1 .. L : ehdr[j].memsz \in Nat /\ ehdr[j].type = IF j = 1 THEN PT_NOTE ELSE PT_LOAD
      /\ ehdr[1].data = <<>> /\ ehdr[1].memsz = 0
  BY <1>2, PhdrTypes
<1>4. ph = [i \in 1 .. L |-> WrittenPhdr(i)]
  BY FilePhdrsAre
<1> HIDE DEF ph, L
<1>5. DOMAIN ph = 1 .. L /\ Len(ph) = L /\ \A i \in 1 .. L : ph[i] = WrittenPhdr(i)
  <2>1. ph \in [1 .. L -> {WrittenPhdr(i) : i \in 1 .. L}]
    BY <1>4
  <2>2. Len(ph) = L
    BY <1>3, <2>1, FunctionIsSeq
  <2> QED
    BY <1>4, <2>2
<1>6. 1 \in 1 .. L
  BY <1>3
<1>7. ph[1].type = PT_NOTE /\ ph[1].offset = HeadCells /\ ph[1].memsz = NoteCells
  BY <1>3, <1>5, <1>6 DEF WrittenPhdr
<1>8. ASSUME NEW i \in 1 .. L, i # 1
      PROVE  /\ ph[i].type = PT_LOAD /\ ph[i].filesz = Len(ehdr[i].data) /\ ph[i].memsz = ehdr[i].memsz
             /\ InMemory(ph[i]) = Padded(ehdr[i].data, ehdr[i].memsz)
  <2>1. i \in 2 .. Len(ehdr) /\ 0 \in Nat
    BY <1>3, <1>8 DEF L
  <2>2. /\ ph[i].type = PT_LOAD /\ ph[i].paddr = ehdr[i].paddr
        /\ ph[i].filesz = Len(ehdr[i].data) /\ ph[i].memsz = ehdr[i].memsz
        /\ ehdr[i].paddr \in Nat /\ ehdr[i].memsz \in Nat
    BY <1>5, <2>1, CellIs
  <2>3. ASSUME NEW k \in 1 .. ehdr[i].memsz
        PROVE  CellOf(ph[i], ph[i].paddr + k - 1) = IF k <= Len(ehdr[i].data) THEN ehdr[i].data[k] ELSE 0
    <3> DEFINE m == k - 1
    <3>1. m \in Nat /\ m + 1 = k /\ ph[i].paddr + k - 1 = ehdr[i].paddr + m
      BY <2>2
    <3> HIDE DEF m
    <3>2. CellOf(WrittenPhdr(i), ehdr[i].paddr + m)
          = IF m + 1 <= Len(ehdr[i].data) THEN ehdr[i].data[m + 1] ELSE 0
      BY <2>1, <3>1, CellIs
    <3> QED
      BY <1>5, <3>1, <3>2
  <2>4. InMemory(ph[i]) = Padded(ehdr[i].data, ehdr[i].memsz)
    BY <2>2, <2>3 DEF InMemory, Padded
  <2> QED
    BY <2>2, <2>4
<1>9. Padded(<<>>, 0) = <<>>
  BY DEF Padded
<1>10. [i \in DOMAIN ph |-> IF ph[i].type = PT_LOAD THEN InMemory(ph[i]) ELSE <<>>] = Paddeds
  <2>1. ASSUME NEW i \in 1 .. L
        PROVE  (IF ph[i].type = PT_LOAD THEN InMemory(ph[i]) ELSE <<>>) = Padded(ehdr[i].data, ehdr[i].memsz)
    <3>1. CASE i = 1
      <4>1. ph[i].type # PT_LOAD
        BY <1>7, <3>1 DEF PT_NOTE, PT_LOAD
      <4> QED
        BY <1>3, <1>9, <3>1, <4>1
    <3>2. CASE i # 1
      BY <1>8, <3>2
    <3> QED
      BY <3>1, <3>2
  <2> QED
    BY <1>3, <1>5, <2>1 DEF Paddeds
<1>11. Fits(ph) => AllFit
  <2> SUFFICES ASSUME Fits(ph), NEW i \in 1 .. L PROVE Len(ehdr[i].data) <= ehdr[i].memsz
    BY <1>3 DEF AllFit
  <2>1. CASE i = 1
    BY <1>3, <2>1
  <2>2. CASE i # 1
    BY <1>5, <1>8, <2>2 DEF Fits
  <2> QED
    BY <2>1, <2>2
<1> QED
  BY <1>5, <1>7, <1>10, <1>11, Zenon DEF ph, L

(* The number in the checksum note is the one a loader gets, for every     *)
(* image: the sums of the parts compose, and the file holds those parts.   *)
THEOREM ChecksumRight == Spec => []ImageChecksum
<1>1. BuildInv => ImageChecksum
  <2> SUFFICES ASSUME BuildInv, pc = "built", Expressible, Fits(FilePhdrs)
               PROVE  LET ph == FilePhdrs
                          head == SubSeq(out, 1, 2 * NumCells + PhdrCells * Len(ph))
                          note == ph[1].offset + ph[1].memsz - roundup(2)
                      IN ipchksum(head \o Joined([i \in DOMAIN ph |-> IF ph[i].type = PT_LOAD THEN InMemory(ph[i])
                                                                      ELSE <<>>], Len(ph)))
                         = out[note + 1] + Base * out[note + 2]
    BY Zenon DEF ImageChecksum
  <2> DEFINE ph == FilePhdrs
             L == Len(ehdr)
             c == summed.checksum
             w == serialize_notes(e_notes(c))
             n == sizeof_notes(e_notes(0))
             r == roundup(2)
  <2>1. pc \in AtHeaders
    BY DEF AtHeaders
  <2>2. Phdrs(ehdr) /\ NoteCells \in Nat /\ KernelVersion \in Seq(Bytes)
    BY <2>1, HeadersKnown
  <2>3. /\ Len(ph) = L
        /\ [i \in DOMAIN ph |-> IF ph[i].type = PT_LOAD THEN InMemory(ph[i]) ELSE <<>>] = Paddeds
        /\ ph[1].offset = HeadCells /\ ph[1].memsz = NoteCells /\ AllFit
    BY LoadedSegments
  <2>4. SummedUp(L)
    BY DEF BuildInv
  <2>5. c \in Words /\ c = ipchksum(SummedBytes(L))
    BY <2>3, <2>4 DEF SummedUp
  <2>6. /\ HeadCells \in Nat /\ out \in Seq(Nat) /\ Len(out) \in Nat /\ HeadCells <= Len(out)
        /\ \A k \in 1 .. HeadCells : out[k] = ElfHead[k]
        /\ \A k \in 1 .. NoteCells : out[HeadCells + k] = w[k]
    <3>1. /\ HeadCells \in Nat /\ Len(Joined(Datas, Len(Datas))) \in Nat
          /\ out \in Seq(Nat) /\ Len(out) = HeadCells + NoteCells + Len(Joined(Datas, Len(Datas)))
          /\ \A k \in 1 .. HeadCells : out[k] = ElfHead[k]
          /\ \A k \in 1 .. NoteCells : out[HeadCells + k] = w[k]
      BY FileParts
    <3> QED
      BY <2>2, <3>1
  <2>7. SubSeq(out, 1, HeadCells) = ElfHead
    <3>1. ElfHead \in Seq(Nat) /\ Len(ElfHead) = HeadCells
      BY <2>2, HeadIs, BytesAreNumbers
    <3> DEFINE s == SubSeq(out, 1, HeadCells)
    <3>2. HeadCells \in 1 - 1 .. Len(out)
      BY <2>6
    <3>3. s \in Seq(Nat) /\ Len(s) = HeadCells /\ \A k \in 1 .. HeadCells : s[k] = out[k]
      BY <2>6, <3>2, SubSeqProperties
    <3> HIDE DEF s
    <3>4. s = ElfHead
      BY <2>6, <3>1, <3>3, SeqEqual
    <3> QED
      BY <3>4 DEF s
  <2>8. /\ n - r \in Nat /\ n - r + 2 <= n /\ n \in Nat
        /\ w[n - r + 1] = c % Base /\ w[n - r + 2] = c \div Base
    BY <2>2, <2>5, NotesAre
  <2>9. (c % Base) + Base * (c \div Base) = c
    BY <2>5, WordHalves
  <2> DEFINE k1 == n - r + 1
             k2 == n - r + 2
             note == HeadCells + NoteCells - r
  <2>10. NoteCells = n
    BY DEF NoteCells
  <2>r. r \in Nat
    BY RoundupFacts
  <2> HIDE DEF n, r, w, c
  <2>11. k1 \in 1 .. NoteCells /\ k2 \in 1 .. NoteCells /\ note + 1 = HeadCells + k1 /\ note + 2 = HeadCells + k2
    BY <2>6, <2>8, <2>10, <2>r
  <2>12. out[note + 1] = c % Base /\ out[note + 2] = c \div Base
    <3>1. w[k1] = c % Base /\ w[k2] = c \div Base
      BY <2>8
    <3> HIDE DEF k1, k2, note
    <3> QED
      BY <2>6, <2>11, <3>1
  <2>13. ipchksum(SubSeq(out, 1, 2 * NumCells + PhdrCells * Len(ph)) \o Joined(Paddeds, Len(ph))) = c
    BY <2>3, <2>5, <2>7, Zenon DEF HeadCells, SummedBytes
  <2>14. out[note + 1] + Base * out[note + 2] = c
    BY <2>9, <2>12
  <2>15. ph[1].offset + ph[1].memsz - roundup(2) = note
    BY <2>3, Zenon DEF note, r
  <2> HIDE DEF note
  <2> QED
    BY <2>3, <2>13, <2>14, <2>15, Zenon
<1> QED
  BY <1>1, BuildInvHolds, PTL

-----------------------------------------------------------------------------
-----------------------------------------------------------------------------
(* The page keeps everything that is not about memory.                     *)
KeepsPage(p, q) ==
    /\ q.cmdline = p.cmdline /\ q.overrun = p.overrun
    /\ q.initrd_start = p.initrd_start /\ q.initrd_size = p.initrd_size

(* Ranges and sizes of memory leave the rest of the page alone.            *)
LEMMA MemoryKeepsPage ==
    ASSUME NEW p, PageOk(p)
    PROVE  /\ \A ranges \in Seq(e820entry) : PageOk(AddAll(p, ranges)) /\ KeepsPage(p, AddAll(p, ranges))
           /\ \A n \in Nat : PageOk(set_memsize_k(p, n)) /\ KeepsPage(p, set_memsize_k(p, n))
<1>1. ASSUME NEW q, SameRest(p, q) PROVE KeepsPage(p, q)
  BY <1>1 DEF SameRest, KeepsPage, PageOk
<1>2. ASSUME NEW ranges \in Seq(e820entry) PROVE PageOk(AddAll(p, ranges)) /\ SameRest(p, AddAll(p, ranges))
  BY AddAllFacts
<1>3. ASSUME NEW n \in Nat PROVE PageOk(set_memsize_k(p, n)) /\ SameRest(p, set_memsize_k(p, n))
  BY SetMemsize
<1> QED
  BY <1>1, <1>2, <1>3

(* What append_command_line does to the page.                              *)
LEMMA LineIs ==
    ASSUME NEW p, PageOk(p), NEW arg, NEW n
    PROVE  LET at == strnlen(p.cmdline, CommandLine)
               w == Appended(arg, n)
               q == append_command_line(p, arg, n)
           IN /\ PageOk(q) /\ q.initrd_start = p.initrd_start /\ q.initrd_size = p.initrd_size
              /\ q.cmdline = [i \in 1 .. PageRoom |-> IF i - at \in DOMAIN w THEN w[i - at] ELSE p.cmdline[i]]
              /\ q.overrun = (p.overrun \/ at + Len(w) > PageRoom)
<1> DEFINE at == strnlen(p.cmdline, CommandLine)
           w == Appended(arg, n)
           c == [i \in 1 .. PageRoom |-> IF i - at \in DOMAIN w THEN w[i - at] ELSE p.cmdline[i]]
           o == p.overrun \/ at + Len(w) > PageRoom
           q == append_command_line(p, arg, n)
<1>1. q = [p EXCEPT !.cmdline = c, !.overrun = o]
  BY DEF append_command_line, memcpy
<1>2. PageOk(q)
  BY LineKeepsMemory DEF KeepsMemory
<1> HIDE DEF c, o, q
<1>3. q.cmdline = c /\ q.initrd_start = p.initrd_start /\ q.initrd_size = p.initrd_size
  BY <1>1 DEF PageOk
<1>4. q.overrun = o
  BY <1>1 DEF PageOk
<1> QED
  BY <1>2, <1>3, <1>4, Zenon DEF c, o, q

(* A longer command line leaves the initrd where it is.                    *)
LEMMA LineKeepsInitrd ==
    ASSUME NEW p, PageOk(p), NEW arg, NEW n
    PROVE  /\ append_command_line(p, arg, n).initrd_start = p.initrd_start
           /\ append_command_line(p, arg, n).initrd_size = p.initrd_size
BY DEF append_command_line, memcpy, PageOk

(* The record that a walk looks at is a record.                            *)
LEMMA LinuxBiosRecordIs ==
    ASSUME MemInv, LinuxBiosRecord
    PROVE  todo[1] \in TableRecord
<1> DEFINE t == info.lb_table
           n == t.table_bytes
<1>1. cpc = "linuxbios" /\ ~WalkOver
  BY DEF LinuxBiosRecord
<1>2. FirmwareFlags /\ TableSoFar
  BY <1>1 DEF MemInv
<1>3. info.has_linuxbios /\ t.records \in Seq(TableRecord) /\ n \in Nat /\ n <= SizeUpTo(t.records, Len(t.records))
  BY <1>2, Zenon DEF FirmwareFlags, TableSoFar
<1>4. PICK j \in 0 .. Len(t.records) : Walked(t.records, n, j, todo, rest)
  BY <1>2, Zenon DEF TableSoFar
<1>5. rest > 0
  BY <1>1 DEF WalkOver
<1>6. j < Len(t.records) /\ Len(t.records) \in Nat
  <2>0. Len(t.records) \in Nat
    BY <1>3, LenProperties
  <2>1. ASSUME j = Len(t.records) PROVE FALSE
    <3>1. rest = n - SizeUpTo(t.records, j) /\ n <= SizeUpTo(t.records, j)
      BY <1>3, <1>4, <2>1 DEF Walked
    <3>2. SizeUpTo(t.records, j) \in Nat
      BY <1>3, <1>4, RecordTypes, SizeSteps
    <3> HIDE DEF n
    <3> QED
      BY <1>3, <1>5, <3>1, <3>2
  <2> QED
    BY <1>4, <2>0, <2>1
<1>7. todo[1] = t.records[j + 1] /\ j + 1 \in 1 .. Len(t.records)
  BY <1>3, <1>4, <1>5, <1>6, RecordTypes, WalkNext
<1> QED
  BY <1>3, <1>7, ElementOfSeq

(* So it is with a uniform boot loader.                                    *)
LEMMA UniformRecordIs ==
    ASSUME MemInv, UniformRecord
    PROVE  todo[1] \in TableRecord
<1> DEFINE d == boot.data
           n == d.env_bytes
           N == Len(d.env)
<1>1. cpc = "uniform" /\ rest > 0
  BY DEF UniformRecord
<1>2. boot \in Boots /\ LoaderFlags /\ UniformSoFar
  BY <1>1 DEF MemInv
<1>3. boot.type = "uniform"
  BY <1>2 DEF LoaderFlags, UniformSoFar
<1>4. d.env \in Seq(TableRecord) /\ Walkable(d.env, n) /\ n \in Nat
  BY <1>2, <1>3, BootTypes DEF Walkable
<1>5. PICK j \in 0 .. N : Walked(d.env, n, j, todo, rest) /\ \A k \in 1 .. j : d.env[k].size # 0
  BY <1>2, Zenon DEF UniformSoFar
<1>6. N \in Nat /\ DOMAIN d.env = 1 .. N
  BY <1>4, LenProperties
<1>7. j < N
  <2>1. ASSUME j = N PROVE FALSE
    <3>1. ~Loops(d.env, n)
      BY <1>5, <1>6, <2>1 DEF Loops, Inside
    <3>2. n <= SizeUpTo(d.env, j)
      BY <1>4, <2>1, <3>1 DEF Walkable
    <3>3. rest = n - SizeUpTo(d.env, j)
      BY <1>5 DEF Walked
    <3>4. SizeUpTo(d.env, j) \in Nat
      BY <1>4, <1>5, RecordTypes, SizeSteps
    <3> HIDE DEF n
    <3> QED
      BY <1>1, <1>4, <3>2, <3>3, <3>4
  <2> QED
    BY <1>5, <1>6, <2>1
<1>8. todo[1] = d.env[j + 1] /\ j + 1 \in 1 .. N
  <2>1. rest > 0 /\ Walked(d.env, n, j, todo, rest) /\ j < Len(d.env)
    BY <1>1, <1>5, <1>7
  <2> HIDE DEF d, n
  <2> QED
    BY <1>4, <2>1, RecordTypes, WalkNext
<1> QED
  BY <1>4, <1>8, ElementOfSeq

(* Every step of the converter works on a page.                            *)
LEMMA PageThere ==
    ASSUME MemInv, cpc \in {"class", "firmware", "values", "linuxbios", "bootloader", "elf", "uniform",
                            "hardware", "linux"}
    PROVE  PageOk(rm)
<1>1. CASE cpc \in {"class", "firmware", "values"}
  BY <1>1 DEF MemInv, FreshPage
<1>2. CASE cpc = "linuxbios"
  <2>1. TableSoFar
    BY <1>2 DEF MemInv
  <2> QED
    BY <2>1, Zenon DEF TableSoFar, Reports
<1>3. CASE cpc \in {"bootloader", "elf"}
  BY <1>3 DEF MemInv, FirmwareReported, Reports
<1>4. CASE cpc = "uniform"
  <2>1. UniformSoFar
    BY <1>4 DEF MemInv
  <2> QED
    BY <2>1, Zenon DEF UniformSoFar, Reports
<1>5. CASE cpc \in {"hardware", "linux"}
  BY <1>5 DEF MemInv, MemoryReported, Reports
<1> QED
  BY <1>1, <1>2, <1>3, <1>4, <1>5

(* A multiboot loader adds its line between a size and its ranges.         *)
MultibootLine ==
    /\ convert_multiboot /\ "cmdline" \in boot.data.flags
    /\ \E p : /\ PageOk(p) /\ KeepsPage(rm, p)
              /\ KeepsPage(append_command_line(p, boot.data.command_line, -1), rm')

(* What convert_multiboot does to the page.                                *)
LEMMA MultibootMoves ==
    ASSUME MemInv, convert_multiboot
    PROVE  KeepsPage(rm, rm') \/ MultibootLine
<1> DEFINE mb == boot.data
           need == info.need_mem_sizes
           k == (mb.mem_upper + OneM) % (HugeK + 1)
           a == IF need /\ "mem" \in mb.flags THEN set_memsize_k(rm, k) ELSE rm
           b == IF "cmdline" \in mb.flags THEN append_command_line(a, mb.command_line, -1) ELSE a
<1>1. /\ cpc = "bootloader" /\ info.has_multiboot
      /\ rm' = IF need /\ "mmap" \in mb.flags THEN AddAll(b, mb.mmap) ELSE b
  BY DEF convert_multiboot, MultibootPage, convert_multiboot_memmap
<1>2. boot \in Boots /\ LoaderFlags /\ PageOk(rm)
  BY <1>1, PageThere DEF MemInv
<1>3. boot.type = "multiboot"
  BY <1>1, <1>2 DEF LoaderFlags
<1>4. mb.mmap \in Seq(e820entry) /\ mb.mem_upper \in Nat
  BY <1>2, <1>3, BootTypes
<1>5. k \in Nat
  <2> DEFINE s == mb.mem_upper + OneM
             m == HugeK + 1
  <2>1. s \in Nat /\ m \in Nat \ {0}
    BY <1>4, Limits
  <2> HIDE DEF s, m
  <2>2. s % m \in 0 .. m - 1
    BY <2>1, DivMod
  <2>3. s % m \in Nat
    BY <2>1, <2>2
  <2> QED
    BY <2>3 DEF s, m
<1> HIDE DEF k
<1>6. PageOk(a) /\ KeepsPage(rm, a)
  BY <1>2, <1>5, MemoryKeepsPage DEF KeepsPage
<1> HIDE DEF a
<1>7. PageOk(b)
  BY <1>6, LineIs
<1> HIDE DEF b
<1>8. KeepsPage(b, rm')
  BY <1>1, <1>4, <1>7, MemoryKeepsPage DEF KeepsPage
<1>9. CASE "cmdline" \in mb.flags
  <2>1. b = append_command_line(a, mb.command_line, -1)
    BY <1>9 DEF b
  <2> QED
    BY <1>6, <1>8, <1>9, <2>1 DEF MultibootLine
<1>10. CASE "cmdline" \notin mb.flags
  <2>1. b = a
    BY <1>10 DEF b
  <2> QED
    BY <1>6, <1>8, <2>1 DEF KeepsPage
<1> QED
  BY <1>9, <1>10

(* A step of the converter adds to the command line, or leaves all but the *)
(* memory alone.                                                           *)
LEMMA PageMoves ==
    ASSUME MemInv, ConvertStep, cpc # "startup"
    PROVE  /\ PageOk(rm) /\ image' = image /\ boot' = boot
           /\ \/ KeepsPage(rm, rm')
              \/ MultibootLine
              \/ convert_uniform_boot /\ rm' = append_command_line(rm, boot.data.arg, boot.data.arg_bytes)
              \/ ElfNote /\ rm' = append_command_line(rm, todo[1].desc, todo[1].descsz)
<1>0. KeepsPage(rm, rm)
  BY DEF KeepsPage
<1>1. CASE query_bootloader_param_class \/ query_firmware_class \/ WalkLinuxBios \/ LinuxBiosEnd \/ NoFirmware
           \/ UniformEnd \/ convert_elf_boot \/ ElfEnd \/ UnknownBootloader
  <2>1. cpc \in {"class", "firmware", "values", "linuxbios", "bootloader", "elf", "uniform", "hardware", "linux"}
        /\ rm' = rm /\ image' = image /\ boot' = boot
    BY <1>1 DEF query_bootloader_param_class, query_firmware_class, WalkLinuxBios, LinuxBiosEnd, NoFirmware,
                UniformEnd, convert_elf_boot, ElfEnd, UnknownBootloader
  <2> QED
    BY <1>0, <2>1, PageThere
<1>2. CASE LinuxBiosRecord
  <2>1. cpc = "linuxbios" /\ image' = image /\ boot' = boot
        /\ (rm' = rm \/ rm' = AddAll(rm, Prefix(Typed(todo[1].map, LbType), E820MAX)))
    BY <1>2 DEF LinuxBiosRecord, convert_lb_memory
  <2>2. PageOk(rm)
    BY <2>1, PageThere
  <2>3. Prefix(Typed(todo[1].map, LbType), E820MAX) \in Seq(e820entry)
    BY <1>2, LinuxBiosRecordIs, RecordTypes, TypedRanges
  <2> QED
    BY <1>0, <2>1, <2>2, <2>3, MemoryKeepsPage
<1>3. CASE query_pcbios_values
  <2>1. cpc = "values" /\ image' = image /\ boot' = boot
        /\ rm' = [AddAll(rm, meme820) EXCEPT !.alt_mem_k = boot.e801, !.ext_mem_k = boot.e88]
    BY <1>3 DEF query_pcbios_values, get_meminfo
  <2>2. PageOk(rm) /\ boot \in Boots
    BY <2>1, PageThere DEF MemInv
  <2>3. meme820 \in Seq(e820entry)
    BY <2>2, BootTypes, Limits, PrefixFacts DEF meme820
  <2> DEFINE q == AddAll(rm, meme820)
  <2>4. PageOk(q) /\ KeepsPage(rm, q)
    BY <2>2, <2>3, MemoryKeepsPage
  <2> HIDE DEF q
  <2>5. KeepsPage(q, rm')
    BY <2>1, <2>4 DEF KeepsPage, PageOk, q
  <2>6. KeepsPage(rm, rm')
    BY <2>4, <2>5 DEF KeepsPage
  <2> QED
    BY <2>1, <2>2, <2>6
<1>4. CASE convert_multiboot
  <2>1. cpc = "bootloader" /\ image' = image /\ boot' = boot
    BY <1>4 DEF convert_multiboot
  <2> QED
    BY <1>4, <2>1, PageThere, MultibootMoves
<1>5. CASE convert_uniform_boot
  <2>1. cpc = "bootloader" /\ image' = image /\ boot' = boot
        /\ (rm' = rm \/ rm' = append_command_line(rm, boot.data.arg, boot.data.arg_bytes))
    BY <1>5 DEF convert_uniform_boot
  <2> QED
    BY <1>0, <1>5, <2>1, PageThere
<1>6. CASE UniformRecord
  <2>1. cpc = "uniform" /\ image' = image /\ boot' = boot
        /\ (rm' = rm \/ rm' = AddAll(rm, Prefix(Typed(todo[1].map, UbeType), E820MAX)))
    BY <1>6 DEF UniformRecord, convert_uniform_boot_memory
  <2>2. PageOk(rm)
    BY <2>1, PageThere
  <2>3. Prefix(Typed(todo[1].map, UbeType), E820MAX) \in Seq(e820entry)
    BY <1>6, UniformRecordIs, RecordTypes, TypedRanges
  <2> QED
    BY <1>0, <2>1, <2>2, <2>3, MemoryKeepsPage
<1>7. CASE ElfNote
  <2>1. cpc = "elf" /\ image' = image /\ boot' = boot
        /\ (rm' = rm \/ rm' = append_command_line(rm, todo[1].desc, todo[1].descsz))
    BY <1>7 DEF ElfNote, convert_elf_command_line
  <2> QED
    BY <1>0, <1>7, <2>1, PageThere
<1>8. CASE hardware_setup
  <2>1. cpc = "hardware" /\ image' = image /\ boot' = boot /\ rm' = [rm EXCEPT !.masked = TRUE]
    BY <1>8 DEF hardware_setup
  <2>2. PageOk(rm)
    BY <2>1, PageThere
  <2>3. KeepsPage(rm, rm')
    BY <2>1, <2>2 DEF KeepsPage, PageOk
  <2> QED
    BY <2>1, <2>2, <2>3
<1>9. ~Initialize
  BY DEF Initialize
<1> QED
  BY <1>1, <1>2, <1>3, <1>4, <1>5, <1>6, <1>7, <1>8, <1>9 DEF ConvertStep

-----------------------------------------------------------------------------
(* The page says of the initrd what the image says.                        *)
InitrdKept ==
    /\ rm.initrd_size = image.initrd_size
    /\ rm.initrd_start = IF image.initrd_size = 0 THEN 0 ELSE image.initrd_start

(* The image is in memory, but for what the converter writes over it.      *)
LoadInv ==
    /\ cut \in BOOLEAN
    /\ cpc # "off" => /\ pc = "built" /\ Placed(FilePhdrs)
                      /\ image = image_params(LoadedMemory(FilePhdrs))
    /\ cpc \in {"loaded", "startup"} => mem = LoadedMemory(FilePhdrs)
    /\ cpc \notin {"off", "loaded", "startup"} =>
          mem = startup_32(LoadedMemory(FilePhdrs)) /\ InitrdKept

(* What the finished file decides.                                         *)
LEMMA SameFile ==
    ASSUME out' = out
    PROVE  /\ FilePhdrs' = FilePhdrs /\ LoadedMemory(FilePhdrs)' = LoadedMemory(FilePhdrs)
           /\ Placed(FilePhdrs)' = Placed(FilePhdrs)
<1>1. FilePhdrs' = FilePhdrs
  BY Zenon DEF FilePhdrs, FilePhdr
<1>2. LoadedMemory(FilePhdrs)' = LoadedMemory(FilePhdrs)
  <2> DEFINE cell(o, p, a) == IF a - p.paddr < p.filesz THEN o[p.offset + a - p.paddr + 1] ELSE 0
             loaded(o, ph) ==
                [a \in Addresses |->
                    LET cover == {i \in DOMAIN ph : Covers(ph[i], a)}
                    IN IF cover = {} THEN 0
                       ELSE cell(o, ph[CHOOSE i \in cover : \A j \in cover : j <= i], a)]
  <2>1. LoadedMemory(FilePhdrs) = loaded(out, FilePhdrs)
    BY Zenon DEF LoadedMemory, CellOf
  <2>2. LoadedMemory(FilePhdrs)' = loaded(out', FilePhdrs')
    BY Zenon DEF LoadedMemory, CellOf
  <2> HIDE DEF loaded
  <2> QED
    BY <1>1, <2>1, <2>2
<1>3. Placed(FilePhdrs)' = Placed(FilePhdrs)
  BY <1>1, Zenon DEF Placed
<1> QED
  BY <1>1, <1>2, <1>3

(* The builder does nothing once the file is built.                        *)
LEMMA BuilderStops ==
    ASSUME ImageNext
    PROVE  pc # "built" /\ (cut' = cut \/ cut' = (KernelLeft > 0))
BY DEF ImageNext, ImageStep, MainHelp, MainError, MainStart, GzRead, GzEnd, Probe, ParseOptions,
       ReadRamdisk, FillHeaders, SerializeHeaders, SumSegment, WriteStart, WriteSome, WriteClose,
       GzInterrupted, ReadInterrupted, WriteInterrupted, RamdiskShrinks, ReadNothing, Fail, ivars

(* The image stays in memory as it was loaded, and the initrd's place on   *)
(* the page, through every step of every boot loader.                      *)
THEOREM LoadInvHolds == Spec => []LoadInv
<1>1. Init => LoadInv
  BY DEF Init, ImageInit, LoadInv
<1>2. LoadInv /\ MemInv /\ [Next]_vars => LoadInv'
  <2> SUFFICES ASSUME LoadInv, MemInv, [Next]_vars PROVE LoadInv'
    OBVIOUS
  <2>1. CASE Build
    <3>1. ImageNext /\ UNCHANGED <<cpc, boot, image, rm, info, todo, rest, mem>>
      BY <2>1 DEF Build, cvars
    <3>2. pc # "built" /\ (cut' = cut \/ cut' = (KernelLeft > 0))
      BY <3>1, BuilderStops
    <3>3. cut' \in BOOLEAN
      <4>1. (KernelLeft > 0) \in BOOLEAN /\ cut \in BOOLEAN
        BY DEF LoadInv
      <4> QED
        BY <3>2, <4>1, Zenon
    <3>4. cpc = "off"
      BY <3>2 DEF LoadInv
    <3> QED
      BY <3>1, <3>3, <3>4 DEF LoadInv
  <2>2. CASE Load
    <3>1. /\ pc = "built" /\ cpc = "off" /\ Placed(FilePhdrs) /\ mem' = LoadedMemory(FilePhdrs)
          /\ image' = image_params(mem') /\ cpc' = "loaded" /\ UNCHANGED <<pc, out, cut>>
      BY <2>2 DEF Load, ivars
    <3>2. LoadedMemory(FilePhdrs)' = LoadedMemory(FilePhdrs) /\ Placed(FilePhdrs)'
      BY <3>1, SameFile
    <3>3. image' = image_params(LoadedMemory(FilePhdrs)')
      BY <3>1, <3>2
    <3>4. image_params(LoadedMemory(FilePhdrs))' = image_params(LoadedMemory(FilePhdrs)')
      BY Zenon DEF image_params
    <3> QED
      BY <3>1, <3>2, <3>3, <3>4 DEF LoadInv
  <2>3. CASE Enter
    <3>1. cpc = "loaded" /\ cpc' = "startup" /\ UNCHANGED <<pc, out, cut, image, mem>>
      BY <2>3 DEF Enter, ivars
    <3>2. LoadedMemory(FilePhdrs)' = LoadedMemory(FilePhdrs) /\ Placed(FilePhdrs)' = Placed(FilePhdrs)
      BY <3>1, SameFile
    <3>3. image_params(LoadedMemory(FilePhdrs))' = image_params(LoadedMemory(FilePhdrs))
      BY <3>2, Zenon DEF image_params
    <3> QED
      BY <3>1, <3>2, <3>3 DEF LoadInv
  <2>4. CASE Convert
    <3>1. ConvertStep /\ mem' = (IF cpc = "startup" THEN startup_32(mem) ELSE mem) /\ UNCHANGED <<pc, out, cut>>
      BY <2>4 DEF Convert, ivars
    <3>2. LoadedMemory(FilePhdrs)' = LoadedMemory(FilePhdrs) /\ Placed(FilePhdrs)' = Placed(FilePhdrs)
      BY <3>1, SameFile
    <3>3. image_params(LoadedMemory(FilePhdrs))' = image_params(LoadedMemory(FilePhdrs))
          /\ startup_32(LoadedMemory(FilePhdrs))' = startup_32(LoadedMemory(FilePhdrs))
      BY <3>2, Zenon DEF image_params, startup_32
    <3>4. cpc \notin {"off", "loaded"} /\ cpc' \notin {"off", "loaded", "startup"}
      BY <3>1 DEF ConvertStep, Initialize, query_bootloader_param_class, query_firmware_class, WalkLinuxBios,
                  LinuxBiosRecord, LinuxBiosEnd, query_pcbios_values, NoFirmware, convert_multiboot,
                  convert_uniform_boot, UniformRecord, UniformEnd, convert_elf_boot, ElfNote, ElfEnd,
                  UnknownBootloader, hardware_setup
    <3>5. CASE cpc = "startup"
      <4>1. Initialize
        BY <3>1, <3>5 DEF ConvertStep, Initialize, query_bootloader_param_class, query_firmware_class, WalkLinuxBios,
                  LinuxBiosRecord, LinuxBiosEnd, query_pcbios_values, NoFirmware, convert_multiboot,
                  convert_uniform_boot, UniformRecord, UniformEnd, convert_elf_boot, ElfNote, ElfEnd,
                  UnknownBootloader, hardware_setup
      <4>2. rm' = initialize_linux_params(image) /\ image' = image
        BY <4>1 DEF Initialize
      <4>3. InitrdKept'
        BY <4>2 DEF InitrdKept, initialize_linux_params
      <4> QED
        BY <3>1, <3>2, <3>3, <3>4, <3>5, <4>2, <4>3 DEF LoadInv
    <3>6. CASE cpc # "startup"
      <4>1. /\ image' = image /\ PageOk(rm)
            /\ \/ KeepsPage(rm, rm')
               \/ MultibootLine
               \/ \E arg, n : rm' = append_command_line(rm, arg, n)
        BY <3>1, <3>6, PageMoves
      <4>2. rm'.initrd_start = rm.initrd_start /\ rm'.initrd_size = rm.initrd_size
        <5>1. CASE KeepsPage(rm, rm')
          BY <5>1 DEF KeepsPage
        <5>2. CASE MultibootLine
          <6>1. PICK p : /\ PageOk(p) /\ KeepsPage(rm, p)
                         /\ KeepsPage(append_command_line(p, boot.data.command_line, -1), rm')
            BY <5>2 DEF MultibootLine
          <6>2. /\ append_command_line(p, boot.data.command_line, -1).initrd_start = p.initrd_start
                /\ append_command_line(p, boot.data.command_line, -1).initrd_size = p.initrd_size
            BY <6>1, LineKeepsInitrd
          <6> QED
            BY <6>1, <6>2 DEF KeepsPage
        <5>3. CASE \E arg, n : rm' = append_command_line(rm, arg, n)
          BY <4>1, <5>3, LineKeepsInitrd
        <5> QED
          BY <4>1, <5>1, <5>2, <5>3
      <4>3. InitrdKept'
        BY <3>4, <3>6, <4>1, <4>2 DEF InitrdKept, LoadInv
      <4> QED
        BY <3>1, <3>2, <3>3, <3>4, <3>6, <4>1, <4>3 DEF LoadInv
    <3> QED
      BY <3>5, <3>6
  <2>5. CASE UNCHANGED vars
    <3>1. UNCHANGED <<pc, out, cut, cpc, image, rm, mem>>
      BY <2>5 DEF vars, ivars, cvars
    <3>2. LoadedMemory(FilePhdrs)' = LoadedMemory(FilePhdrs) /\ Placed(FilePhdrs)' = Placed(FilePhdrs)
      BY <3>1, SameFile
    <3>3. image_params(LoadedMemory(FilePhdrs))' = image_params(LoadedMemory(FilePhdrs))
          /\ startup_32(LoadedMemory(FilePhdrs))' = startup_32(LoadedMemory(FilePhdrs))
      BY <3>2, Zenon DEF image_params, startup_32
    <3>4. InitrdKept => InitrdKept'
      BY <3>1 DEF InitrdKept
    <3> QED
      BY <3>1, <3>2, <3>3, <3>4 DEF LoadInv
  <2> QED
    BY <2>1, <2>2, <2>3, <2>4, <2>5 DEF Next
<1> QED
  BY <1>1, <1>2, MemInvHolds, PTL DEF Spec

-----------------------------------------------------------------------------
-----------------------------------------------------------------------------
(* The segment that covers an address is the only one, so a loader puts    *)
(* its cell there; and what the converter writes over is another segment.  *)
LEMMA MemoryOf ==
    ASSUME BuildInv, pc = "built", Expressible, Placed(FilePhdrs), Disjoint(FilePhdrs),
           NEW i \in 2 .. Len(ehdr), NEW k \in Nat, k < ehdr[i].memsz
    PROVE  LET a == ehdr[i].paddr + k
               m == LoadedMemory(FilePhdrs)
           IN /\ m[a] = IF k + 1 <= Len(ehdr[i].data) THEN ehdr[i].data[k + 1] ELSE 0
              /\ i # 3 => startup_32(m)[a] = m[a]
<1> DEFINE ph == FilePhdrs
           L == Len(ehdr)
           a == ehdr[i].paddr + k
           m == LoadedMemory(ph)
           cover == {j \in DOMAIN ph : Covers(ph[j], a)}
           last == CHOOSE j \in cover : \A l \in cover : l <= j
<1>1. pc \in AtHeaders
  BY DEF AtHeaders
<1>2. Phdrs(ehdr)
  BY <1>1, HeadersKnown
<1>3. L \in Nat /\ L >= 3
  BY <1>2, PhdrTypes
<1>4. ph = [j \in 1 .. L |-> WrittenPhdr(j)]
  BY FilePhdrsAre
<1>5. i \in 1 .. L /\ i # 1 /\ DOMAIN ph = 1 .. L /\ ph[i] = WrittenPhdr(i)
  BY <1>3, <1>4
<1>6. /\ ph[i].type = PT_LOAD /\ ph[i].paddr = ehdr[i].paddr /\ ph[i].memsz = ehdr[i].memsz
      /\ ehdr[i].paddr \in Nat /\ ehdr[i].memsz \in Nat /\ Len(ehdr[i].data) \in Nat
      /\ CellOf(ph[i], a) = IF k + 1 <= Len(ehdr[i].data) THEN ehdr[i].data[k + 1] ELSE 0
  BY <1>5, CellIs
<1>7. a \in Addresses
  <2>1. ph[i].paddr + ph[i].memsz <= TopAddress + 1
    BY <1>5, <1>6 DEF Placed
  <2> QED
    BY <1>6, <2>1, TopAssumption DEF Addresses
<1>8. Covers(ph[i], a)
  <2>1. a \in ehdr[i].paddr .. ehdr[i].paddr + ehdr[i].memsz - 1
    BY <1>6
  <2> HIDE DEF ph, a
  <2> QED
    BY <1>6, <2>1 DEF Covers
<1> HIDE DEF ph, a
<1>9. cover = {i}
  BY <1>5, <1>7, <1>8 DEF Disjoint, ph
<1>10. last = i
  <2>1. i \in cover /\ \A l \in cover : l <= i
    BY <1>5, <1>9
  <2>2. last \in cover
    BY <2>1, Zenon
  <2> QED
    BY <1>9, <2>2
<1>11. m[a] = CellOf(ph[i], a)
  <2>1. m[a] = IF cover = {} THEN 0 ELSE CellOf(ph[last], a)
    BY <1>7, Zenon DEF LoadedMemory
  <2> HIDE DEF cover, last
  <2> QED
    BY <1>9, <1>10, <2>1
<1>12. ASSUME i # 3 PROVE startup_32(m)[a] = m[a]
  <2>1. 3 \in 2 .. L /\ 3 \in DOMAIN ph /\ 0 \in Nat
    BY <1>3, <1>5
  <2>2. ph[3] = WrittenPhdr(3)
    BY <1>4, <1>5, <2>1
  <2>3. ph[3].type = PT_LOAD /\ ph[3].paddr = ehdr[3].paddr /\ ph[3].memsz = ehdr[3].memsz
    BY <2>1, <2>2, CellIs DEF L
  <2>4. ehdr[3] = Segment(REAL_MODE_DATA_LOC, <<>>, GDTLOC - REAL_MODE_DATA_LOC + gdt_size)
    BY <1>1, HeadersKnown, EhdrIs
  <2>5. ph[3].paddr = REAL_MODE_DATA_LOC /\ ph[3].memsz = GDTLOC - REAL_MODE_DATA_LOC + gdt_size
    BY <2>3, <2>4 DEF Segment
  <2>6. ~Covers(ph[3], a)
    BY <1>5, <1>7, <1>8, <1>12, <2>1 DEF Disjoint, ph
  <2>7. REAL_MODE_DATA_LOC + (GDTLOC - REAL_MODE_DATA_LOC + gdt_size) - 1 = GDTLOC + gdt_size - 1
    BY Sizes
  <2>8. a \notin REAL_MODE_DATA_LOC .. GDTLOC + gdt_size - 1
    BY <2>3, <2>5, <2>6, <2>7 DEF Covers
  <2> HIDE DEF m
  <2> QED
    BY <1>7, <2>8 DEF startup_32
<1> HIDE DEF m
<1>13. m[a] = IF k + 1 <= Len(ehdr[i].data) THEN ehdr[i].data[k + 1] ELSE 0
  BY <1>6, <1>11
<1> QED
  BY <1>12, <1>13, Zenon DEF m, a, ph

(* What the converter finds in its payload is what mkelfImage put there.   *)
LEMMA ImageIs ==
    ASSUME BuildInv, pc = "built", Expressible, Placed(FilePhdrs), Disjoint(FilePhdrs)
    PROVE  LET im == image_params(LoadedMemory(FilePhdrs))
           IN /\ im.initrd_start = IF ramdisk_size = 0 THEN 0 ELSE want.base
              /\ im.initrd_size = ramdisk_size
              /\ im.cmdline = ParamCmdline
<1> DEFINE m == LoadedMemory(FilePhdrs)
           l == Len(Code)
           N == NumCells
           at == CONVERTLOC + l - 1
           start == IF ramdisk_size = 0 THEN 0 ELSE want.base
           im == image_params(m)
<1>1. pc \in AtHeaders
  BY DEF AtHeaders
<1>2. BufferedKernel /\ ParsedKernel /\ Wanted /\ BufferedRamdisk /\ Len(rbuf) = Len(RamdiskData)
      /\ ehdr = e_phdr /\ Phdrs(ehdr)
  BY <1>1, HeadersKnown
<1>3. Len(ehdr) \in Nat /\ Len(ehdr) >= 3 /\ DOMAIN ehdr = 1 .. Len(ehdr)
  BY <1>2, PhdrTypes
<1>4. ehdr[2] = Segment(CONVERTLOC, payload, Len(payload) + bss_size)
  BY <1>2, EhdrIs
<1>5. ehdr[2].paddr = CONVERTLOC /\ ehdr[2].data = payload /\ ehdr[2].memsz = Len(payload) + bss_size
  BY <1>4 DEF Segment
<1>6. N \in Nat \ {0} /\ CMDLINE_MAX \in Nat /\ CONVERTLOC \in Nat /\ bss_size \in Nat
  BY Sizes
<1>7. /\ Len(payload) = l + 2 * N + CMDLINE_MAX /\ l \in Nat /\ start \in Nat /\ ramdisk_size \in Nat
      /\ \A k \in 1 .. N : payload[l + k] = cpu_to_elf(start)[k]
      /\ \A k \in 1 .. N : payload[l + N + k] = cpu_to_elf(ramdisk_size)[k]
      /\ \A k \in 1 .. CMDLINE_MAX : payload[l + 2 * N + k] = ParamCmdline[k]
  BY <1>2, PayloadIs
<1>8. ASSUME NEW j \in 1 .. Len(payload) PROVE m[CONVERTLOC + j - 1] = payload[j]
  <2> DEFINE k == j - 1
  <2>1. k \in Nat /\ k + 1 = j /\ CONVERTLOC + k = CONVERTLOC + j - 1 /\ k < ehdr[2].memsz
        /\ 2 \in 2 .. Len(ehdr) /\ k + 1 <= Len(ehdr[2].data)
    BY <1>3, <1>5, <1>6, <1>7
  <2> HIDE DEF k
  <2>2. m[ehdr[2].paddr + k] = IF k + 1 <= Len(ehdr[2].data) THEN ehdr[2].data[k + 1] ELSE 0
    BY <2>1, MemoryOf
  <2> HIDE DEF m
  <2> QED
    BY <1>5, <2>1, <2>2
<1>9. start < Power[N] /\ ramdisk_size < Power[N]
  <2>1. CASE ramdisk_size = 0
    <3>1. Power[N] \in Nat \ {0}
      BY <1>6, PowerFacts
    <3> QED
      BY <2>1, <3>1
  <2>2. CASE ramdisk_size # 0
    <3>1. ehdr[Len(ehdr)] = Segment(want.base, rbuf, ramdisk_size)
      BY <1>2, <2>2, EhdrIs
    <3>2. ehdr[Len(ehdr)].paddr = want.base /\ ehdr[Len(ehdr)].memsz = ramdisk_size
      BY <3>1 DEF Segment
    <3>3. Len(ehdr) \in DOMAIN ehdr
      BY <1>3
    <3> QED
      BY <2>2, <3>2, <3>3 DEF Expressible
  <2> QED
    BY <2>1, <2>2
<1> DEFINE b1 == at + N
           b2 == at + 2 * N
<1> HIDE DEF m, l, start
<1>10. \A k \in 1 .. N : m[at + k] = cpu_to_elf(start)[k]
  <2> SUFFICES ASSUME NEW k \in 1 .. N PROVE m[at + k] = cpu_to_elf(start)[k]
    OBVIOUS
  <2> DEFINE j == l + k
  <2>1. j \in 1 .. Len(payload) /\ at + k = CONVERTLOC + j - 1
    BY <1>6, <1>7
  <2>2. payload[j] = cpu_to_elf(start)[k]
    BY <1>7
  <2> HIDE DEF j, at
  <2> QED
    BY <1>8, <2>1, <2>2
<1>11. \A k \in 1 .. N : m[b1 + k] = cpu_to_elf(ramdisk_size)[k]
  <2> SUFFICES ASSUME NEW k \in 1 .. N PROVE m[b1 + k] = cpu_to_elf(ramdisk_size)[k]
    OBVIOUS
  <2> DEFINE j == l + N + k
  <2>1. j \in 1 .. Len(payload) /\ b1 + k = CONVERTLOC + j - 1
    BY <1>6, <1>7
  <2>2. payload[j] = cpu_to_elf(ramdisk_size)[k]
    BY <1>7
  <2> HIDE DEF j, b1
  <2> QED
    BY <1>8, <2>1, <2>2
<1>12. \A k \in 1 .. CMDLINE_MAX : m[b2 + k] = ParamCmdline[k]
  <2> SUFFICES ASSUME NEW k \in 1 .. CMDLINE_MAX PROVE m[b2 + k] = ParamCmdline[k]
    OBVIOUS
  <2> DEFINE j == l + 2 * N + k
  <2>1. j \in 1 .. Len(payload) /\ b2 + k = CONVERTLOC + j - 1
    BY <1>6, <1>7
  <2>2. payload[j] = ParamCmdline[k]
    BY <1>7
  <2> HIDE DEF j, b2
  <2> QED
    BY <1>8, <2>1, <2>2
<1>13. /\ im.initrd_start = NumberAt(m, at) /\ im.initrd_size = NumberAt(m, b1)
       /\ im.cmdline = [i \in 1 .. CMDLINE_MAX |-> m[b2 + i]]
  <2>1. im = [initrd_start |-> NumberAt(m, at), initrd_size |-> NumberAt(m, b1),
              cmdline |-> [i \in 1 .. CMDLINE_MAX |-> m[b2 + i]]]
    BY Zenon DEF image_params, l
  <2> HIDE DEF im, at, b1, b2
  <2> QED
    BY <2>1
<1> HIDE DEF at, b1, b2, im
<1>14. NumberAt(m, at) = start
  BY <1>7, <1>9, <1>10, ReadBack
<1>15. NumberAt(m, b1) = ramdisk_size
  BY <1>7, <1>9, <1>11, ReadBack
<1>16. [i \in 1 .. CMDLINE_MAX |-> m[b2 + i]] = ParamCmdline
  BY <1>12 DEF ParamCmdline
<1> QED
  BY <1>13, <1>14, <1>15, <1>16, Zenon DEF im, m, start

(* Each segment that the kernel's file describes is among the parsed ones. *)
LEMMA KernelSegmentIs ==
    ASSUME BufferedKernel, ParsedKernel, Len(kbuf) = Len(KernelData), NEW s \in KernelSegments
    PROVE  /\ s.offset \in Nat /\ s.filesz \in Nat
           /\ \E j \in 1 .. Len(parse_kernel) :
                 /\ parse_kernel[j].paddr = s.paddr
                 /\ parse_kernel[j].data = Slice(kbuf, s.offset, s.filesz)
<1>0. kbuf \in Seq(Bytes) /\ Len(kbuf) \in Nat /\ Header = Kernels[kernel].header
  BY HeaderIs, LenProperties DEF BufferedKernel
<1>1. CASE parser = "bzImage"
  <2> DEFINE o == SetupCells(Header)
             n == Len(kbuf) - o
             d == Slice(kbuf, o, n)
             g == Segment(KernelLoc, d, BzMemsz)
  <2>1. o \in Nat /\ n \in Nat /\ Header.format = "HdrS"
    BY <1>0, <1>1, HeaderIs
  <2>2. parse_kernel = <<g>>
    BY <1>1 DEF parse_kernel, parse_bzImage_kernel
  <2>3. g.paddr = KernelLoc /\ g.data = d
    BY DEF Segment
  <2>4. s = [paddr |-> KernelLoc, offset |-> o, filesz |-> n]
    BY <1>0, <2>1 DEF KernelSegments, KernelData
  <2>5. s.paddr = KernelLoc /\ s.offset = o /\ s.filesz = n
    BY <2>4
  <2> HIDE DEF g, d
  <2>6. 1 \in 1 .. Len(parse_kernel) /\ parse_kernel[1] = g
    BY <2>2
  <2>7. parse_kernel[1].paddr = s.paddr /\ parse_kernel[1].data = Slice(kbuf, s.offset, s.filesz)
    BY <2>3, <2>5, <2>6, Zenon DEF d
  <2> QED
    BY <2>1, <2>5, <2>6, <2>7
<1>2. CASE parser # "bzImage"
  <2> DEFINE ph == Header.phdrs
             f == [i \in DOMAIN ph |-> IF i \in Loads(Header) THEN <<ElfSegment(ph[i])>> ELSE <<>>]
             E == {ElfSegment(ph[i]) : i \in DOMAIN ph}
  <2>1. ph \in Seq(KernelPhdr) /\ Header.format = "ELF32"
    BY <1>2, HeaderIs
  <2>2. parse_kernel = Joined(f, Len(ph))
    BY <1>2 DEF parse_kernel, parse_elf32_kernel
  <2>3. Len(ph) \in Nat /\ DOMAIN ph = 1 .. Len(ph) /\ \A i \in 1 .. Len(ph) : ph[i] \in KernelPhdr
    BY <2>1, LenProperties, ElementOfSeq
  <2>4. PICK i \in Loads(Header) :
           s = [paddr |-> ph[i].paddr, offset |-> ph[i].offset, filesz |-> ph[i].filesz]
    BY <1>0, <2>1 DEF KernelSegments
  <2>5. i \in 1 .. Len(ph)
    BY <2>3, <2>4 DEF Loads
  <2>6. /\ s.paddr = ph[i].paddr /\ s.offset = ph[i].offset /\ s.filesz = ph[i].filesz
        /\ s.offset \in Nat /\ s.filesz \in Nat
    BY <2>3, <2>4, <2>5 DEF KernelPhdr
  <2> HIDE DEF ph
  <2>7. \A j \in 1 .. Len(ph) : <<ElfSegment(ph[j])>> \in Seq(E)
    <3>1. \A j \in 1 .. Len(ph) : ElfSegment(ph[j]) \in E
      BY <2>3
    <3> HIDE DEF E
    <3> QED
      BY <3>1
  <2> HIDE DEF E
  <2>8. f \in [1 .. Len(ph) -> Seq(E)] /\ f[i] = <<ElfSegment(ph[i])>>
    BY <2>3, <2>4, <2>5, <2>7, EmptySeq
  <2>9. f \in Seq(Seq(E)) /\ Len(f) = Len(ph)
    BY <2>3, <2>8, FunctionIsSeq
  <2> DEFINE g == ElfSegment(ph[i])
  <2> HIDE DEF f, g
  <2>10. Len(f[i]) = 1 /\ f[i][1] = g
    BY <2>8 DEF g
  <2>11. JoinedWell(f)
    BY <2>9, JoinedAt
  <2> DEFINE j == Total(Lens(f), i - 1) + 1
  <2>12. j \in 1 .. Len(Joined(f, Len(f))) /\ Joined(f, Len(f))[j] = g
    <3>1. i \in 1 .. Len(f) /\ 1 \in 1 .. Len(f[i]) /\ Len(f) \in 0 .. Len(f)
      BY <2>3, <2>5, <2>9, <2>10
    <3>2. Len(Joined(f, Len(f))) = Total(Lens(f), Len(f))
      BY <2>11, <3>1 DEF JoinedWell
    <3>3. \A a \in 1 .. Len(f) : \A b \in 1 .. Len(f[a]) :
            /\ Total(Lens(f), a - 1) + b \in 1 .. Total(Lens(f), Len(f))
            /\ Joined(f, Len(f))[Total(Lens(f), a - 1) + b] = f[a][b]
      BY <2>11, Zenon DEF JoinedWell
    <3> QED
      BY <2>10, <3>1, <3>2, <3>3
  <2> HIDE DEF j
  <2>13. j \in 1 .. Len(parse_kernel) /\ parse_kernel[j] = g
    BY <2>2, <2>9, <2>12
  <2>14. g.paddr = ph[i].paddr /\ g.data = Slice(kbuf, ph[i].offset, ph[i].filesz)
    BY DEF g, ElfSegment, Segment
  <2> QED
    BY <2>6, <2>13, <2>14
<1> QED
  BY <1>1, <1>2

(* The kernel where its file wants it, and the initrd where the page says, *)
(* for every image, boot loader and machine.                               *)
THEOREM LoadedRight == Spec => []ImageAsLoaded
<1>1. BuildInv /\ LoadInv => ImageAsLoaded
  <2> SUFFICES ASSUME BuildInv, LoadInv, cpc = "linux", ~cut, Expressible, Fits(FilePhdrs), Disjoint(FilePhdrs)
               PROVE  /\ \A s \in KernelSegments : \A k \in 0 .. s.filesz - 1 :
                            s.offset + k + 1 \in DOMAIN Kernels[kernel].data =>
                                mem[s.paddr + k] = Kernels[kernel].data[s.offset + k + 1]
                      /\ rm.initrd_size = ramdisk_size
                      /\ \A k \in 0 .. rm.initrd_size - 1 :
                            mem[rm.initrd_start + k] = Ramdisks[want.ramdisk][k + 1]
    BY DEF ImageAsLoaded
  <2> DEFINE m == LoadedMemory(FilePhdrs)
  <2>1. /\ pc = "built" /\ Placed(FilePhdrs) /\ image = image_params(m)
        /\ mem = startup_32(m) /\ InitrdKept /\ cut = FALSE
    BY DEF LoadInv
  <2>2. pc \in AtHeaders
    BY <2>1 DEF AtHeaders
  <2>3. BufferedKernel /\ ParsedKernel /\ Wanted /\ BufferedRamdisk /\ Len(rbuf) = Len(RamdiskData)
        /\ ehdr = e_phdr /\ Phdrs(ehdr) /\ Len(kbuf) = Len(KernelData)
    BY <2>1, <2>2, HeadersKnown
  <2>4. Len(ehdr) \in Nat /\ Len(ehdr) >= 3 /\ DOMAIN ehdr = 1 .. Len(ehdr)
        /\ \A i \in 1 .. Len(ehdr) : ehdr[i].data \in Seq(Bytes) /\ ehdr[i].paddr \in Nat /\ ehdr[i].memsz \in Nat
    BY <2>3, PhdrTypes
  <2>5. AllFit
    BY <2>1, LoadedSegments
  <2>6. ASSUME NEW i \in 4 .. Len(ehdr), NEW k \in Nat, k + 1 <= Len(ehdr[i].data)
        PROVE  mem[ehdr[i].paddr + k] = ehdr[i].data[k + 1]
    <3>1. i \in 2 .. Len(ehdr) /\ i # 3 /\ i \in 1 .. Len(ehdr)
      BY <2>4
    <3>2. k < ehdr[i].memsz
      <4>1. Len(ehdr[i].data) <= ehdr[i].memsz /\ ehdr[i].memsz \in Nat /\ Len(ehdr[i].data) \in Nat
        BY <2>4, <2>5, <3>1, LenProperties DEF AllFit
      <4> QED
        BY <2>6, <4>1
    <3>3. m[ehdr[i].paddr + k] = ehdr[i].data[k + 1]
          /\ startup_32(m)[ehdr[i].paddr + k] = m[ehdr[i].paddr + k]
      BY <2>1, <2>6, <3>1, <3>2, MemoryOf
    <3> HIDE DEF m
    <3> QED
      BY <2>1, <3>3
  <2> HIDE DEF m
  <2>7. ASSUME NEW s \in KernelSegments, NEW k \in 0 .. s.filesz - 1, s.offset + k + 1 \in DOMAIN Kernels[kernel].data
        PROVE  mem[s.paddr + k] = Kernels[kernel].data[s.offset + k + 1]
    <3>1. PICK j \in 1 .. Len(parse_kernel) : /\ parse_kernel[j].paddr = s.paddr
                                              /\ parse_kernel[j].data = Slice(kbuf, s.offset, s.filesz)
      BY <2>3, KernelSegmentIs
    <3>2. s.offset \in Nat /\ s.filesz \in Nat
      BY <2>3, KernelSegmentIs
    <3> DEFINE i == 3 + j
    <3>3. i \in 4 .. Len(ehdr) /\ ehdr[i] = parse_kernel[j]
      BY <2>3, EhdrIs
    <3> HIDE DEF i
    <3>4. kbuf \in Seq(Bytes) /\ KernelData \in Seq(Bytes) /\ DOMAIN kbuf = DOMAIN KernelData
          /\ \A n \in DOMAIN KernelData : kbuf[n] = KernelData[n]
      <4>1. kbuf \in Seq(Bytes) /\ KernelData \in Seq(Bytes) /\ \A n \in 1 .. Len(kbuf) : kbuf[n] = KernelData[n]
        BY <2>3, HeaderIs DEF BufferedKernel
      <4> QED
        BY <2>3, <4>1, LenProperties
    <3>5. k \in Nat /\ k + 1 \in 1 .. s.filesz /\ s.offset + (k + 1) = s.offset + k + 1
      BY <3>2
    <3> DEFINE d == Slice(kbuf, s.offset, s.filesz)
    <3>6. Len(d) = s.filesz
          /\ \A n \in 1 .. s.filesz : d[n] = IF s.offset + n \in DOMAIN kbuf THEN kbuf[s.offset + n] ELSE 0
      <4> DEFINE o == s.offset
                 z == s.filesz
      <4>1. kbuf \in Seq(Bytes) /\ o \in Nat /\ z \in Nat
        BY <3>2, <3>4
      <4> HIDE DEF o, z
      <4>2. Len(Slice(kbuf, o, z)) = z
            /\ \A n \in 1 .. z : Slice(kbuf, o, z)[n] = IF o + n \in DOMAIN kbuf THEN kbuf[o + n] ELSE 0
        BY <4>1, SliceFacts
      <4> QED
        BY <4>2, Zenon DEF o, z
    <3>7. ehdr[i].data = d /\ ehdr[i].paddr = s.paddr
      BY <3>1, <3>3
    <3> HIDE DEF d
    <3>8. mem[s.paddr + k] = d[k + 1]
      <4>1. k + 1 <= Len(ehdr[i].data)
        BY <3>2, <3>5, <3>6, <3>7
      <4> QED
        BY <2>6, <3>3, <3>5, <3>7, <4>1
    <3>9. s.offset + k + 1 \in DOMAIN KernelData
      BY <2>7 DEF KernelData
    <3> DEFINE q == s.offset + k + 1
    <3>10. d[k + 1] = IF q \in DOMAIN kbuf THEN kbuf[q] ELSE 0
      BY <3>5, <3>6
    <3> HIDE DEF q
    <3>11. q \in DOMAIN KernelData
      BY <3>9 DEF q
    <3>12. mem[s.paddr + k] = KernelData[q]
      BY <3>4, <3>8, <3>10, <3>11
    <3> QED
      BY <3>12 DEF KernelData, q
  <2>8. ramdisk_size \in Nat /\ ramdisk_size = Len(RamdiskData)
    BY <2>3, RamdiskIs
  <2>9. /\ image.initrd_start = IF ramdisk_size = 0 THEN 0 ELSE want.base
        /\ image.initrd_size = ramdisk_size
    BY <2>1, ImageIs DEF m
  <2>10. rm.initrd_size = ramdisk_size /\ (ramdisk_size # 0 => rm.initrd_start = want.base)
    BY <2>1, <2>9 DEF InitrdKept
  <2>11. ASSUME NEW k \in 0 .. rm.initrd_size - 1
         PROVE  mem[rm.initrd_start + k] = Ramdisks[want.ramdisk][k + 1]
    <3>1. ramdisk_size # 0 /\ k \in Nat /\ k + 1 \in 1 .. ramdisk_size
      BY <2>8, <2>10
    <3> DEFINE i == Len(ehdr)
    <3>2. i >= 4 /\ ehdr[i] = Segment(want.base, rbuf, ramdisk_size)
      BY <2>3, <3>1, EhdrIs
    <3>3. i \in 4 .. Len(ehdr) /\ ehdr[i].paddr = want.base /\ ehdr[i].data = rbuf
      BY <2>4, <3>2 DEF Segment
    <3>4. Len(rbuf) = ramdisk_size /\ \A n \in 1 .. ramdisk_size : rbuf[n] = RamdiskData[n]
      BY <2>3, <2>8 DEF BufferedRamdisk
    <3> HIDE DEF i
    <3>5. mem[want.base + k] = rbuf[k + 1]
      <4>1. k + 1 <= Len(ehdr[i].data)
        BY <2>8, <3>1, <3>3, <3>4
      <4> QED
        BY <2>6, <3>1, <3>3, <4>1
    <3>6. RamdiskData = Ramdisks[want.ramdisk]
      <4>1. want.ramdisk # None
        BY <3>1 DEF ramdisk_size
      <4> QED
        BY <4>1 DEF RamdiskData
    <3> QED
      BY <2>10, <3>1, <3>4, <3>5, <3>6
  <2> QED
    BY <2>7, <2>10, <2>11
<1> QED
  BY <1>1, BuildInvHolds, LoadInvHolds, PTL

-----------------------------------------------------------------------------
-----------------------------------------------------------------------------
(* The length of a string: what comes before it is not zero, and what      *)
(* follows is, unless the limit is reached.                                *)
LEMMA StrnlenIs ==
    ASSUME NEW s, NEW max \in Nat
    PROVE  /\ strnlen(s, max) \in 0 .. max
           /\ \A j \in 1 .. strnlen(s, max) : j \in DOMAIN s /\ s[j] # 0
           /\ strnlen(s, max) < max => strnlen(s, max) + 1 \notin DOMAIN s \/ s[strnlen(s, max) + 1] = 0
<1> DEFINE ends == {i \in 0 .. max - 1 : i + 1 \notin DOMAIN s \/ s[i + 1] = 0}
           c == CHOOSE i \in ends : \A j \in ends : i <= j
           n == strnlen(s, max)
<1>1. n = IF ends = {} THEN max ELSE c
  BY Zenon DEF strnlen
<1>2. ends \subseteq Nat
  OBVIOUS
<1>3. CASE ends = {}
  <2>1. n = max
    BY <1>1, <1>3
  <2>2. ASSUME NEW j \in 1 .. max PROVE j \in DOMAIN s /\ s[j] # 0
    <3> DEFINE i == j - 1
    <3>1. i \in 0 .. max - 1 /\ i + 1 = j
      OBVIOUS
    <3> HIDE DEF i
    <3> QED
      BY <1>3, <3>1
  <2> HIDE DEF ends, c, n
  <2> QED
    BY <2>1, <2>2 DEF n
<1>4. CASE ends # {}
  <2>1. c \in ends /\ \A j \in ends : c <= j
    <3> HIDE DEF ends
    <3> QED
      BY <1>2, <1>4, FirstOf
  <2>2. n = c
    BY <1>1, <1>4
  <2> HIDE DEF c, n
  <2>3. c \in 0 .. max - 1 /\ (c + 1 \notin DOMAIN s \/ s[c + 1] = 0)
    BY <2>1
  <2>4. ASSUME NEW j \in 1 .. c PROVE j \in DOMAIN s /\ s[j] # 0
    <3> DEFINE i == j - 1
    <3>1. i \in 0 .. max - 1 /\ i + 1 = j /\ ~(c <= i)
      BY <2>3
    <3> HIDE DEF i
    <3>2. i \notin ends
      BY <2>1, <3>1
    <3> QED
      BY <3>1, <3>2
  <2> HIDE DEF ends
  <2> QED
    BY <2>2, <2>3, <2>4 DEF n
<1> QED
  BY <1>3, <1>4

(* What is appended ends with a zero; with a limit, it is bounded.         *)
LEMMA AppendedIs ==
    ASSUME NEW arg \in Seq(Bytes), NEW n \in Int
    PROVE  LET w == Appended(arg, n)
           IN /\ Len(w) \in Nat /\ Len(w) >= 2 /\ DOMAIN w = 1 .. Len(w) /\ w[Len(w)] = 0
              /\ n >= 0 => Len(w) <= CommandLine + 1
              /\ n < 0 => Len(w) <= Len(arg) + 2
<1> DEFINE limit == LineLimit(arg, n)
           l == strnlen(arg, limit)
           S == Bytes \cup {Blank, 0}
           u == SubSeq(arg, 1, l)
           a == <<Blank>>
           b == a \o u
           z == <<0>>
           w == b \o z
<1>1. Len(arg) \in Nat /\ DOMAIN arg = 1 .. Len(arg) /\ \A i \in 1 .. Len(arg) : arg[i] \in Bytes
  BY LenProperties, ElementOfSeq
<1>2. limit \in Nat /\ (n >= 0 => limit <= CommandLine - 1) /\ (n < 0 => limit = Len(arg))
  <2> DEFINE c == CommandLine - 1
             k == Len(arg)
  <2>1. c \in Nat /\ k \in Nat
    BY <1>1, Limits
  <2>2. limit = IF n < 0 THEN k ELSE IF c > n THEN n ELSE c
    BY DEF LineLimit
  <2> HIDE DEF c, k, limit
  <2>3. limit \in Nat /\ (n >= 0 => limit <= c) /\ (n < 0 => limit = k)
    BY <2>1, <2>2
  <2> QED
    BY <2>3 DEF c, k
<1> HIDE DEF limit
<1>3. l \in 0 .. limit /\ \A j \in 1 .. l : j \in DOMAIN arg
  BY <1>2, StrnlenIs
<1> HIDE DEF l
<1>4. \A j \in 1 .. l : arg[j] \in S
  BY <1>1, <1>3
<1>5. Blank \in S /\ 0 \in S
  OBVIOUS
<1> HIDE DEF S
<1>6. u \in Seq(S) /\ Len(u) = l
  <2>1. 1 \in Int /\ l \in Int
    BY <1>2, <1>3
  <2>2. u \in Seq(S) /\ Len(u) = IF 1 <= l THEN l - 1 + 1 ELSE 0
    BY <1>4, <2>1, SubSeqProperties
  <2> QED
    BY <1>2, <1>3, <2>2
<1>7. a \in Seq(S) /\ Len(a) = 1 /\ z \in Seq(S) /\ Len(z) = 1 /\ z[1] = 0
  BY <1>5
<1> HIDE DEF u, a, z
<1>8. b \in Seq(S) /\ Len(b) = 1 + l
  <2>1. a \in Seq(S) /\ u \in Seq(S)
    BY <1>6, <1>7
  <2>2. b \in Seq(S) /\ Len(b) = Len(a) + Len(u)
    BY <2>1, ConcatAt
  <2> QED
    BY <1>6, <1>7, <2>2
<1> HIDE DEF b
<1>9. w \in Seq(S) /\ Len(w) = Len(b) + Len(z) /\ \A k \in 1 .. Len(z) : w[Len(b) + k] = z[k]
  <2>1. b \in Seq(S) /\ z \in Seq(S)
    BY <1>7, <1>8
  <2> QED
    BY <2>1, ConcatAt
<1>10. 1 \in 1 .. Len(z)
  BY <1>7
<1>11. Len(w) = l + 2 /\ w[Len(b) + 1] = 0 /\ Len(b) + 1 = Len(w)
  BY <1>2, <1>3, <1>7, <1>8, <1>9, <1>10
<1>12. Appended(arg, n) = w
  BY Zenon DEF Appended, w, b, a, u, z, l, limit
<1>13. DOMAIN w = 1 .. Len(w)
  BY <1>9, LenProperties
<1> HIDE DEF w
<1>14. w[Len(w)] = 0
  BY <1>11
<1>15. Len(w) \in Nat /\ Len(w) >= 2 /\ (n >= 0 => Len(w) <= CommandLine + 1) /\ (n < 0 => Len(w) <= Len(arg) + 2)
  <2> DEFINE k == Len(w)
             c == Len(arg)
  <2>1. k = l + 2 /\ c \in Nat /\ CommandLine \in Nat
    BY <1>1, <1>11, Limits
  <2>2. (n >= 0 => limit <= CommandLine - 1) /\ (n < 0 => limit = c) /\ limit \in Nat
    BY <1>2
  <2> HIDE DEF k, c
  <2>3. k \in Nat /\ k >= 2 /\ (n >= 0 => k <= CommandLine + 1) /\ (n < 0 => k <= c + 2)
    BY <1>3, <2>1, <2>2
  <2> QED
    BY <2>3 DEF k, c
<1> QED
  BY <1>12, <1>13, <1>14, <1>15, Zenon

(* The image's line as it is put on the page, and a page that still begins *)
(* with it and ends inside.                                                *)
LineLength(im) == strnlen(im.cmdline, CommandLine - 1)
ImageLine(im) == [i \in 1 .. PageRoom |-> IF i <= LineLength(im) THEN im.cmdline[i] ELSE 0]
LineGood(p, im) ==
    /\ p.overrun = FALSE
    /\ p.cmdline = [i \in 1 .. PageRoom |-> p.cmdline[i]]
    /\ \A i \in 1 .. LineLength(im) : p.cmdline[i] = im.cmdline[i]
    /\ \E i \in LineLength(im) + 1 .. PageRoom : p.cmdline[i] = 0

(* The length of the image's line.                                         *)
LEMMA LineLengthIs ==
    ASSUME NEW im
    PROVE  /\ LineLength(im) \in Nat /\ LineLength(im) <= CommandLine - 1 /\ LineLength(im) < PageRoom
           /\ \A i \in 1 .. LineLength(im) : i \in DOMAIN im.cmdline /\ im.cmdline[i] # 0
           /\ LineLength(im) < CommandLine - 1 =>
                 LineLength(im) + 1 \notin DOMAIN im.cmdline \/ im.cmdline[LineLength(im) + 1] = 0
           /\ LineLength(im) <= strnlen(im.cmdline, CommandLine)
<1> DEFINE c == CommandLine - 1
           s == im.cmdline
           l == strnlen(s, c)
           k == strnlen(s, CommandLine)
<1>1. c \in Nat /\ CommandLine \in Nat /\ c < CommandLine /\ PageRoom \in Nat /\ c < PageRoom
  BY Limits
<1>2. /\ l \in 0 .. c /\ \A j \in 1 .. l : j \in DOMAIN s /\ s[j] # 0
      /\ l < c => l + 1 \notin DOMAIN s \/ s[l + 1] = 0
  BY <1>1, StrnlenIs
<1>3. k \in 0 .. CommandLine /\ (k < CommandLine => k + 1 \notin DOMAIN s \/ s[k + 1] = 0)
  BY <1>1, StrnlenIs
<1> HIDE DEF l, k
<1>4. l <= k
  <2> SUFFICES ASSUME k < l PROVE FALSE
    BY <1>1, <1>2, <1>3
  <2>1. k + 1 \in 1 .. l /\ k < CommandLine
    BY <1>1, <1>2, <1>3
  <2> QED
    BY <1>2, <1>3, <2>1
<1>5. LineLength(im) = l
  BY DEF LineLength, l
<1> QED
  BY <1>1, <1>2, <1>4, <1>5 DEF k

(* A page with just that line.                                             *)
LEMMA FreshLine ==
    ASSUME NEW p, NEW im, p.overrun = FALSE, p.cmdline = ImageLine(im)
    PROVE  LineGood(p, im) /\ strnlen(p.cmdline, CommandLine) = LineLength(im)
<1> DEFINE l == LineLength(im)
           k == strnlen(p.cmdline, CommandLine)
<1>1. l \in Nat /\ l <= CommandLine - 1 /\ l < PageRoom /\ \A i \in 1 .. l : im.cmdline[i] # 0
  BY LineLengthIs
<1>2. p.cmdline = [i \in 1 .. PageRoom |-> IF i <= l THEN im.cmdline[i] ELSE 0]
  BY DEF ImageLine
<1> HIDE DEF l
<1>3. l + 1 \in l + 1 .. PageRoom /\ l + 1 \in 1 .. PageRoom /\ ~(l + 1 <= l) /\ CommandLine \in Nat
      /\ \A i \in 1 .. l : i \in 1 .. PageRoom /\ i <= l
  BY <1>1, Limits
<1>4. /\ DOMAIN p.cmdline = 1 .. PageRoom /\ p.cmdline[l + 1] = 0
      /\ \A i \in 1 .. l : p.cmdline[i] = im.cmdline[i]
  BY <1>2, <1>3
<1>5. p.cmdline = [i \in 1 .. PageRoom |-> p.cmdline[i]]
  BY <1>2
<1>6. LineGood(p, im)
  BY <1>3, <1>4, <1>5 DEF LineGood, l
<1>7. /\ k \in 0 .. CommandLine /\ \A j \in 1 .. k : p.cmdline[j] # 0
      /\ k < CommandLine => k + 1 \notin DOMAIN p.cmdline \/ p.cmdline[k + 1] = 0
  BY <1>3, StrnlenIs
<1> HIDE DEF k
<1>8. ~(l < k)
  <2> SUFFICES ASSUME l < k PROVE FALSE
    OBVIOUS
  <2>1. l + 1 \in 1 .. k
    BY <1>1, <1>7
  <2> QED
    BY <1>4, <1>7, <2>1
<1>9. ~(k < l)
  <2> SUFFICES ASSUME k < l PROVE FALSE
    OBVIOUS
  <2>1. k + 1 \in 1 .. l /\ k < CommandLine
    BY <1>1, <1>3, <1>7
  <2>2. k + 1 \in DOMAIN p.cmdline /\ p.cmdline[k + 1] # 0
    BY <1>1, <1>3, <1>4, <2>1
  <2> QED
    BY <1>7, <2>1, <2>2
<1>10. k = l
  BY <1>1, <1>7, <1>8, <1>9
<1> QED
  BY <1>6, <1>10 DEF l, k

(* A line that is appended comes after what is there; if it fits, the page *)
(* still ends inside.                                                      *)
LEMMA AppendKeepsLine ==
    ASSUME NEW p, NEW im, PageOk(p), LineGood(p, im), NEW arg \in Seq(Bytes), NEW n \in Int,
           strnlen(p.cmdline, CommandLine) + Len(Appended(arg, n)) <= PageRoom
    PROVE  LineGood(append_command_line(p, arg, n), im)
<1> DEFINE l == LineLength(im)
           at == strnlen(p.cmdline, CommandLine)
           w == Appended(arg, n)
           q == append_command_line(p, arg, n)
           e == at + Len(w)
<1>1. l \in Nat /\ l <= CommandLine - 1 /\ l < PageRoom /\ \A i \in 1 .. l : im.cmdline[i] # 0
  BY LineLengthIs
<1>2. Len(w) \in Nat /\ Len(w) >= 2 /\ DOMAIN w = 1 .. Len(w) /\ w[Len(w)] = 0
  BY AppendedIs
<1>3. CommandLine \in Nat /\ PageRoom \in Nat
  BY Limits
<1>4. /\ at \in 0 .. CommandLine
      /\ at < CommandLine => at + 1 \notin DOMAIN p.cmdline \/ p.cmdline[at + 1] = 0
  BY <1>3, StrnlenIs
<1>5. /\ q.cmdline = [i \in 1 .. PageRoom |-> IF i - at \in DOMAIN w THEN w[i - at] ELSE p.cmdline[i]]
      /\ q.overrun = (p.overrun \/ at + Len(w) > PageRoom)
  BY LineIs
<1>6. /\ p.overrun = FALSE /\ p.cmdline = [i \in 1 .. PageRoom |-> p.cmdline[i]]
      /\ \A i \in 1 .. l : p.cmdline[i] = im.cmdline[i]
  BY Zenon DEF LineGood
<1>e. e <= PageRoom
  OBVIOUS
<1> HIDE DEF l, at, w, q
<1>7. l <= at
  <2> SUFFICES ASSUME at < l PROVE FALSE
    BY <1>1, <1>3, <1>4
  <2>1. at + 1 \in 1 .. l /\ at < CommandLine /\ at + 1 \in 1 .. PageRoom
    BY <1>1, <1>3, <1>4
  <2>2. at + 1 \in DOMAIN p.cmdline
    BY <1>6, <2>1
  <2> QED
    BY <1>1, <1>4, <1>6, <2>1, <2>2
<1>8. q.overrun = FALSE
  <2>1. ~(at + Len(w) > PageRoom)
    BY <1>2, <1>3, <1>4, <1>e
  <2> QED
    BY <1>5, <1>6, <2>1, Zenon
<1>9. \A i \in 1 .. l : q.cmdline[i] = im.cmdline[i]
  <2> SUFFICES ASSUME NEW i \in 1 .. l PROVE q.cmdline[i] = im.cmdline[i]
    OBVIOUS
  <2>1. i \in 1 .. PageRoom /\ i - at \notin 1 .. Len(w)
    BY <1>1, <1>2, <1>3, <1>4, <1>7
  <2> QED
    BY <1>2, <1>5, <1>6, <2>1
<1>10. e \in l + 1 .. PageRoom /\ q.cmdline[e] = 0
  <2>1. e \in l + 1 .. PageRoom /\ e \in 1 .. PageRoom /\ e - at = Len(w) /\ Len(w) \in 1 .. Len(w)
    BY <1>1, <1>2, <1>3, <1>4, <1>7, <1>e
  <2> HIDE DEF e
  <2> QED
    BY <1>2, <1>5, <2>1
<1>11. q.cmdline = [i \in 1 .. PageRoom |-> q.cmdline[i]]
  BY <1>5
<1> HIDE DEF e
<1> QED
  BY <1>8, <1>9, <1>10, <1>11 DEF LineGood, l, q

(* A line with a limit always fits.                                        *)
LEMMA BoundedLine ==
    ASSUME NEW p, NEW im, PageOk(p), LineGood(p, im), NEW arg \in Seq(Bytes), NEW n \in Nat
    PROVE  LineGood(append_command_line(p, arg, n), im)
<1> DEFINE at == strnlen(p.cmdline, CommandLine)
           w == Appended(arg, n)
<1>1. CommandLine \in Nat /\ PageRoom \in Nat /\ 2 * CommandLine + 1 <= PageRoom /\ n \in Int /\ n >= 0
  BY Limits
<1>2. at \in 0 .. CommandLine
  BY <1>1, StrnlenIs
<1>3. Len(w) \in Nat /\ Len(w) <= CommandLine + 1
  BY <1>1, AppendedIs
<1>4. at + Len(w) <= PageRoom
  <2> HIDE DEF at, w
  <2> QED
    BY <1>1, <1>2, <1>3
<1> QED
  BY <1>1, <1>4, AppendKeepsLine

-----------------------------------------------------------------------------
(* The header whose notes are walked is one that the machine holds, and    *)
(* the walk has passed records that lie in its table.                      *)
NotesInv ==
    /\ cpc \in {"firmware", "values", "linuxbios", "bootloader", "elf"} /\ info.has_elf_boot =>
          info.param \in Headers(boot)
    /\ cpc = "elf" => \E j : Walked(info.param.notes, info.param.b_size, j, todo, rest)

(* Notes have a size, so a walk over them does not stay where it is.       *)
LEMMA NotesWalkable ==
    ASSUME NEW b \in Boots, NEW h \in Headers(b)
    PROVE  /\ h.notes \in Seq(ElfNotes) /\ h.b_size \in Nat /\ h.b_size <= SizeUpTo(h.notes, Len(h.notes))
<1> DEFINE recs == h.notes
           n == h.b_size
<1>1. recs \in Seq(ElfNotes) /\ Walkable(recs, n)
  BY BootTypes
<1>2. \A r \in ElfNotes : r.size # 0
  BY DEF ElfNotes
<1>3. DOMAIN recs = 1 .. Len(recs) /\ \A k \in 1 .. Len(recs) : recs[k] \in ElfNotes
  BY <1>1, LenProperties, ElementOfSeq
<1> HIDE DEF recs, n
<1>4. ~Loops(recs, n)
  BY <1>2, <1>3 DEF Loops, Inside
<1>5. n \in Nat /\ n <= SizeUpTo(recs, Len(recs))
  BY <1>1, <1>4 DEF Walkable
<1> QED
  BY <1>1, <1>5 DEF recs, n

(* The note that the walk looks at is a note, and the walk goes on.        *)
LEMMA ElfNoteIs ==
    ASSUME MemInv, NotesInv, ElfNote
    PROVE  todo[1] \in ElfNotes /\ \E j : Walked(info.param.notes, info.param.b_size, j, todo', rest')
<1> DEFINE recs == info.param.notes
           n == info.param.b_size
<1>1. cpc = "elf" /\ ~WalkOver /\ rest' = rest - todo[1].size /\ todo' = Tail(todo)
  BY DEF ElfNote
<1>2. boot \in Boots /\ info.has_elf_boot
  BY <1>1 DEF MemInv
<1>3. info.param \in Headers(boot)
  BY <1>1, <1>2 DEF NotesInv
<1>4. recs \in Seq(ElfNotes) /\ n \in Nat /\ n <= SizeUpTo(recs, Len(recs))
  BY <1>2, <1>3, NotesWalkable
<1>5. PICK j : Walked(recs, n, j, todo, rest)
  BY <1>1 DEF NotesInv
<1>6. rest > 0 /\ ~(todo[1].size > rest)
  BY <1>1 DEF WalkOver
<1>7. \A r \in ElfNotes : r.size \in Nat
  BY DEF ElfNotes
<1> HIDE DEF recs, n
<1>8. j \in 0 .. Len(recs) /\ rest = n - SizeUpTo(recs, j)
  BY <1>5 DEF Walked
<1>9. Len(recs) \in Nat /\ SizeUpTo(recs, j) \in Nat
  BY <1>4, <1>7, <1>8, LenProperties, SizeSteps
<1>10. j < Len(recs)
  <2> SUFFICES ASSUME j = Len(recs) PROVE FALSE
    BY <1>8, <1>9
  <2> QED
    BY <1>4, <1>6, <1>8, <1>9
<1>11. /\ todo[1] = recs[j + 1] /\ j + 1 \in 1 .. Len(recs) /\ rest \in Nat
       /\ todo[1].size <= rest => Walked(recs, n, j + 1, Tail(todo), rest - todo[1].size)
  BY <1>4, <1>5, <1>6, <1>7, <1>10, WalkNext
<1>12. todo[1] \in ElfNotes
  BY <1>4, <1>11, ElementOfSeq
<1>13. todo[1].size <= rest
  BY <1>6, <1>7, <1>11, <1>12
<1>14. Walked(recs, n, j + 1, todo', rest')
  BY <1>1, <1>11, <1>13
<1> QED
  BY <1>12, <1>14 DEF recs, n

(* Which boot loader was found stays known after the class is determined.  *)
LEMMA LoaderKept ==
    ASSUME MemInv, ConvertStep, cpc \notin {"startup", "class"}
    PROVE  /\ info'.has_elf_boot = info.has_elf_boot /\ info'.param = info.param
           /\ info'.has_multiboot = info.has_multiboot /\ boot' = boot /\ image' = image
<1>0. InfoOk
  BY DEF MemInv
<1>1. CASE WalkLinuxBios \/ LinuxBiosEnd \/ NoFirmware \/ convert_uniform_boot \/ UniformEnd \/ convert_elf_boot
           \/ ElfNote \/ ElfEnd \/ UnknownBootloader \/ hardware_setup
  <2>1. info' = info /\ boot' = boot /\ image' = image
    BY <1>1 DEF WalkLinuxBios, LinuxBiosEnd, NoFirmware, convert_uniform_boot, UniformEnd, convert_elf_boot,
                ElfNote, ElfEnd, UnknownBootloader, hardware_setup
  <2> QED
    BY <2>1
<1>2. CASE query_firmware_class
  <2>1. boot' = boot /\ image' = image
        /\ \E a, b, c : info' = [info EXCEPT !.has_linuxbios = a, !.lb_table = b, !.has_pcbios = c]
    BY <1>2 DEF query_firmware_class
  <2> QED
    BY <1>0, <2>1 DEF InfoOk, NoInfo
<1>3. CASE LinuxBiosRecord \/ query_pcbios_values \/ convert_multiboot \/ UniformRecord
  <2>1. boot' = boot /\ image' = image
        /\ (info' = info \/ \E a : info' = [info EXCEPT !.need_mem_sizes = a])
    BY <1>3 DEF LinuxBiosRecord, query_pcbios_values, convert_multiboot, UniformRecord
  <2> QED
    BY <1>0, <2>1 DEF InfoOk, NoInfo
<1>4. ~Initialize /\ ~query_bootloader_param_class
  BY DEF Initialize, query_bootloader_param_class
<1> QED
  BY <1>1, <1>2, <1>3, <1>4 DEF ConvertStep

(* How the converter goes on.                                              *)
LEMMA WhereNext ==
    ASSUME ConvertStep
    PROVE  \/ cpc = "startup" /\ cpc' = "class" /\ Initialize
           \/ cpc = "class" /\ cpc' = "firmware" /\ query_bootloader_param_class
           \/ cpc \in {"firmware", "values", "linuxbios"} /\ cpc' \in {"values", "linuxbios", "bootloader", "hung"}
           \/ cpc = "bootloader" /\ cpc' = "elf" /\ convert_elf_boot
           \/ cpc = "bootloader" /\ cpc' = "uniform" /\ convert_uniform_boot
           \/ cpc = "bootloader" /\ cpc' \in {"hardware", "hung"}
           \/ cpc = "uniform" /\ cpc' \in {"uniform", "hardware", "hung"}
           \/ cpc = "elf" /\ cpc' = "elf" /\ ElfNote
           \/ cpc = "elf" /\ cpc' = "hardware"
           \/ cpc = "hardware" /\ cpc' = "linux"
<1>1. Initialize => cpc = "startup" /\ cpc' = "class"
  BY DEF Initialize
<1>2. query_bootloader_param_class => cpc = "class" /\ cpc' = "firmware"
  BY DEF query_bootloader_param_class
<1>3. query_firmware_class \/ WalkLinuxBios \/ LinuxBiosRecord \/ LinuxBiosEnd \/ query_pcbios_values \/ NoFirmware
      => cpc \in {"firmware", "values", "linuxbios"} /\ cpc' \in {"values", "linuxbios", "bootloader", "hung"}
  BY DEF query_firmware_class, WalkLinuxBios, LinuxBiosRecord, LinuxBiosEnd, query_pcbios_values, NoFirmware
<1>4. convert_multiboot \/ UnknownBootloader => cpc = "bootloader" /\ cpc' \in {"hardware", "hung"}
  BY DEF convert_multiboot, UnknownBootloader
<1>5. convert_uniform_boot => cpc = "bootloader" /\ cpc' = "uniform"
  BY DEF convert_uniform_boot
<1>6. UniformRecord \/ UniformEnd => cpc = "uniform" /\ cpc' \in {"uniform", "hardware", "hung"}
  BY DEF UniformRecord, UniformEnd
<1>7. convert_elf_boot => cpc = "bootloader" /\ cpc' = "elf"
  BY DEF convert_elf_boot
<1>8. (ElfNote => cpc = "elf" /\ cpc' = "elf") /\ (ElfEnd => cpc = "elf" /\ cpc' = "hardware")
  BY DEF ElfNote, ElfEnd
<1>9. hardware_setup => cpc = "hardware" /\ cpc' = "linux"
  BY DEF hardware_setup
<1> QED
  BY <1>1, <1>2, <1>3, <1>4, <1>5, <1>6, <1>7, <1>8, <1>9 DEF ConvertStep

(* A step of the converter keeps to the notes.                             *)
LEMMA StepNotes ==
    ASSUME MemInv, NotesInv, ConvertStep
    PROVE  NotesInv'
<1>1. CASE cpc = "startup"
  BY <1>1, WhereNext DEF NotesInv
<1>2. CASE cpc = "class"
  <2> DEFINE uniform == boot.type = "uniform" /\ compute_checksum(boot.data.header) = 0
             elf == boot.type # "multiboot" /\ ~uniform /\ ElfHeader # Null /\ ElfGood(ElfHeader)
  <2>1. query_bootloader_param_class /\ cpc' = "firmware"
    BY <1>2, WhereNext
  <2>2. boot' = boot
        /\ info' = [info EXCEPT !.has_multiboot = (boot.type = "multiboot"),
                                !.has_uniform_boot = uniform, !.has_elf_boot = elf,
                                !.param = IF elf THEN ElfHeader ELSE @]
    BY <2>1 DEF query_bootloader_param_class
  <2>3. elf => ElfHeader # Null
    OBVIOUS
  <2> HIDE DEF uniform, elf
  <2>4. InfoOk
    BY DEF MemInv
  <2>5. info'.has_elf_boot = elf /\ info'.param = IF elf THEN ElfHeader ELSE info.param
    BY <2>2, <2>4 DEF InfoOk, NoInfo
  <2>6. ElfHeader # Null => ElfHeader \in Headers(boot)
    BY DEF ElfHeader, Headers
  <2> QED
    BY <2>1, <2>2, <2>3, <2>5, <2>6 DEF NotesInv, Headers
<1>3. CASE cpc \notin {"startup", "class"}
  <2>1. info'.has_elf_boot = info.has_elf_boot /\ info'.param = info.param /\ boot' = boot
    BY <1>3, LoaderKept
  <2>2. Headers(boot)' = Headers(boot)
    BY <2>1 DEF Headers
  <2>3. cpc' \in {"firmware", "values", "linuxbios", "bootloader", "elf"} /\ info'.has_elf_boot =>
           info'.param \in Headers(boot)'
    <3>1. cpc' \in {"firmware", "values", "linuxbios", "bootloader", "elf"} =>
             cpc \in {"firmware", "values", "linuxbios", "bootloader", "elf"}
      BY <1>3, WhereNext
    <3> QED
      BY <2>1, <2>2, <3>1 DEF NotesInv
  <2>4. ASSUME cpc' = "elf"
        PROVE  \E j : Walked(info'.param.notes, info'.param.b_size, j, todo', rest')
    <3>1. (cpc = "elf" /\ ElfNote) \/ (cpc = "bootloader" /\ convert_elf_boot)
      BY <1>3, <2>4, WhereNext
    <3>2. CASE cpc = "elf" /\ ElfNote
      BY <2>1, <3>2, ElfNoteIs
    <3>3. CASE cpc = "bootloader" /\ convert_elf_boot
      <4> DEFINE recs == info.param.notes
                 n == info.param.b_size
      <4>1. info.has_elf_boot /\ todo' = recs /\ rest' = n
        BY <3>3 DEF convert_elf_boot
      <4>2. boot \in Boots /\ info.param \in Headers(boot)
        BY <3>3, <4>1 DEF MemInv, NotesInv
      <4>3. recs \in Seq(ElfNotes) /\ n \in Nat
        BY <4>2, NotesWalkable
      <4>4. \A r \in ElfNotes : r.size \in Nat
        BY DEF ElfNotes
      <4> HIDE DEF recs, n
      <4>5. Walked(recs, n, 0, recs, n)
        BY <4>3, <4>4, WalkStart
      <4> QED
        BY <2>1, <4>1, <4>5 DEF recs, n
    <3> QED
      BY <3>1, <3>2, <3>3
  <2> QED
    BY <2>3, <2>4 DEF NotesInv
<1> QED
  BY <1>1, <1>2, <1>3

-----------------------------------------------------------------------------
(* The page begins with the image's line until a boot loader is asked, and *)
(* with that line and what follows it from then on.                        *)
LineInv ==
    /\ NotesInv
    /\ cpc \in {"class", "firmware", "values", "linuxbios", "bootloader"} =>
          rm.overrun = FALSE /\ rm.cmdline = ImageLine(image)
    /\ cpc \in {"uniform", "elf"} => LineGood(rm, image)
    /\ cpc \in {"hardware", "linux"} => (LineFits => LineGood(rm, image))

(* A page with the same line is as good.                                   *)
LEMMA SameLine ==
    ASSUME NEW p, NEW q, NEW im, KeepsPage(p, q), LineGood(p, im)
    PROVE  LineGood(q, im)
BY Zenon DEF KeepsPage, LineGood

(* The line of a multiboot loader comes behind the image's, if it fits.    *)
LEMMA StepMultibootLine ==
    ASSUME MemInv, LineInv, MultibootLine, LineFits
    PROVE  LineGood(rm', image)
<1> DEFINE arg == boot.data.command_line
           k == strnlen(image.cmdline, CommandLine)
<1>1. cpc = "bootloader" /\ info.has_multiboot /\ "cmdline" \in boot.data.flags
  BY DEF MultibootLine, convert_multiboot
<1>2. boot \in Boots /\ LoaderFlags /\ rm.overrun = FALSE /\ rm.cmdline = ImageLine(image)
  BY <1>1 DEF MemInv, LineInv
<1>3. arg \in Seq(Bytes)
  BY <1>1, <1>2, BootTypes DEF LoaderFlags
<1>4. PICK p : PageOk(p) /\ KeepsPage(rm, p) /\ KeepsPage(append_command_line(p, arg, -1), rm')
  BY DEF MultibootLine
<1>5. p.overrun = FALSE /\ p.cmdline = ImageLine(image)
  BY <1>2, <1>4 DEF KeepsPage
<1>6. LineGood(p, image) /\ strnlen(p.cmdline, CommandLine) = LineLength(image)
  BY <1>5, FreshLine
<1> DEFINE l == LineLength(image)
           w == Appended(arg, -1)
<1>7. l \in Nat /\ l <= k /\ k \in 0 .. CommandLine /\ PageRoom \in Nat /\ CommandLine \in Nat
  BY Limits, LineLengthIs, StrnlenIs
<1>8. k + Len(arg) + 2 <= PageRoom /\ Len(arg) \in Nat
  BY <1>1, <1>3, LenProperties DEF LineFits
<1>9. Len(w) \in Nat /\ Len(w) <= Len(arg) + 2
  <2>1. -1 \in Int /\ -1 < 0
    OBVIOUS
  <2> QED
    BY <1>3, <2>1, AppendedIs
<1>10. strnlen(p.cmdline, CommandLine) + Len(w) <= PageRoom
  <2>1. l + Len(w) <= PageRoom
    <3> HIDE DEF l, w, k, arg
    <3> QED
      BY <1>7, <1>8, <1>9
  <2> QED
    BY <1>6, <2>1
<1>11. LineGood(append_command_line(p, arg, -1), image)
  <2>1. -1 \in Int
    OBVIOUS
  <2> QED
    BY <1>3, <1>4, <1>6, <1>10, <2>1, AppendKeepsLine
<1> QED
  BY <1>4, <1>11, SameLine

(* A step of the converter keeps the line.                                 *)
LEMMA StepLine ==
    ASSUME MemInv, LineInv, ConvertStep
    PROVE  LineInv'
<1>0. NotesInv'
  BY StepNotes DEF LineInv
<1>1. CASE cpc = "startup"
  <2>1. cpc' = "class" /\ Initialize
    BY <1>1, WhereNext
  <2>2. rm' = initialize_linux_params(image) /\ image' = image
    BY <2>1 DEF Initialize
  <2>3. rm'.overrun = FALSE /\ rm'.cmdline = ImageLine(image)
    BY <2>2 DEF initialize_linux_params, ImageLine, LineLength
  <2>4. rm'.overrun = FALSE /\ rm'.cmdline = ImageLine(image')
    BY <2>2, <2>3
  <2> QED
    BY <1>0, <2>1, <2>4 DEF LineInv
<1>2. CASE cpc # "startup"
  <2>1. /\ PageOk(rm) /\ image' = image /\ boot' = boot
        /\ \/ KeepsPage(rm, rm')
           \/ MultibootLine
           \/ convert_uniform_boot /\ rm' = append_command_line(rm, boot.data.arg, boot.data.arg_bytes)
           \/ ElfNote /\ rm' = append_command_line(rm, todo[1].desc, todo[1].descsz)
    BY <1>2, PageMoves
  <2>2. \/ cpc \in {"class", "firmware", "values", "linuxbios"}
           /\ cpc' \in {"firmware", "values", "linuxbios", "bootloader", "hung"}
        \/ cpc = "bootloader" /\ cpc' \in {"uniform", "elf", "hardware", "hung"}
        \/ cpc \in {"uniform", "elf"} /\ cpc' \in {"uniform", "elf", "hardware", "hung"}
        \/ cpc = "hardware" /\ cpc' = "linux"
    BY <1>2, WhereNext
  <2>3. cpc # "class" => (LineFits' <=> LineFits)
    <3>1. cpc # "class" => info'.has_multiboot = info.has_multiboot /\ boot' = boot /\ image' = image
      BY <1>2, LoaderKept
    <3> QED
      BY <3>1 DEF LineFits
  <2>4. cpc = "bootloader" => LineGood(rm, image)
    BY FreshLine DEF LineInv
  <2>5. CASE KeepsPage(rm, rm')
    <3>1. LineGood(rm, image) => LineGood(rm', image)
      BY <2>5, SameLine
    <3>2. rm'.overrun = rm.overrun /\ rm'.cmdline = rm.cmdline
      BY <2>5 DEF KeepsPage
    <3>3. CASE cpc \in {"class", "firmware", "values", "linuxbios"}
      <4>1. cpc' \in {"firmware", "values", "linuxbios", "bootloader", "hung"}
        BY <2>2, <3>3
      <4>2. rm.overrun = FALSE /\ rm.cmdline = ImageLine(image)
        BY <3>3 DEF LineInv
      <4>3. rm'.overrun = FALSE /\ rm'.cmdline = ImageLine(image')
        BY <2>1, <3>2, <4>2
      <4> QED
        BY <1>0, <4>1, <4>3 DEF LineInv
    <3>4. CASE cpc \in {"bootloader", "uniform", "elf"}
      <4>1. cpc' \in {"uniform", "elf", "hardware", "hung"} /\ LineGood(rm', image')
        BY <2>1, <2>2, <2>4, <3>1, <3>4 DEF LineInv
      <4> QED
        BY <1>0, <4>1 DEF LineInv
    <3>5. CASE cpc = "hardware"
      <4>1. cpc' = "linux" /\ (LineFits' => LineGood(rm', image'))
        BY <2>1, <2>2, <2>3, <3>1, <3>5 DEF LineInv
      <4> QED
        BY <1>0, <4>1 DEF LineInv
    <3> QED
      BY <2>2, <3>3, <3>4, <3>5
  <2>6. CASE MultibootLine
    <3>1. convert_multiboot /\ cpc = "bootloader"
      BY <2>6 DEF MultibootLine, convert_multiboot
    <3>2. cpc' \in {"hardware", "hung"}
      BY <3>1 DEF convert_multiboot
    <3>3. LineFits' => LineGood(rm', image')
      BY <2>1, <2>3, <2>6, <3>1, StepMultibootLine
    <3> QED
      BY <1>0, <3>2, <3>3 DEF LineInv
  <2>7. CASE convert_uniform_boot /\ rm' = append_command_line(rm, boot.data.arg, boot.data.arg_bytes)
    <3>1. cpc = "bootloader" /\ cpc' = "uniform" /\ info.has_uniform_boot
      BY <2>7 DEF convert_uniform_boot
    <3>2. boot \in Boots /\ boot.type = "uniform"
      BY <3>1 DEF MemInv, LoaderFlags
    <3>3. boot.data.arg \in Seq(Bytes) /\ boot.data.arg_bytes \in Nat
      BY <3>2, BootTypes
    <3>4. LineGood(rm', image)
      BY <2>1, <2>4, <2>7, <3>1, <3>3, BoundedLine
    <3>5. LineGood(rm', image')
      BY <2>1, <3>4
    <3> QED
      BY <1>0, <3>1, <3>5 DEF LineInv
  <2>8. CASE ElfNote /\ rm' = append_command_line(rm, todo[1].desc, todo[1].descsz)
    <3>1. cpc = "elf" /\ cpc' = "elf"
      BY <2>8 DEF ElfNote
    <3>2. todo[1].desc \in Seq(Bytes) /\ todo[1].descsz \in Nat
      <4>1. todo[1] \in ElfNotes
        BY <2>8, ElfNoteIs DEF LineInv
      <4> QED
        BY <4>1 DEF ElfNotes
    <3>3. LineGood(rm, image)
      BY <3>1 DEF LineInv
    <3>4. LineGood(rm', image)
      BY <2>1, <2>8, <3>2, <3>3, BoundedLine
    <3>5. LineGood(rm', image')
      BY <2>1, <3>4
    <3> QED
      BY <1>0, <3>1, <3>5 DEF LineInv
  <2> QED
    BY <2>1, <2>5, <2>6, <2>7, <2>8
<1> QED
  BY <1>1, <1>2

(* The image's line stays at the beginning of the page's, whatever a boot  *)
(* loader appends, and the page's line ends inside the page.               *)
THEOREM LineInvHolds == Spec => []LineInv
<1>1. Init => LineInv
  BY DEF Init, LineInv, NotesInv
<1>2. MemInv /\ LineInv /\ [Next]_vars => LineInv'
  <2> SUFFICES ASSUME MemInv, LineInv, [Next]_vars PROVE LineInv'
    OBVIOUS
  <2>1. CASE UNCHANGED cvars
    <3>1. cpc' = cpc /\ boot' = boot /\ image' = image /\ rm' = rm /\ info' = info /\ todo' = todo /\ rest' = rest
      BY <2>1 DEF cvars
    <3>2. NotesInv' = NotesInv /\ LineFits' = LineFits
      BY <3>1, Zenon DEF NotesInv, LineFits, Headers
    <3> QED
      BY <3>1, <3>2, Zenon DEF LineInv
  <2>2. CASE Load
    <3>1. cpc' = "loaded"
      BY <2>2 DEF Load
    <3> QED
      BY <3>1 DEF LineInv, NotesInv
  <2>3. CASE Enter
    <3>1. cpc' = "startup"
      BY <2>3 DEF Enter
    <3> QED
      BY <3>1 DEF LineInv, NotesInv
  <2>4. CASE Convert
    BY <2>4, StepLine DEF Convert
  <2>5. Build \/ UNCHANGED vars => UNCHANGED cvars
    BY DEF Build, vars
  <2> QED
    BY <2>1, <2>2, <2>3, <2>4, <2>5 DEF Next
<1> QED
  BY <1>1, <1>2, MemInvHolds, PTL DEF Spec

(* The length of the line that mkelfImage keeps of the one it was given.   *)
LEMMA KeptLine ==
    ASSUME Wanted, NEW im, im.cmdline = ParamCmdline
    PROVE  LET kept == Prefix(want.cmdline, Smaller(CMDLINE_MAX, CommandLine) - 1)
           IN /\ Len(kept) = LineLength(im) /\ kept \in Seq(Bytes \ {0})
              /\ \A i \in 1 .. Len(kept) : kept[i] = im.cmdline[i]
<1> DEFINE c == want.cmdline
           n == Smaller(CMDLINE_MAX, CommandLine) - 1
           kept == Prefix(c, n)
           l == LineLength(im)
           M == CMDLINE_MAX
           S == Bytes \ {0}
<1>1. c \in Seq(S) /\ Len(c) \in Nat /\ \A i \in 1 .. Len(c) : c[i] # 0
  BY LenProperties, ElementOfSeq DEF Wanted
<1>2. M \in Nat \ {0} /\ CommandLine \in Nat \ {0}
  BY Sizes, Limits
<1>3. n \in Nat /\ n = (IF M <= CommandLine THEN M ELSE CommandLine) - 1
  BY <1>2 DEF Smaller
<1> HIDE DEF S
<1>4. kept \in Seq(S) /\ Len(kept) = (IF Len(c) < n THEN Len(c) ELSE n)
      /\ \A i \in 1 .. Len(kept) : kept[i] = c[i]
  <2> HIDE DEF c, n
  <2> QED
    BY <1>1, <1>3, PrefixFacts
<1>5. /\ l \in Nat /\ l <= CommandLine - 1
      /\ \A i \in 1 .. l : i \in DOMAIN im.cmdline /\ im.cmdline[i] # 0
      /\ l < CommandLine - 1 => l + 1 \notin DOMAIN im.cmdline \/ im.cmdline[l + 1] = 0
  BY LineLengthIs
<1>6. DOMAIN im.cmdline = 1 .. M
      /\ \A i \in 1 .. M : im.cmdline[i] = IF i < M /\ i <= Len(c) THEN c[i] ELSE 0
  BY DEF ParamCmdline
<1> DEFINE L == Len(c)
<1> HIDE DEF c, n, kept, l, M, L
<1>7. l < M /\ l <= L
  <2>1. CASE l = 0
    BY <1>1, <1>2, <2>1 DEF L
  <2>2. CASE l # 0
    <3>1. l \in 1 .. l
      BY <1>5, <2>2
    <3>2. l \in 1 .. M /\ im.cmdline[l] # 0
      BY <1>5, <1>6, <3>1
    <3> QED
      BY <1>6, <3>2 DEF L
  <2> QED
    BY <2>1, <2>2
<1>8. l < CommandLine - 1 => ~(l + 1 < M /\ l + 1 <= L)
  <2> SUFFICES ASSUME l < CommandLine - 1, l + 1 < M, l + 1 <= L PROVE FALSE
    OBVIOUS
  <2>1. l + 1 \in 1 .. M /\ l + 1 \in 1 .. Len(c)
    BY <1>1, <1>2, <1>5 DEF L
  <2>2. im.cmdline[l + 1] = c[l + 1]
    BY <1>6, <2>1 DEF L
  <2> QED
    BY <1>1, <1>5, <1>6, <2>1, <2>2
<1>9. Len(kept) = l
  <2>1. L \in Nat /\ Len(kept) = IF L < n THEN L ELSE n
    BY <1>1, <1>4 DEF L
  <2> QED
    BY <1>2, <1>3, <1>5, <1>7, <1>8, <2>1
<1>10. \A i \in 1 .. Len(kept) : kept[i] = im.cmdline[i]
  <2> SUFFICES ASSUME NEW i \in 1 .. l PROVE kept[i] = im.cmdline[i]
    BY <1>9
  <2>1. i \in 1 .. M /\ i < M /\ i <= L
    BY <1>1, <1>2, <1>5, <1>7 DEF L
  <2> QED
    BY <1>4, <1>6, <1>9, <2>1 DEF L
<1> QED
  BY <1>4, <1>9, <1>10, Zenon DEF kept, c, n, l, S, M

(* The command line given to mkelfImage reaches Linux, for every image and *)
(* every boot loader whose line fits.                                      *)
THEOREM LineKept == Spec => []CommandLineKept
<1>1. BuildInv /\ LoadInv /\ LineInv => CommandLineKept
  <2> DEFINE kept == Prefix(want.cmdline, Smaller(CMDLINE_MAX, CommandLine) - 1)
             l == LineLength(image)
             c == rm.cmdline
             S == {c[i] : i \in 1 .. PageRoom}
  <2> SUFFICES ASSUME BuildInv, LoadInv, LineInv, cpc = "linux", Expressible, Disjoint(FilePhdrs), LineFits
               PROVE  /\ ~rm.overrun /\ Prefix(c, Len(kept)) = kept
                      /\ \E i \in Len(kept) + 1 .. PageRoom : c[i] = 0
    BY Zenon DEF CommandLineKept
  <2>1. pc = "built" /\ Placed(FilePhdrs) /\ image = image_params(LoadedMemory(FilePhdrs))
    BY DEF LoadInv
  <2>2. Wanted
    <3>1. pc \in AtHeaders
      BY <2>1 DEF AtHeaders
    <3> QED
      BY <3>1, HeadersKnown
  <2>3. image.cmdline = ParamCmdline
    BY <2>1, ImageIs
  <2>4. Len(kept) = l /\ kept \in Seq(Bytes \ {0}) /\ \A i \in 1 .. Len(kept) : kept[i] = image.cmdline[i]
    BY <2>2, <2>3, KeptLine
  <2>5. LineGood(rm, image)
    BY DEF LineInv
  <2>6. /\ rm.overrun = FALSE /\ c = [i \in 1 .. PageRoom |-> c[i]]
        /\ \A i \in 1 .. l : c[i] = image.cmdline[i]
        /\ \E i \in l + 1 .. PageRoom : c[i] = 0
    BY <2>5, Zenon DEF LineGood
  <2>7. l \in Nat /\ l < PageRoom /\ PageRoom \in Nat
    BY LineLengthIs, Limits
  <2> HIDE DEF kept, l, c
  <2>8. Prefix(c, l) = kept
    <3>1. c \in [1 .. PageRoom -> S]
      BY <2>6
    <3> HIDE DEF S
    <3>2. c \in Seq(S) /\ Len(c) = PageRoom
      BY <2>7, <3>1, FunctionIsSeq
    <3> DEFINE q == Prefix(c, l)
    <3>3. q \in Seq(S) /\ Len(q) = (IF Len(c) < l THEN Len(c) ELSE l) /\ \A i \in 1 .. Len(q) : q[i] = c[i]
      BY <2>7, <3>2, PrefixFacts
    <3> HIDE DEF q
    <3>4. Len(q) = l
      BY <2>7, <3>2, <3>3
    <3>5. Len(q) = Len(kept) /\ \A i \in 1 .. Len(q) : q[i] = kept[i]
      BY <2>4, <2>6, <3>3, <3>4
    <3>6. q = kept
      BY <2>4, <3>3, <3>5, SeqEqual
    <3> QED
      BY <3>6 DEF q
  <2> QED
    BY <2>4, <2>6, <2>8
<1> QED
  BY <1>1, BuildInvHolds, LoadInvHolds, LineInvHolds, PTL
=============================================================================
