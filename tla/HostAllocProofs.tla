-------------------------- MODULE HostAllocProofs --------------------------
(***************************************************************************)
(* The page allocator for every memory map, every size of page and word,   *)
(* and any number of requests.                                             *)
(*                                                                         *)
(* What is handed out is right because the bitmap is: a clear bit stands   *)
(* for a page that init_host_alloc_bitmap has freed and alloc_pages has    *)
(* not taken.  So the inductive invariant says what every bit of the       *)
(* bitmap means, in the middle of the loop too, the bits after max_page    *)
(* included; that every page of the machine has a bit rests on max_page    *)
(* being the highest end of a RAM region.                                  *)
(***************************************************************************)
EXTENDS HostAllocRefinement, NatLemmas

(* A page that lies in entry j of the map, which is RAM.                   *)
InEntry(j, p) ==
    /\ e820[j].ram /\ e820[j].addr <= p * PageSize
    /\ (p + 1) * PageSize <= e820[j].addr + e820[j].size

(* A page that the loop of init_host_alloc_bitmap has freed so far.        *)
Freed(p) ==
    /\ heap_start <= p * PageSize /\ (p + 1) * PageSize <= pmem_end
    /\ \E j \in DOMAIN e820 : j < idx /\ InEntry(j, p)

(* What every bit of the bitmap means.                                     *)
BitsMeaning ==
    \A p \in Nat : Idx(p) \in DOMAIN tbl =>
       (~allocated_in_map(tbl, p) <=> Freed(p) /\ \A g \in granted : p \notin Pages(g))

IndInv ==
    /\ TypeOK
    /\ phase \in {"start", "mapped", "freeing"} => granted = {}
    /\ phase \in {"start", "mapped"} => idx = 1
    /\ phase \in {"mapped", "freeing", "ready"} => \A n \in RamEnds(e820) : n <= max_page
    /\ phase \in {"freeing", "ready"} =>
          /\ heap_start < pmem_end
          /\ BitsMeaning
          /\ \A g \in granted : g[1] + g[2] < max_page
    /\ phase = "ready" => idx > Len(e820)
    /\ GrantsDisjoint
    /\ GrantsInHeap

-----------------------------------------------------------------------------
(* The constants of the machine and what is derived from them.             *)
LEMMA Sizes ==
    /\ PageSize \in Nat \ {0} /\ ByteBits \in Nat \ {0} /\ WordBytes \in Nat \ {0}
    /\ Word \in Nat \ {0}
    /\ pmem_end \in Int
<1>1. \A a, b \in Nat \ {0} : a * b \in Nat \ {0}
  OBVIOUS
<1> QED
  BY <1>1, SizesAssumption, LayoutAssumption DEF Word, pmem_end

(* PFN_UP is the first page that starts at x or after, PFN_DOWN the last   *)
(* but one that ends at x or before: rounding never takes a partial page.  *)
LEMMA Rounding ==
    ASSUME NEW x \in Nat, NEW p \in Nat
    PROVE  /\ PFN_UP(x) \in Nat /\ PFN_DOWN(x) \in Nat
           /\ PFN_UP(x) <= p <=> x <= p * PageSize
           /\ p < PFN_DOWN(x) <=> (p + 1) * PageSize <= x
<1>1. PageSize \in Nat \ {0}
  BY Sizes
<1>2. x + PageSize - 1 \in Nat
  BY <1>1
<1>3. PFN_UP(x) \in Nat /\ PFN_DOWN(x) \in Nat
  BY <1>1, <1>2, DivMod DEF PFN_UP, PFN_DOWN
<1>4. p + 1 <= PFN_UP(x) <=> PageSize * (p + 1) <= x + PageSize - 1
  BY <1>1, <1>2, DivAtLeast DEF PFN_UP
<1>5. p + 1 <= PFN_DOWN(x) <=> PageSize * (p + 1) <= x
  BY <1>1, DivAtLeast DEF PFN_DOWN
<1>6. PageSize * (p + 1) = p * PageSize + PageSize /\ (p + 1) * PageSize = p * PageSize + PageSize
  BY <1>1
<1>7. p * PageSize \in Nat
  BY <1>1, MultType
<1> QED
  BY <1>1, <1>3, <1>4, <1>5, <1>6, <1>7

(* A page has its own bit: word and offset determine it, and a mask holds  *)
(* the bit of a page exactly if the page is in the run, whether the run    *)
(* lies in one word, ends at a word boundary or covers whole words.        *)
LEMMA MaskExact ==
    ASSUME NEW first \in Nat, NEW last \in Nat, NEW p \in Nat
    PROVE  Off(p) \in Mask(first, last, Idx(p)) <=> first <= p /\ p < last
<1>1. Word \in Nat \ {0}
  BY Sizes
<1>2. /\ Idx(p) \in Nat /\ Idx(first) \in Nat /\ Idx(last) \in Nat
      /\ Off(p) \in 0 .. Word - 1 /\ Off(first) \in 0 .. Word - 1 /\ Off(last) \in 0 .. Word - 1
  BY <1>1, DivMod DEF Idx, Off
<1>3. first <= p <=> Idx(first) <= Idx(p) /\ (Idx(first) = Idx(p) => Off(first) <= Off(p))
  BY <1>1, LexOrder DEF Idx, Off
<1>4. last <= p <=> Idx(last) <= Idx(p) /\ (Idx(last) = Idx(p) => Off(last) <= Off(p))
  BY <1>1, LexOrder DEF Idx, Off
<1>5. Off(p) \in Mask(first, last, Idx(p)) <=>
        /\ Idx(first) <= Idx(p) /\ Idx(p) <= Idx(last)
        /\ Idx(p) = Idx(first) => Off(p) >= Off(first)
        /\ Idx(p) = Idx(last) => Off(p) < Off(last)
  BY <1>1, <1>2 DEF Mask
<1> QED
  BY <1>2, <1>3, <1>4, <1>5

(* The longword of padding: every page up to and including max_page has    *)
(* its bit in the bitmap.                                                  *)
LEMMA MapRoom ==
    ASSUME NEW n \in Nat, NEW q \in Nat, q <= n
    PROVE  /\ MapBytes(n) \in Nat /\ MapWords(n) \in Nat
           /\ Idx(q) \in 0 .. MapWords(n) - 1
<1>1. /\ PageSize \in Nat \ {0} /\ ByteBits \in Nat \ {0} /\ WordBytes \in Nat \ {0}
      /\ Word \in Nat \ {0}
  BY Sizes
<1> DEFINE b == n \div ByteBits
           x == b + WordBytes
           k == q \div Word
<1>2. b \in Nat /\ k \in Nat
  BY <1>1, DivMod
<1>3. PFN_UP(x) \in Nat /\ x <= PFN_UP(x) * PageSize
  <2>1. x \in Nat
    BY <1>1, <1>2
  <2>2. PFN_UP(x) \in Nat
    BY <2>1, Rounding
  <2> QED
    BY <2>1, <2>2, Rounding
<1>4. MapBytes(n) \in Nat /\ x <= MapBytes(n)
  BY <1>1, <1>3, MultType DEF MapBytes, PAGE_UP
<1>5. MapWords(n) \in Nat
  BY <1>1, <1>4, DivMod DEF MapWords
<1>6. WordBytes * k <= b
  <2>1. Word * k <= q
    BY <1>1, DivMod
  <2>2. Word * k = ByteBits * (WordBytes * k)
    BY <1>1, <1>2 DEF Word
  <2>3. WordBytes * k \in Nat
    BY <1>1, <1>2, MultType
  <2>4. ByteBits * (WordBytes * k) <= n
    <3>1. Word * k \in Nat
      BY <1>1, <1>2, MultType
    <3> QED
      BY <2>1, <2>2, <3>1
  <2> QED
    BY <1>1, <2>3, <2>4, DivAtLeast
<1>7. WordBytes * (k + 1) <= MapBytes(n)
  <2>1. WordBytes * (k + 1) = WordBytes * k + WordBytes
    BY <1>1, <1>2
  <2>2. WordBytes * k \in Nat
    BY <1>1, <1>2, MultType
  <2> QED
    BY <1>1, <1>2, <1>4, <1>6, <2>1, <2>2
<1>8. k + 1 <= MapWords(n)
  BY <1>1, <1>2, <1>4, <1>7, DivAtLeast DEF MapWords
<1> QED
  BY <1>2, <1>4, <1>5, <1>8 DEF Idx

-----------------------------------------------------------------------------
(* map_alloc and map_free keep the shape of the bitmap.                    *)
LEMMA MapTyped ==
    ASSUME NEW D, NEW t \in [D -> SUBSET (0 .. Word - 1)], NEW first, NEW nr
    PROVE  /\ map_alloc(t, first, nr) \in [D -> SUBSET (0 .. Word - 1)]
           /\ map_free(t, first, nr) \in [D -> SUBSET (0 .. Word - 1)]
BY DEF map_alloc, map_free, Mask

(* map_alloc sets the bits of the run and no other bit.                    *)
LEMMA MapAllocExact ==
    ASSUME NEW t, NEW first \in Nat, NEW nr \in Nat, NEW p \in Nat, Idx(p) \in DOMAIN t
    PROVE  allocated_in_map(map_alloc(t, first, nr), p)
              <=> allocated_in_map(t, p) \/ p \in first .. first + nr - 1
<1>1. Off(p) \in Mask(first, first + nr, Idx(p)) <=> p \in first .. first + nr - 1
  BY MaskExact
<1>2. map_alloc(t, first, nr)[Idx(p)] = t[Idx(p)] \cup Mask(first, first + nr, Idx(p))
  BY DEF map_alloc
<1> QED
  BY <1>1, <1>2 DEF allocated_in_map

(* map_free clears the bits of the run and no other bit.                   *)
LEMMA MapFreeExact ==
    ASSUME NEW t, NEW first \in Nat, NEW nr \in Nat, NEW p \in Nat, Idx(p) \in DOMAIN t
    PROVE  ~allocated_in_map(map_free(t, first, nr), p)
              <=> ~allocated_in_map(t, p) \/ p \in first .. first + nr - 1
<1>1. Off(p) \in Mask(first, first + nr, Idx(p)) <=> p \in first .. first + nr - 1
  BY MaskExact
<1>2. map_free(t, first, nr)[Idx(p)] = t[Idx(p)] \ Mask(first, first + nr, Idx(p))
  BY DEF map_free
<1> QED
  BY <1>1, <1>2 DEF allocated_in_map

(* free_alloc_bitmap_region frees the pages that lie in the region whole.  *)
LEMMA RegionExact ==
    ASSUME NEW D, NEW t \in [D -> SUBSET (0 .. Word - 1)],
           NEW first \in Nat, NEW end \in Nat
    PROVE  /\ free_alloc_bitmap_region(t, first, end) \in [D -> SUBSET (0 .. Word - 1)]
           /\ \A p \in Nat : Idx(p) \in D =>
                (~allocated_in_map(free_alloc_bitmap_region(t, first, end), p)
                   <=> \/ ~allocated_in_map(t, p)
                       \/ first <= p * PageSize /\ (p + 1) * PageSize <= end)
<1> DEFINE lo == PFN_UP(first)
           hi == PFN_DOWN(end)
<1>1. /\ lo \in Nat /\ hi \in Nat
      /\ \A p \in Nat : first <= p * PageSize /\ (p + 1) * PageSize <= end <=> lo <= p /\ p < hi
  BY Rounding
<1>2. free_alloc_bitmap_region(t, first, end) = IF hi <= lo THEN t ELSE map_free(t, lo, hi - lo)
  BY DEF free_alloc_bitmap_region
<1> HIDE DEF lo, hi
<1>3. CASE hi <= lo
  <2>1. \A p \in Nat : ~(lo <= p /\ p < hi)
    BY <1>1, <1>3
  <2> QED
    BY <1>1, <1>2, <1>3, <2>1
<1>4. CASE ~(hi <= lo)
  <2>1. hi - lo \in Nat /\ lo + (hi - lo) - 1 = hi - 1
    BY <1>1, <1>4
  <2>2. free_alloc_bitmap_region(t, first, end) = map_free(t, lo, hi - lo)
    BY <1>2, <1>4
  <2>3. ASSUME NEW p \in Nat, Idx(p) \in D
        PROVE  ~allocated_in_map(map_free(t, lo, hi - lo), p)
                  <=> ~allocated_in_map(t, p) \/ (lo <= p /\ p < hi)
    <3>1. p \in lo .. lo + (hi - lo) - 1 <=> lo <= p /\ p < hi
      BY <1>1, <2>1
    <3>2. Idx(p) \in DOMAIN t
      BY <2>3
    <3> QED
      BY <1>1, <2>1, <3>1, <3>2, MapFreeExact
  <2> QED
    BY <1>1, <2>2, <2>3, MapTyped
<1> QED
  BY <1>3, <1>4

(* get_max_pfn is not below the end of any RAM region with a whole page:   *)
(* the map is finite, so the highest end exists.                           *)
LEMMA MaxPfn ==
    ASSUME NEW map \in Seq(Entries)
    PROVE  /\ get_max_pfn(map) \in Nat
           /\ \A n \in RamEnds(map) : n <= get_max_pfn(map)
<1> DEFINE end(j) == PFN_DOWN(map[j].addr + map[j].size)
<1>1. \A j \in DOMAIN map : map[j].addr + map[j].size \in Nat /\ end(j) \in Nat
  <2> SUFFICES ASSUME NEW j \in DOMAIN map
               PROVE  map[j].addr + map[j].size \in Nat /\ end(j) \in Nat
    OBVIOUS
  <2>1. map[j] \in Entries
    OBVIOUS
  <2>2. map[j].addr + map[j].size \in Nat
    BY <2>1 DEF Entries
  <2> QED
    BY <2>2, Rounding
<1>2. /\ RamEnds(map) \subseteq Nat
      /\ \A n \in RamEnds(map) : \E j \in DOMAIN map : n = end(j)
  BY <1>1 DEF RamEnds
<1> HIDE DEF end
<1> DEFINE T == {k \in Nat : \E b \in Nat : \A j \in DOMAIN map : j <= k => end(j) <= b}
<1>3. DOMAIN map = 1 .. Len(map) /\ Len(map) \in Nat
  OBVIOUS
<1>4. 0 \in T
  <2>1. \A j \in DOMAIN map : ~(j <= 0)
    BY <1>3
  <2> QED
    BY <2>1
<1>5. ASSUME NEW k \in Nat, k \in T PROVE k + 1 \in T
  <2>1. PICK b \in Nat : \A j \in DOMAIN map : j <= k => end(j) <= b
    BY <1>5
  <2> DEFINE c == IF k + 1 \in DOMAIN map /\ end(k + 1) > b THEN end(k + 1) ELSE b
  <2>2. c \in Nat
    BY <1>1
  <2>3. \A j \in DOMAIN map : j <= k + 1 => end(j) <= c
    <3> SUFFICES ASSUME NEW j \in DOMAIN map, j <= k + 1
                 PROVE  end(j) <= c
      OBVIOUS
    <3>1. j \in Nat /\ end(j) \in Nat
      BY <1>1, <1>3
    <3>2. CASE j = k + 1
      BY <3>1, <3>2
    <3>3. CASE j <= k
      BY <2>1, <3>1, <3>3, <1>1
    <3> QED
      BY <3>1, <3>2, <3>3
  <2> HIDE DEF c
  <2> QED
    BY <2>2, <2>3
<1>6. Len(map) \in T
  <2> HIDE DEF T
  <2> QED
    BY <1>3, <1>4, <1>5, SetInduction
<1>7. PICK b \in Nat : \A j \in DOMAIN map : j <= Len(map) => end(j) <= b
  BY <1>6
<1>8. \A n \in RamEnds(map) \cup {0} : n <= b
  BY <1>2, <1>3, <1>7
<1>9. \E n \in RamEnds(map) \cup {0} : \A m \in RamEnds(map) \cup {0} : m <= n
  <2> DEFINE S == RamEnds(map) \cup {0}
  <2>1. S \subseteq Nat /\ S # {} /\ \A m \in S : m <= b
    BY <1>2, <1>8
  <2> HIDE DEF S
  <2>2. \E n \in S : \A m \in S : m <= n
    BY <2>1, LargestNat
  <2> QED
    BY <2>2 DEF S
<1>10. /\ get_max_pfn(map) \in RamEnds(map) \cup {0}
       /\ \A m \in RamEnds(map) : m <= get_max_pfn(map)
  BY <1>9 DEF get_max_pfn
<1> QED
  BY <1>2, <1>10

-----------------------------------------------------------------------------
(* Before anything is set up.                                              *)
LEMMA InitInv == Init => IndInv
BY DEF Init, IndInv, TypeOK, GrantsDisjoint, GrantsInHeap

(* setup_memory_region leaves max_page at or above every end of RAM.       *)
LEMMA SetupInv == IndInv /\ setup_memory_region => IndInv'
<1> SUFFICES ASSUME IndInv, setup_memory_region PROVE IndInv'
  OBVIOUS
<1>1. phase = "start" /\ granted = {} /\ UNCHANGED <<heap_start, idx, tbl, granted>>
  BY DEF IndInv, setup_memory_region
<1>2. CASE phase' = "failed" /\ UNCHANGED <<e820, max_page>>
  BY <1>1, <1>2 DEF IndInv, TypeOK, GrantsDisjoint, GrantsInHeap
<1>3. ASSUME NEW map \in Maps, phase' = "mapped", e820' = map, max_page' = get_max_pfn(map)
      PROVE  IndInv'
  <2>1. map \in Seq(Entries)
    BY InputsAssumption
  <2>2. max_page' \in Nat /\ \A n \in RamEnds(e820)' : n <= max_page'
    BY <1>3, <2>1, MaxPfn DEF RamEnds
  <2>3. TypeOK'
    BY <1>1, <1>3, <2>1, <2>2 DEF IndInv, TypeOK
  <2> QED
    BY <1>1, <1>3, <2>2, <2>3 DEF IndInv, GrantsDisjoint, GrantsInHeap
<1> QED
  BY <1>2, <1>3 DEF setup_memory_region

(* naive_memmap_init sets every bit of the bitmap.                         *)
LEMMA MemmapInv == IndInv /\ naive_memmap_init => IndInv'
<1> SUFFICES ASSUME IndInv, naive_memmap_init PROVE IndInv'
  OBVIOUS
<1>1. /\ phase = "mapped" /\ granted = {} /\ idx = 1 /\ max_page \in Nat
      /\ UNCHANGED <<e820, max_page, idx, granted>>
      /\ heap_start' = PAGE_UP(AbStart) + MapBytes(max_page)
      /\ e820 \in Seq(Entries)
  BY DEF IndInv, TypeOK, naive_memmap_init
<1>2. heap_start' \in Nat
  <2>1. MapBytes(max_page) \in Nat
    BY <1>1, MapRoom
  <2>2. PFN_UP(AbStart) \in Nat /\ PageSize \in Nat
    BY Rounding, Sizes, LayoutAssumption
  <2>3. PAGE_UP(AbStart) \in Nat
    BY <2>2, MultType DEF PAGE_UP
  <2> QED
    BY <1>1, <2>1, <2>3
<1>3. CASE phase' = "failed" /\ UNCHANGED tbl
  BY <1>1, <1>2, <1>3 DEF IndInv, TypeOK, GrantsDisjoint, GrantsInHeap
<1>4. CASE /\ ~(heap_start' >= pmem_end) /\ phase' = "freeing"
           /\ tbl' = [k \in 0 .. MapWords(max_page) - 1 |-> 0 .. Word - 1]
  <2>1. TypeOK'
    BY <1>1, <1>2, <1>4 DEF IndInv, TypeOK
  <2>2. BitsMeaning'
    <3> SUFFICES ASSUME NEW p \in Nat, Idx(p) \in DOMAIN tbl'
                 PROVE  allocated_in_map(tbl', p) /\ ~Freed(p)'
      BY DEF BitsMeaning, allocated_in_map, Idx, Off
    <3>1. Off(p) \in 0 .. Word - 1
      BY Sizes, DivMod DEF Off
    <3>2. \A j \in DOMAIN e820 : ~(j < 1)
      BY <1>1
    <3> QED
      BY <1>1, <1>4, <3>1, <3>2 DEF allocated_in_map, Freed
  <2>3. (heap_start < pmem_end)'
    BY <1>2, <1>4, Sizes DEF pmem_end
  <2> QED
    BY <1>1, <1>4, <2>1, <2>2, <2>3 DEF IndInv, GrantsDisjoint, GrantsInHeap, RamEnds
<1> QED
  BY <1>3, <1>4 DEF naive_memmap_init

(* One round of the loop clears the bits of the pages of one entry that    *)
(* lie in the heap.                                                        *)
LEMMA FreeingInv == IndInv /\ init_host_alloc_bitmap => IndInv'
<1> SUFFICES ASSUME IndInv, init_host_alloc_bitmap PROVE IndInv'
  OBVIOUS
<1> DEFINE start == e820[idx].addr
           end == start + e820[idx].size
           D == 0 .. MapWords(max_page) - 1
           T == [D -> SUBSET (0 .. Word - 1)]
<1>1. /\ phase = "freeing" /\ granted = {} /\ idx \in DOMAIN e820 /\ idx \in Nat \ {0}
      /\ UNCHANGED <<phase, e820, max_page, heap_start, granted>> /\ idx' = idx + 1
      /\ heap_start \in Nat /\ max_page \in Nat /\ e820 \in Seq(Entries)
      /\ tbl \in T /\ heap_start < pmem_end
  BY DEF IndInv, TypeOK, init_host_alloc_bitmap
<1>2. pmem_end \in Nat
  BY <1>1, Sizes
<1>3. start \in Nat /\ e820[idx].size \in Nat /\ end \in Nat /\ e820[idx].ram \in BOOLEAN
  <2>1. e820[idx] \in Entries
    BY <1>1
  <2> QED
    BY <2>1 DEF Entries
<1>4. tbl' = IF ~e820[idx].ram \/ end < heap_start \/ start > pmem_end THEN tbl
             ELSE free_alloc_bitmap_region(tbl, Larger(start, heap_start), Smaller(end, pmem_end))
  BY DEF init_host_alloc_bitmap
<1> HIDE DEF T, D
<1>5. /\ tbl' \in T
      /\ \A p \in Nat : Idx(p) \in D =>
           (~allocated_in_map(tbl', p) <=>
              \/ ~allocated_in_map(tbl, p)
              \/ /\ heap_start <= p * PageSize /\ (p + 1) * PageSize <= pmem_end
                 /\ InEntry(idx, p))
  <2>0. \A p \in Nat : p * PageSize \in Nat /\ (p + 1) * PageSize \in Nat
                         /\ p * PageSize <= (p + 1) * PageSize
    <3>1. PageSize \in Nat
      BY Sizes
    <3> QED
      BY <3>1
  <2>1. CASE ~e820[idx].ram \/ end < heap_start \/ start > pmem_end
    <3>1. tbl' = tbl
      BY <1>4, <2>1
    <3>2. \A p \in Nat : ~(/\ heap_start <= p * PageSize /\ (p + 1) * PageSize <= pmem_end
                           /\ InEntry(idx, p))
      <4> SUFFICES ASSUME NEW p \in Nat
                   PROVE  ~(/\ heap_start <= p * PageSize /\ (p + 1) * PageSize <= pmem_end
                            /\ InEntry(idx, p))
        OBVIOUS
      <4> DEFINE a == p * PageSize
                 b == (p + 1) * PageSize
      <4>1. a \in Nat /\ b \in Nat /\ a <= b
        BY <2>0
      <4>2. InEntry(idx, p) <=> e820[idx].ram /\ start <= a /\ b <= end
        BY DEF InEntry
      <4> HIDE DEF a, b, start, end
      <4>3. ~(heap_start <= a /\ b <= pmem_end /\ InEntry(idx, p))
        BY <1>1, <1>2, <1>3, <2>1, <4>1, <4>2
      <4> QED
        BY <4>3 DEF a, b
    <3> QED
      BY <1>1, <3>1, <3>2
  <2>2. CASE e820[idx].ram /\ ~(end < heap_start) /\ ~(start > pmem_end)
    <3> DEFINE lo == Larger(start, heap_start)
               hi == Smaller(end, pmem_end)
    <3>1. tbl' = free_alloc_bitmap_region(tbl, lo, hi)
      BY <1>4, <2>2
    <3>2. lo \in Nat /\ hi \in Nat
      BY <1>1, <1>2, <1>3 DEF Larger, Smaller
    <3>3. \A p \in Nat :
            lo <= p * PageSize /\ (p + 1) * PageSize <= hi
              <=> /\ heap_start <= p * PageSize /\ (p + 1) * PageSize <= pmem_end
                  /\ InEntry(idx, p)
      <4> SUFFICES ASSUME NEW p \in Nat
                   PROVE  lo <= p * PageSize /\ (p + 1) * PageSize <= hi
                            <=> /\ heap_start <= p * PageSize /\ (p + 1) * PageSize <= pmem_end
                                /\ InEntry(idx, p)
        OBVIOUS
      <4> DEFINE a == p * PageSize
                 b == (p + 1) * PageSize
      <4>1. a \in Nat /\ b \in Nat
        BY <2>0
      <4>2. InEntry(idx, p) <=> e820[idx].ram /\ start <= a /\ b <= end
        BY DEF InEntry
      <4> HIDE DEF a, b, start, end
      <4>3. lo <= a /\ b <= hi <=> heap_start <= a /\ b <= pmem_end /\ InEntry(idx, p)
        BY <1>1, <1>2, <1>3, <2>2, <4>1, <4>2 DEF Larger, Smaller
      <4> QED
        BY <4>3 DEF a, b
    <3> HIDE DEF lo, hi
    <3>4. /\ tbl' \in [D -> SUBSET (0 .. Word - 1)]
          /\ \A p \in Nat : Idx(p) \in D =>
                (~allocated_in_map(tbl', p)
                   <=> \/ ~allocated_in_map(tbl, p)
                       \/ lo <= p * PageSize /\ (p + 1) * PageSize <= hi)
      BY <1>1, <3>1, <3>2, RegionExact DEF T
    <3> QED
      BY <3>3, <3>4 DEF T
  <2> QED
    BY <2>1, <2>2
<1>6. DOMAIN tbl = D /\ DOMAIN tbl' = D
  BY <1>1, <1>5 DEF T
<1>7. TypeOK'
  BY <1>1, <1>5 DEF IndInv, TypeOK, T, D
<1>8. BitsMeaning'
  <2> SUFFICES ASSUME NEW p \in Nat, Idx(p) \in D
               PROVE  ~allocated_in_map(tbl', p) <=> Freed(p)'
    BY <1>1, <1>6 DEF BitsMeaning, allocated_in_map, Idx, Off
  <2>1. ~allocated_in_map(tbl, p) <=> Freed(p)
    BY <1>1, <1>6 DEF IndInv, BitsMeaning
  <2>2. DOMAIN e820 \subseteq Nat
    BY <1>1
  <2>3. \A j \in DOMAIN e820 : j < idx + 1 <=> j < idx \/ j = idx
    BY <1>1, <2>2
  <2>4. Freed(p)' <=>
          \/ Freed(p)
          \/ /\ heap_start <= p * PageSize /\ (p + 1) * PageSize <= pmem_end
             /\ InEntry(idx, p)
    BY <1>1, <2>3 DEF Freed, InEntry, pmem_end
  <2> QED
    BY <1>5, <2>1, <2>4
<1> QED
  BY <1>1, <1>7, <1>8, Sizes DEF IndInv, GrantsDisjoint, GrantsInHeap, RamEnds, pmem_end

(* When the loop has seen every entry the invariant holds of the pool.     *)
LEMMA DoneInv == IndInv /\ init_done => IndInv'
BY DEF IndInv, init_done, TypeOK, BitsMeaning, Freed, InEntry, allocated_in_map, GrantsDisjoint,
       GrantsInHeap, InHeap, InRam, RamEnds, Pages

(* alloc_pages takes a run of clear bits: pages that the loop freed and no *)
(* earlier grant holds, below max_page with the page after them.           *)
LEMMA AllocInv ==
    ASSUME IndInv, NEW nr \in Nat \ {0}, NEW align \in Nat \ {0}, alloc_pages(nr, align)
    PROVE  IndInv'
<1> DEFINE D == 0 .. MapWords(max_page) - 1
           T == [D -> SUBSET (0 .. Word - 1)]
<1>1. /\ phase = "ready" /\ UNCHANGED <<e820, max_page, heap_start, idx>>
      /\ idx > Len(e820) /\ max_page \in Nat /\ heap_start \in Nat
      /\ tbl \in T /\ heap_start < pmem_end /\ e820 \in Seq(Entries)
      /\ granted \in SUBSET (Nat \X (Nat \ {0}))
      /\ \A g \in granted : g[1] + g[2] < max_page
  BY DEF IndInv, TypeOK, alloc_pages
<1> HIDE DEF T, D
<1>2. DOMAIN tbl = D
  BY <1>1 DEF T
<1>3. CASE phase' = "failed" /\ UNCHANGED <<tbl, granted>>
  BY <1>1, <1>3 DEF IndInv, TypeOK, GrantsDisjoint, GrantsInHeap, InHeap, InRam, Pages, pmem_end
<1>4. ASSUME NEW i \in Candidates(nr, align), tbl' = map_alloc(tbl, i, nr),
             granted' = granted \cup {<<i, nr>>}, UNCHANGED phase
      PROVE  IndInv'
  <2>1. i \in Nat /\ i + nr < max_page /\ is_free_contiguous_region(i, nr)
    BY <1>1, <1>4 DEF Candidates
  <2> DEFINE g0 == <<i, nr>>
  <2>2. Pages(g0) = i .. i + nr - 1 /\ g0 \in Nat \X (Nat \ {0})
    BY <2>1 DEF Pages
  <2>3. ASSUME NEW p \in Pages(g0)
        PROVE  p \in Nat /\ Idx(p) \in D /\ Freed(p) /\ \A g \in granted : p \notin Pages(g)
    <3>1. p \in Nat /\ p <= max_page
      BY <1>1, <2>1, <2>2
    <3>2. Idx(p) \in D
      BY <1>1, <3>1, MapRoom DEF D
    <3>3. ~allocated_in_map(tbl, p)
      BY <2>1, <2>2 DEF is_free_contiguous_region
    <3> QED
      BY <1>1, <1>2, <3>1, <3>2, <3>3 DEF IndInv, BitsMeaning
  <2>4. TypeOK'
    <3>1. tbl' \in T
      BY <1>1, <1>4, MapTyped DEF T
    <3> QED
      BY <1>1, <1>4, <2>2, <3>1 DEF IndInv, TypeOK, T, D
  <2>5. BitsMeaning'
    <3> SUFFICES ASSUME NEW p \in Nat, Idx(p) \in D
                 PROVE  ~allocated_in_map(tbl', p)
                           <=> Freed(p) /\ \A g \in granted' : p \notin Pages(g)
      <4>1. DOMAIN tbl' = D
        BY <1>2, <1>4 DEF map_alloc
      <4> QED
        BY <1>1, <4>1 DEF BitsMeaning, allocated_in_map, Idx, Off, Freed, InEntry, Pages, pmem_end
    <3>1. ~allocated_in_map(tbl', p) <=> ~allocated_in_map(tbl, p) /\ p \notin i .. i + nr - 1
      BY <1>2, <1>4, <2>1, MapAllocExact
    <3>2. ~allocated_in_map(tbl, p) <=> Freed(p) /\ \A g \in granted : p \notin Pages(g)
      BY <1>1, <1>2 DEF IndInv, BitsMeaning
    <3> HIDE DEF g0
    <3> QED
      BY <1>4, <2>2, <3>1, <3>2 DEF g0
  <2>6. GrantsDisjoint'
    <3> SUFFICES ASSUME NEW g \in granted', NEW h \in granted', g # h
                 PROVE  Pages(g) \cap Pages(h) = {}
      BY DEF GrantsDisjoint, Pages
    <3>1. CASE g \in granted /\ h \in granted
      BY <3>1 DEF IndInv, GrantsDisjoint
    <3>2. CASE g = g0 /\ h \in granted
      BY <2>3, <3>2
    <3>3. CASE g \in granted /\ h = g0
      BY <2>3, <3>3
    <3> QED
      BY <1>4, <3>1, <3>2, <3>3
  <2>7. GrantsInHeap'
    <3>1. ASSUME NEW p \in Nat, Freed(p) PROVE InHeap(p) /\ InRam(p)
      <4>1. PageSize \in Nat /\ (p + 1) * PageSize \in Nat /\ pmem_end \in Int
        BY Sizes, MultType
      <4> QED
        BY <3>1, <4>1 DEF Freed, InEntry, InHeap, InRam
    <3>2. \A g \in granted' : \A p \in Pages(g) : InHeap(p) /\ InRam(p)
      BY <1>4, <2>3, <3>1 DEF IndInv, GrantsInHeap
    <3> QED
      BY <1>1, <3>2 DEF GrantsInHeap, InHeap, InRam, Pages, pmem_end
  <2>8. \A g \in granted' : g[1] + g[2] < max_page
    BY <1>1, <1>4, <2>1
  <2> QED
    BY <1>1, <1>4, <2>4, <2>5, <2>6, <2>7, <2>8 DEF IndInv, RamEnds, pmem_end
<1> QED
  BY <1>3, <1>4 DEF alloc_pages

(* Every step keeps the invariant.                                         *)
LEMMA StepInv == IndInv /\ [Next]_vars => IndInv'
<1> SUFFICES ASSUME IndInv, [Next]_vars PROVE IndInv'
  OBVIOUS
<1>1. ASSUME NEW r \in Requests, alloc_pages(r[1], r[2]) PROVE IndInv'
  BY <1>1, AllocInv, InputsAssumption
<1>2. CASE UNCHANGED vars
  BY <1>2 DEF vars, IndInv, TypeOK, BitsMeaning, Freed, InEntry, allocated_in_map, GrantsDisjoint,
              GrantsInHeap, InHeap, InRam, RamEnds, Pages
<1> QED
  BY <1>1, <1>2, SetupInv, MemmapInv, FreeingInv, DoneInv DEF Next, Failed

(* The invariant holds in every reachable state.                           *)
LEMMA Invariant == Spec => []IndInv
BY InitInv, StepInv, PTL DEF Spec

-----------------------------------------------------------------------------
(* The invariant says of the pages below max_page what BitmapExact says.   *)
LEMMA ExactFromInv == IndInv => BitmapExact
<1> SUFFICES ASSUME IndInv, phase = "ready", NEW p \in 0 .. max_page - 1
             PROVE  ~allocated_in_map(tbl, p) <=>
                       /\ InHeap(p) /\ InRam(p) /\ (p + 1) * PageSize <= pmem_end
                       /\ \A g \in granted : p \notin Pages(g)
  BY DEF BitmapExact
<1>1. /\ max_page \in Nat /\ idx \in Nat /\ idx > Len(e820) /\ e820 \in Seq(Entries)
      /\ DOMAIN tbl = 0 .. MapWords(max_page) - 1 /\ BitsMeaning
  BY DEF IndInv, TypeOK
<1>2. p \in Nat /\ Idx(p) \in DOMAIN tbl
  <2>1. p \in Nat /\ p <= max_page
    BY <1>1
  <2> QED
    BY <1>1, <2>1, MapRoom
<1>3. ~allocated_in_map(tbl, p) <=> Freed(p) /\ \A g \in granted : p \notin Pages(g)
  BY <1>1, <1>2 DEF BitsMeaning
<1>4. Freed(p) <=> InHeap(p) /\ InRam(p) /\ (p + 1) * PageSize <= pmem_end
  <2>1. \A j \in DOMAIN e820 : j < idx
    BY <1>1
  <2>2. (p + 1) * PageSize \in Int /\ pmem_end \in Int
    BY <1>2, Sizes, MultType
  <2>3. (p + 1) * PageSize <= pmem_end => (p + 1) * PageSize <= pmem_end + 1
    BY <2>2
  <2> QED
    BY <2>1, <2>3 DEF Freed, InEntry, InHeap, InRam
<1> QED
  BY <1>3, <1>4

(* max_page is high enough for the word after the last page of a run.      *)
LEMMA NoOverrunFromInv == IndInv => NoOverrun
<1> SUFFICES ASSUME IndInv, phase \in {"freeing", "ready"} PROVE NoOverrun
  BY DEF NoOverrun
<1>1. /\ max_page \in Nat /\ heap_start \in Nat /\ heap_start < pmem_end /\ e820 \in Seq(Entries)
      /\ DOMAIN tbl = 0 .. MapWords(max_page) - 1
      /\ \A g \in granted : g \in Nat \X (Nat \ {0}) /\ g[1] + g[2] < max_page
      /\ \A n \in RamEnds(e820) : n <= max_page
  BY DEF IndInv, TypeOK
<1>2. ASSUME NEW g \in granted PROVE Idx(g[1] + g[2]) \in DOMAIN tbl
  <2>1. g[1] + g[2] \in Nat /\ g[1] + g[2] <= max_page
    BY <1>1
  <2> QED
    BY <1>1, <2>1, MapRoom
<1>3. ASSUME NEW j \in DOMAIN e820, e820[j].ram,
             PFN_UP(Larger(e820[j].addr, heap_start))
                < PFN_DOWN(Smaller(e820[j].addr + e820[j].size, pmem_end))
      PROVE  Idx(PFN_DOWN(Smaller(e820[j].addr + e820[j].size, pmem_end))) \in DOMAIN tbl
  <2> DEFINE a == e820[j].addr
             e == a + e820[j].size
             lo == Larger(a, heap_start)
             hi == Smaller(e, pmem_end)
  <2>1. a \in Nat /\ e \in Nat /\ pmem_end \in Nat
    <3>1. e820[j] \in Entries
      BY <1>1
    <3> QED
      BY <1>1, <3>1, Sizes DEF Entries
  <2>2. lo \in Nat /\ hi \in Nat /\ a <= lo /\ hi <= e
    BY <1>1, <2>1 DEF Larger, Smaller
  <2>3. PFN_DOWN(hi) <= PFN_DOWN(e)
    <3>1. PFN_DOWN(hi) \in Nat /\ PFN_DOWN(e) \in Nat
      BY <2>1, <2>2, Rounding
    <3>2. PageSize * PFN_DOWN(hi) <= hi /\ PageSize \in Nat \ {0}
      BY <2>2, Sizes, DivMod DEF PFN_DOWN
    <3>3. PageSize * PFN_DOWN(hi) <= e
      BY <2>1, <2>2, <3>1, <3>2, MultType
    <3> QED
      BY <2>1, <3>1, <3>2, <3>3, DivAtLeast DEF PFN_DOWN
  <2>4. PFN_UP(a) <= PFN_UP(lo)
    <3>1. PFN_UP(a) \in Nat /\ PFN_UP(lo) \in Nat
      BY <2>1, <2>2, Rounding
    <3>2. lo <= PFN_UP(lo) * PageSize /\ PFN_UP(lo) * PageSize \in Nat
      BY <2>2, <3>1, Rounding, Sizes, MultType
    <3>3. a <= PFN_UP(lo) * PageSize
      BY <2>1, <2>2, <3>2
    <3> QED
      BY <2>1, <3>1, <3>3, Rounding
  <2>5. PFN_DOWN(e) \in RamEnds(e820)
    <3>1. PFN_UP(a) \in Nat /\ PFN_UP(lo) \in Nat /\ PFN_DOWN(hi) \in Nat /\ PFN_DOWN(e) \in Nat
      BY <2>1, <2>2, Rounding
    <3>2. PFN_UP(lo) < PFN_DOWN(hi)
      BY <1>3
    <3> HIDE DEF lo, hi
    <3>3. PFN_UP(a) < PFN_DOWN(e)
      BY <2>3, <2>4, <3>1, <3>2
    <3> QED
      BY <1>3, <3>3 DEF RamEnds
  <2>6. PFN_DOWN(hi) \in Nat /\ PFN_DOWN(hi) <= max_page
    <3>1. PFN_DOWN(hi) \in Nat /\ PFN_DOWN(e) \in Nat /\ PFN_DOWN(e) <= max_page
      BY <1>1, <2>1, <2>2, <2>5, Rounding
    <3> QED
      BY <1>1, <2>3, <3>1
  <2> QED
    BY <1>1, <2>6, MapRoom
<1> QED
  BY <1>2, <1>3 DEF NoOverrun

(* Every variable keeps its type, and the bitmap its size.                 *)
THEOREM TypeCorrect == Spec => []TypeOK
<1>1. IndInv => TypeOK
  BY DEF IndInv
<1> QED
  BY <1>1, Invariant, PTL

(* No page is handed out twice by alloc_pages, whatever is asked for and   *)
(* however often.                                                          *)
THEOREM GrantsNeverOverlap == Spec => []GrantsDisjoint
<1>1. IndInv => GrantsDisjoint
  BY DEF IndInv
<1> QED
  BY <1>1, Invariant, PTL

(* Only whole pages of RAM inside the VMM's heap are handed out.           *)
THEOREM GrantsStayInHeap == Spec => []GrantsInHeap
<1>1. IndInv => GrantsInHeap
  BY DEF IndInv
<1> QED
  BY <1>1, Invariant, PTL

(* Once built, the bitmap says exactly which pages are free.               *)
THEOREM BitmapAlwaysExact == Spec => []BitmapExact
BY ExactFromInv, Invariant, PTL

(* map_alloc and map_free never write past the bitmap.                     *)
THEOREM BitmapNeverOverrun == Spec => []NoOverrun
BY NoOverrunFromInv, Invariant, PTL

-----------------------------------------------------------------------------
(* A step of the allocator is a step of the abstract one, or changes       *)
(* nothing that the abstract one shows.                                    *)
LEMMA RefinedStep ==
    IndInv /\ [Next]_vars =>
       [Abstract!Next]_<<CASE phase = "ready" -> "yes" [] phase = "failed" -> "no" [] OTHER -> "boot",
                         IF phase = "ready" THEN FreePages ELSE {}, granted>>
<1> DEFINE up == CASE phase = "ready" -> "yes" [] phase = "failed" -> "no" [] OTHER -> "boot"
           free == IF phase = "ready" THEN FreePages ELSE {}
<1> SUFFICES ASSUME IndInv, [Next]_vars
             PROVE  Abstract!Next \/ UNCHANGED <<up, free, granted>>
  OBVIOUS
<1>1. CASE setup_memory_region
  BY <1>1 DEF setup_memory_region, Abstract!Next, Abstract!Stop
<1>2. CASE naive_memmap_init
  BY <1>2 DEF naive_memmap_init, Abstract!Next, Abstract!Stop
<1>3. CASE init_host_alloc_bitmap
  BY <1>3 DEF init_host_alloc_bitmap
<1>4. CASE init_done
  <2>1. phase = "freeing" /\ phase' = "ready" /\ UNCHANGED granted /\ max_page' \in Nat
    BY <1>4 DEF init_done, IndInv, TypeOK
  <2>2. FreePages' \in SUBSET Nat
    BY <2>1 DEF FreePages
  <2> QED
    BY <2>1, <2>2 DEF Abstract!Next, Abstract!Boot
<1>5. ASSUME NEW r \in Requests, alloc_pages(r[1], r[2])
      PROVE  Abstract!Next
  <2> DEFINE nr == r[1]
             align == r[2]
  <2>1. /\ phase = "ready" /\ UNCHANGED max_page /\ nr \in Nat \ {0} /\ max_page \in Nat
        /\ DOMAIN tbl = 0 .. MapWords(max_page) - 1
    BY <1>5, InputsAssumption DEF alloc_pages, IndInv, TypeOK
  <2>2. CASE phase' = "failed" /\ UNCHANGED <<tbl, granted>>
    BY <2>1, <2>2 DEF Abstract!Next, Abstract!Stop
  <2>3. ASSUME NEW i \in Candidates(nr, align), tbl' = map_alloc(tbl, i, nr),
               granted' = granted \cup {<<i, nr>>}, UNCHANGED phase
        PROVE  Abstract!Grant(nr, align)
    <3>1. i \in Nat /\ i % align = 0 /\ i + nr < max_page /\ is_free_contiguous_region(i, nr)
      BY <2>1, <2>3 DEF Candidates
    <3>2. i .. i + nr - 1 \subseteq FreePages /\ i \in FreePages
      BY <2>1, <3>1 DEF FreePages, is_free_contiguous_region
    <3>3. FreePages' = FreePages \ (i .. i + nr - 1)
      <4>1. ASSUME NEW p \in 0 .. max_page - 1
            PROVE  ~allocated_in_map(tbl', p)
                      <=> ~allocated_in_map(tbl, p) /\ p \notin i .. i + nr - 1
        <5>1. p \in Nat /\ p <= max_page
          BY <2>1
        <5>2. Idx(p) \in DOMAIN tbl
          BY <2>1, <5>1, MapRoom
        <5> QED
          BY <2>1, <2>3, <3>1, <5>1, <5>2, MapAllocExact
      <4>2. FreePages' = {p \in 0 .. max_page - 1 : ~allocated_in_map(tbl', p)}
        BY <2>1 DEF FreePages, allocated_in_map, Idx, Off
      <4> QED
        BY <4>1, <4>2 DEF FreePages
    <3> QED
      BY <2>1, <2>3, <3>1, <3>2, <3>3 DEF Abstract!Grant, Abstract!Run
  <2>4. Abstract!Grant(nr, align) => Abstract!Next
    BY DEF Abstract!Next
  <2> QED
    BY <1>5, <2>2, <2>3, <2>4 DEF alloc_pages
<1>6. CASE UNCHANGED vars
  BY <1>6 DEF vars, FreePages, allocated_in_map
<1> QED
  BY <1>1, <1>2, <1>3, <1>4, <1>5, <1>6 DEF Next, Failed

(* The bitmap allocator implements the abstract one: a pool fixed at boot  *)
(* out of which every grant takes an aligned run for good.                 *)
THEOREM AllocatorRefines == Spec => ImplementsPageAllocator
<1>1. Init => Abstract!Init
  BY DEF Init, Abstract!Init
<1> QED
  BY <1>1, RefinedStep, Invariant, PTL DEF Spec, ImplementsPageAllocator, Abstract!Spec
=============================================================================
