----------------------------- MODULE HostAlloc -----------------------------
(***************************************************************************)
(* The VMM's page allocator (kernel/alloc.c) and the memory map it is      *)
(* built from (kernel/e820.c, setup_memory of kernel/setup.c).             *)
(*                                                                         *)
(* A bitmap with one bit per page of the machine, 1 for "not available",   *)
(* lies at host_ab_start inside the VMM's memory; the VMM's heap follows   *)
(* it.  At boot all bits are set, then the pages of RAM regions inside the *)
(* heap are cleared; alloc_pages searches upwards for a run of clear bits, *)
(* sets them and returns the first page.  Nothing is ever given back.      *)
(*                                                                         *)
(* A word of the bitmap is the set of its bits that are 1, so a mask is an *)
(* interval and |= and &= are union and intersection.                      *)
(***************************************************************************)
EXTENDS Integers, Sequences, FiniteSets

CONSTANTS
    PageSize,      \* bytes in a page (4096)
    ByteBits,      \* bits in a byte (8)
    WordBytes,     \* bytes in an unsigned long (8)
    MaxEntries,    \* E820_MAX_ENTRIES
    Maps,          \* memory maps the boot loader can pass
    AbStart,       \* host_ab_start
    PmemStart,     \* vmm_pmem_start
    PmemSize,      \* vmm_pmem_size
    Requests       \* <<nr_pfns, pfn_align>> that callers ask for

Word == ByteBits * WordBytes      \* 1 << ALLOC_BITMAP_SHIFT
Entries == [addr : Nat, size : Nat, ram : BOOLEAN]

ASSUME SizesAssumption ==
    /\ PageSize \in Nat \ {0} /\ ByteBits \in Nat \ {0} /\ WordBytes \in Nat \ {0}
    /\ MaxEntries \in Nat
ASSUME LayoutAssumption ==
    /\ AbStart \in Nat /\ PmemStart \in Nat /\ PmemSize \in Nat
    /\ PmemStart <= AbStart
ASSUME InputsAssumption ==
    /\ Maps \subseteq Seq(Entries)
    /\ Requests \subseteq (Nat \ {0}) \X (Nat \ {0})

VARIABLES
    phase,      \* "start", "mapped", "freeing", "ready" or "failed"
    e820,       \* pml->e820
    max_page,   \* pml->max_page
    heap_start, \* pml->vmm_heap_start
    idx,        \* loop counter of init_host_alloc_bitmap
    tbl,        \* nalloc->alloc_bitmap
    granted     \* the page runs handed out so far

vars == <<phase, e820, max_page, heap_start, idx, tbl, granted>>

pmem_end == PmemStart + PmemSize - 1

PFN_DOWN(x) == x \div PageSize
PFN_UP(x) == (x + PageSize - 1) \div PageSize
PAGE_UP(x) == PFN_UP(x) * PageSize

Larger(a, b) == IF a > b THEN a ELSE b
Smaller(a, b) == IF a < b THEN a ELSE b

(* get_max_pfn: the highest end of a RAM region that holds a whole page,   *)
(* 0 if there is none.                                                     *)
RamEnds(map) ==
    {PFN_DOWN(map[i].addr + map[i].size) :
        i \in {j \in DOMAIN map : map[j].ram /\ PFN_UP(map[j].addr)
                                     < PFN_DOWN(map[j].addr + map[j].size)}}

get_max_pfn(map) ==
    CHOOSE n \in RamEnds(map) \cup {0} : \A m \in RamEnds(map) : m <= n

(* Faulty: no longword of padding.                                         *)
Fault_no_padding(n) == PAGE_UP(n \div ByteBits)

(* mapsize_rounded: max_page bits in bytes, and one longword of padding.   *)
MapBytes(n) == PAGE_UP(n \div ByteBits + WordBytes)
MapWords(n) == MapBytes(n) \div WordBytes

Idx(pfn) == pfn \div Word
Off(pfn) == pfn % Word

allocated_in_map(t, pfn) == Off(pfn) \in t[Idx(pfn)]

(* Faulty: the bit of the page after the last is taken too.                *)
Fault_mask_one_more(first, last, i) ==
    {b \in 0 .. Word - 1 :
        /\ i \in Idx(first) .. Idx(last)
        /\ i = Idx(first) => b >= Off(first)
        /\ i = Idx(last) => b <= Off(last)}

(* Faulty: a mask one bit wider than a word.                               *)
Fault_mask_too_wide(first, last, i) ==
    {b \in 0 .. Word :
        /\ i \in Idx(first) .. Idx(last)
        /\ i = Idx(first) => b >= Off(first)
        /\ i = Idx(last) => b < Off(last)}

(* The bits of word i that map_alloc sets and map_free clears, for the     *)
(* pages first .. last - 1: from start_off up in the first word, all in    *)
(* the words between, below end_off in the last, and the meet of the two   *)
(* masks when that is one word.                                            *)
Mask(first, last, i) ==
    {b \in 0 .. Word - 1 :
        /\ i \in Idx(first) .. Idx(last)
        /\ i = Idx(first) => b >= Off(first)
        /\ i = Idx(last) => b < Off(last)}

(* Faulty: the last page of the run is not marked.                         *)
Fault_alloc_one_less(t, first, nr) ==
    [i \in DOMAIN t |-> t[i] \cup Mask(first, first + nr - 1, i)]

map_alloc(t, first, nr) == [i \in DOMAIN t |-> t[i] \cup Mask(first, first + nr, i)]

map_free(t, first, nr) == [i \in DOMAIN t |-> t[i] \ Mask(first, first + nr, i)]

(* Faulty: a page that is only partly in the region is freed with it.      *)
Fault_free_partial_page(t, start, end) ==
    IF PFN_DOWN(end) <= PFN_DOWN(start) THEN t
    ELSE map_free(t, PFN_DOWN(start), PFN_DOWN(end) - PFN_DOWN(start))

free_alloc_bitmap_region(t, start, end) ==
    IF PFN_DOWN(end) <= PFN_UP(start) THEN t
    ELSE map_free(t, PFN_UP(start), PFN_DOWN(end) - PFN_UP(start))

-----------------------------------------------------------------------------
Init ==
    /\ phase = "start"
    /\ e820 = <<>> /\ max_page = 0 /\ heap_start = 0 /\ idx = 1
    /\ tbl = [i \in {} |-> {}] /\ granted = {}

(* setup_memory_region copies the boot loader's map entry by entry; it     *)
(* gives up if there is none, and at an entry too many.                    *)
setup_memory_region ==
    /\ phase = "start"
    /\ \/ phase' = "failed" /\ UNCHANGED <<e820, max_page>>  \* no MBI_MEMMAP
       \/ \E map \in Maps :
            IF Len(map) > MaxEntries
              THEN phase' = "failed" /\ UNCHANGED <<e820, max_page>>
              ELSE phase' = "mapped" /\ e820' = map /\ max_page' = get_max_pfn(map)
    /\ UNCHANGED <<heap_start, idx, tbl, granted>>

naive_memmap_init ==
    /\ phase = "mapped"
    /\ heap_start' = PAGE_UP(AbStart) + MapBytes(max_page)
    /\ IF heap_start' >= pmem_end
         THEN phase' = "failed" /\ UNCHANGED tbl
         ELSE /\ phase' = "freeing"
              /\ tbl' = [i \in 0 .. MapWords(max_page) - 1 |-> 0 .. Word - 1]
    /\ UNCHANGED <<e820, max_page, idx, granted>>

(* One round of the loop of init_host_alloc_bitmap.                        *)
init_host_alloc_bitmap ==
    /\ phase = "freeing" /\ idx <= Len(e820)
    /\ LET start == e820[idx].addr
           end == start + e820[idx].size
       IN  tbl' = IF ~e820[idx].ram \/ end < heap_start \/ start > pmem_end THEN tbl
                  ELSE free_alloc_bitmap_region(tbl, Larger(start, heap_start),
                                                Smaller(end, pmem_end))
    /\ idx' = idx + 1
    /\ UNCHANGED <<phase, e820, max_page, heap_start, granted>>

init_done ==
    /\ phase = "freeing" /\ idx > Len(e820)
    /\ phase' = "ready"
    /\ UNCHANGED <<e820, max_page, heap_start, idx, tbl, granted>>

(* Faulty: the last page of the run is not looked at.                      *)
Fault_contiguous_one_less(pfn, nr) ==
    \A p \in pfn .. pfn + nr - 2 : ~allocated_in_map(tbl, p)

is_free_contiguous_region(pfn, nr) ==
    \A p \in pfn .. pfn + nr - 1 : ~allocated_in_map(tbl, p)

Candidates(nr, align) ==
    {i \in 0 .. max_page : /\ i % align = 0 /\ i + nr < max_page
                           /\ is_free_contiguous_region(i, nr)}

alloc_pages(nr, align) ==
    /\ phase = "ready"
    /\ IF Candidates(nr, align) = {}
         THEN phase' = "failed" /\ UNCHANGED <<tbl, granted>>
         ELSE \E i \in Candidates(nr, align) :
                /\ \A j \in Candidates(nr, align) : i <= j
                /\ tbl' = map_alloc(tbl, i, nr)
                /\ granted' = granted \cup {<<i, nr>>}
                /\ UNCHANGED phase
    /\ UNCHANGED <<e820, max_page, heap_start, idx>>

(* die(): the processor stops.                                             *)
Failed == phase = "failed" /\ UNCHANGED vars

Next ==
    \/ setup_memory_region \/ naive_memmap_init \/ init_host_alloc_bitmap \/ init_done
    \/ \E r \in Requests : alloc_pages(r[1], r[2])
    \/ Failed

Spec == Init /\ [][Next]_vars

-----------------------------------------------------------------------------
(* Every variable keeps its type; the bitmap has as many words as          *)
(* naive_memmap_init made room for.                                        *)
TypeOK ==
    /\ phase \in {"start", "mapped", "freeing", "ready", "failed"}
    /\ e820 \in Seq(Entries)
    /\ max_page \in Nat /\ heap_start \in Nat /\ idx \in Nat \ {0}
    /\ phase \in {"freeing", "ready"} =>
          tbl \in [0 .. MapWords(max_page) - 1 -> SUBSET (0 .. Word - 1)]
    /\ granted \in SUBSET (Nat \X (Nat \ {0}))

Pages(g) == g[1] .. g[1] + g[2] - 1

(* No page is handed out twice: two different grants share no page.        *)
GrantsDisjoint ==
    \A g, h \in granted : g # h => Pages(g) \cap Pages(h) = {}

(* A page of the VMM's heap, whole: above the bitmap, not past the end of  *)
(* the VMM's memory.                                                       *)
InHeap(p) == heap_start <= p * PageSize /\ (p + 1) * PageSize <= pmem_end + 1

InRam(p) ==
    \E i \in DOMAIN e820 : /\ e820[i].ram /\ e820[i].addr <= p * PageSize
                           /\ (p + 1) * PageSize <= e820[i].addr + e820[i].size

(* What is handed out is RAM of the VMM's heap: never the VMM's image, the *)
(* bitmap itself, the guest's memory or a hole of the memory map.          *)
GrantsInHeap == \A g \in granted : \A p \in Pages(g) : InHeap(p) /\ InRam(p)

(* "Mark VMM heap area as free, leave all regions outside VMM heap         *)
(* untouched": once the bitmap is built a bit is clear exactly for a page  *)
(* of the heap that is RAM and not handed out, the heap's last page        *)
(* excepted when the VMM's memory ends there.                              *)
BitmapExact ==
    phase = "ready" =>
      \A p \in 0 .. max_page - 1 :
         ~allocated_in_map(tbl, p) <=>
            /\ InHeap(p) /\ InRam(p) /\ (p + 1) * PageSize <= pmem_end
            /\ \A g \in granted : p \notin Pages(g)

(* "Add an extra longword of padding for possible overrun in map_alloc and *)
(* map_free": the word that holds the bit after the last page, which both  *)
(* write, is always a word of the bitmap.                                  *)
NoOverrun ==
    phase \in {"freeing", "ready"} =>
      /\ \A g \in granted : Idx(g[1] + g[2]) \in DOMAIN tbl
      /\ \A i \in DOMAIN e820 :
            LET end == PFN_DOWN(Smaller(e820[i].addr + e820[i].size, pmem_end))
            IN  e820[i].ram /\ PFN_UP(Larger(e820[i].addr, heap_start)) < end
                  => Idx(end) \in DOMAIN tbl
=============================================================================
