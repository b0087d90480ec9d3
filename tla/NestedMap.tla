----------------------------- MODULE NestedMap -----------------------------
(***************************************************************************)
(* The nested page table that confines the guest: create_2mb_nested_page-  *)
(* table of kernel/vm.c, which vm_create runs once, and the table code of  *)
(* kernel/page.c it uses: mmap_pml4 / __mmap_2mb to enter a 2 MB page, and *)
(* the walk of linear2physical_legacy2mb, which is also what the processor *)
(* does with a guest-physical address.                                     *)
(*                                                                         *)
(* There are three levels of tables (page map level 4, directory pointer,  *)
(* directory) with Radix entries each.  A table is known by its number in  *)
(* the order of allocation; <<t, x>> is entry x of table t, and entries    *)
(* holds the ones that are present: the lower table they point to, or the  *)
(* 2 MB page they map.  Addresses are counted in units of 1/Big of a 2 MB  *)
(* page.                                                                   *)
(***************************************************************************)
EXTENDS Integers, FiniteSets

CONSTANTS
    Big,        \* address units in a 2 MB page
    Radix,      \* entries of a table (512)
    LoopPages,  \* pages the loop goes through (1 << 10)
    Layouts     \* <<vmm_pmem_start, vmm_pmem_size>> of the machine

ASSUME SizesAssumption ==
    /\ Big \in Nat \ {0} /\ Radix \in Nat \ {0} /\ LoopPages \in Nat
    /\ 2 * LoopPages <= Radix * Radix * Radix
    /\ Layouts \subseteq Nat \X (Nat \ {0})

VARIABLES
    start, size,  \* vmm_pmem_start, vmm_pmem_size
    entries,      \* the entries that are present
    ntables,      \* tables allocated so far, 1 being the root (n_cr3)
    i             \* loop counter

vars == <<start, size, entries, ntables, i>>

Levels == {"PML4", "PDP", "PD"}

(* Faulty: an index is not masked.                                         *)
Fault_index_unmasked(vpn, level) ==
    CASE level = "PD" -> vpn
      [] level = "PDP" -> (vpn \div Radix) % Radix
      [] level = "PML4" -> (vpn \div (Radix * Radix)) % Radix

(* Faulty: the top level is indexed with the bits of the level below.      *)
Fault_index_wrong_shift(vpn, level) ==
    IF level = "PD" THEN vpn % Radix ELSE (vpn \div Radix) % Radix

(* get_index_pae2mb, for an address in 2 MB page number vpn.               *)
get_index_pae2mb(vpn, level) ==
    CASE level = "PD" -> vpn % Radix
      [] level = "PDP" -> (vpn \div Radix) % Radix
      [] level = "PML4" -> (vpn \div (Radix * Radix)) % Radix

(* Entry k is made present, with v in it.                                  *)
SetEntry(e, k, v) == [x \in DOMAIN e \cup {k} |-> IF x = k THEN v ELSE e[x]]

(* Faulty: the lower table is allocated whether it is there or not.        *)
Fault_always_allocates(m, vpn, level) ==
    LET k == <<m.t, get_index_pae2mb(vpn, level)>>
    IN  [entries |-> SetEntry(m.entries, k, m.n + 1), n |-> m.n + 1, t |-> m.n + 1]

(* One level of __mmap_2mb above the directory: m.t is the table it works  *)
(* on.  A missing lower table is allocated and entered; the result has the *)
(* lower table in m.t.                                                     *)
Descend(m, vpn, level) ==
    LET k == <<m.t, get_index_pae2mb(vpn, level)>>
    IN  IF k \in DOMAIN m.entries THEN [m EXCEPT !.t = m.entries[k]]
        ELSE [entries |-> SetEntry(m.entries, k, m.n + 1), n |-> m.n + 1, t |-> m.n + 1]

mmap_pml4(m, vpn, ppn) ==
    LET pd == Descend(Descend(m, vpn, "PML4"), vpn, "PDP")
    IN  [pd EXCEPT !.entries = SetEntry(@, <<pd.t, get_index_pae2mb(vpn, "PD")>>, ppn)]

(* The walk; NotPresent is the #NPF of the processor and the fatal_failure *)
(* of the software walk.                                                   *)
NotPresent == -1

Lookup(t, vpn, level) ==
    LET k == <<t, get_index_pae2mb(vpn, level)>>
    IN  IF t # NotPresent /\ k \in DOMAIN entries THEN entries[k] ELSE NotPresent

linear2physical_legacy2mb(vpn) ==
    Lookup(Lookup(Lookup(1, vpn, "PML4"), vpn, "PDP"), vpn, "PD")

-----------------------------------------------------------------------------
PAGE_DOWN_2MB(a) == (a \div Big) * Big
PAGE_UP_2MB(a) == ((a + Big - 1) \div Big) * Big

vmm_pagestart == PAGE_DOWN_2MB(start)
(* Faulty: the end is rounded down.                                        *)
Fault_pageend_down == PAGE_DOWN_2MB(start + size) - 1

vmm_pageend == PAGE_UP_2MB(start + size) - 1

(* Faulty: two pages below the VMM are taken for its neighbour.            *)
Fault_hides_two_below(paddr) ==
    \/ paddr >= vmm_pagestart /\ paddr <= vmm_pageend
    \/ paddr + 2 * Big >= vmm_pagestart /\ paddr <= vmm_pageend

(* The two conditions under which the loop leaves a page out.              *)
Hidden(paddr) ==
    \/ paddr >= vmm_pagestart /\ paddr <= vmm_pageend
    \/ paddr + Big >= vmm_pagestart /\ paddr + 2 * Big <= vmm_pageend

Init ==
    /\ \E l \in Layouts : start = l[1] /\ size = l[2]
    /\ entries = <<>> /\ ntables = 1   \* pml4_table_alloc
    /\ i = 0

(* One round of the loop of create_2mb_nested_pagetable.                   *)
create_2mb_nested_pagetable ==
    /\ i < LoopPages
    /\ IF Hidden(i * Big) THEN UNCHANGED <<entries, ntables>>
       ELSE LET m == mmap_pml4([entries |-> entries, n |-> ntables, t |-> 1], i, i)
            IN  entries' = m.entries /\ ntables' = m.n
    /\ i' = i + 1
    /\ UNCHANGED <<start, size>>

(* The table is complete and vm_create returns.                            *)
Created == i = LoopPages /\ UNCHANGED vars

Next == create_2mb_nested_pagetable \/ Created

Spec == Init /\ [][Next]_vars

-----------------------------------------------------------------------------
(* Page numbers up to twice what the loop covers are asked about: 4 GB is  *)
(* twice 2^10 pages of 2 MB.                                               *)
Vpns == 0 .. 2 * LoopPages - 1
HoldsVmm(vpn) == \E a \in start .. start + size - 1 : a \div Big = vpn

(* Every variable keeps its type; entries are those of allocated tables.   *)
TypeOK ==
    /\ start \in Nat /\ size \in Nat \ {0} /\ ntables \in Nat \ {0}
    /\ i \in 0 .. LoopPages
    /\ DOMAIN entries \subseteq (1 .. ntables) \X (0 .. Radix - 1)
    /\ \A k \in DOMAIN entries : entries[k] \in Nat

(* The guest cannot reach the VMM: no guest-physical address, however it   *)
(* is walked, leads to a 2 MB page that holds a byte of the VMM's memory,  *)
(* the tables themselves included.                                         *)
VmmUnreachable ==
    \A vpn \in Vpns : ~HoldsVmm(linear2physical_legacy2mb(vpn))

(* "GP = HP": the handlers use a guest-physical address as a host address. *)
(* What the table maps, it maps to itself.                                 *)
IdentityMapped ==
    \A vpn \in Vpns : linear2physical_legacy2mb(vpn) \in {vpn, NotPresent}

(* No page of the allocator is lost or used twice: every table but the     *)
(* root hangs from exactly one entry.                                      *)
TablesOwned ==
    LET upper == {k \in DOMAIN entries : k[1] = 1 \/ \E x \in 0 .. Radix - 1 :
                     <<1, x>> \in DOMAIN entries /\ entries[<<1, x>>] = k[1]}
    IN  /\ Cardinality(upper) = ntables - 1
        /\ {entries[k] : k \in upper} = 2 .. ntables

(* The loop's effect on the pages it covers, once it is over: absent are   *)
(* the pages of the VMM and the one page below them.                       *)
OnlyVmmAndPageBelow ==
    i = LoopPages => \A vpn \in 0 .. LoopPages - 1 :
       linear2physical_legacy2mb(vpn) = NotPresent =>
          HoldsVmm(vpn) \/ HoldsVmm(vpn + 1)

=============================================================================
