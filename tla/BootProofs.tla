----------------------------- MODULE BootProofs -----------------------------
(***************************************************************************)
(* Booting the VMM, for every machine and processor.                       *)
(*                                                                         *)
(* The theorems compose those about the parts.  The pages of the allocator *)
(* lie in the VMM's memory, which is what GrantsStayInHeap of              *)
(* HostAllocProofs says of them and what MachinesAssumption takes up; the  *)
(* nested page table never leads there, which is ReachFromInv of           *)
(* NestedMapProofs.  The inductive invariant keeps both parts, that no     *)
(* page is free and in use or in use twice, and what every step of the     *)
(* preparation leaves for the next one: of the processor, of vm_info, of   *)
(* the vmcb and of the pages that must have been cleared.  Nothing is      *)
(* assumed about what vm_info and the vmcb hold before they are cleared.   *)
(***************************************************************************)
EXTENDS Boot, NatLemmas, FiniteSetTheorems

NP == INSTANCE NestedMapProofs WITH Layouts <- {<<m.start, m.size>> : m \in Machines}

Vmm == start .. start + size - 1

(* Free pages and pages in use are pages of the VMM and nothing in common. *)
PoolInv ==
    /\ start \in Nat /\ size \in Nat \ {0}
    /\ free \subseteq Pages /\ own \in [Uses -> SUBSET Pages]
    /\ free \subseteq Vmm /\ \A u \in Uses : own[u] \subseteq Vmm
    /\ \A u \in Uses : own[u] \cap free = {}
    /\ \A u, w \in Uses : u # w => own[u] \cap own[w] = {}

(* Before pml4_table_alloc there is no table; after it there is one that   *)
(* NestedMapProofs calls well formed, and every table has its page.        *)
BeforeTables == {"vm_create", "initialize_fid2name_map", "initialize_syscallmap",
                 "initialize_ptracked_list", "pml4_table_alloc"}

NoTables == ntables = 0 /\ i = 0 /\ DOMAIN entries = {}

TablesInv ==
    /\ \/ NoTables /\ pc \in BeforeTables \cup {"dead"} /\ own["tables"] = {}
       \/ NP!IndInv /\ ntables \in Nat /\ pc \notin BeforeTables
    /\ Cardinality(own["tables"]) = ntables \/ why = "alloc_pages"

(* What the preparation has done before each of its functions.             *)
SvmEnabled == {"alloc_vmcb", "set_control_params", "msrpm", "set_vm_to_mbr_start_state", "run"}

Std == <<[fid |-> 0, fname |-> "stdin"], [fid |-> 1, fname |-> "stdout"],
         [fid |-> 2, fname |-> "stderr"]>>

PreparedInv ==
    /\ pc \in {"run", "dead", "vm_create", "initialize_fid2name_map", "initialize_syscallmap",
               "initialize_ptracked_list", "pml4_table_alloc", "create_2mb_nested_pagetable",
               "early_identify_cpu", "enable_svm", "alloc_vmcb", "set_control_params", "msrpm",
               "set_vm_to_mbr_start_state", "enable_vmx"}
    /\ why \in {"", "alloc_pages", "vendor", "svm", "npt", "vmx", "ept"}
    /\ pc # "dead" => why = ""
    /\ cpu \in Cpus /\ cap \in [4 .. 6 -> SUBSET {"VMX", "SVM"}]
    /\ efer \subseteq {"SVME"} /\ hsave \subseteq Pages
    /\ pc = "enable_svm" =>
          cpu.vendor = "AuthenticAMD" /\ cap[6] = IF cpu.ext1 THEN cpu.ecx81 ELSE {}
    /\ pc \in SvmEnabled =>
          /\ cpu.vendor = "AuthenticAMD" /\ "SVM" \in cpu.ecx81 /\ cpu.npt
          /\ "SVME" \in efer /\ hsave = own["hsa"] /\ hsave # {}

(* vm_info once it is cleared: of its fields only the root, the names and  *)
(* the handlers are written before the guest runs.                         *)
VmInv ==
    /\ pc # "vm_create" =>
          /\ vm \in VmType
          /\ vm.itc_flag = {} /\ vm.itc_skip_flag = {} /\ vm.btrackcurrent = 0
          /\ vm.ptracked = <<>> /\ vm.syscallmap = <<>>
    /\ pc \notin {"vm_create", "initialize_fid2name_map", "dead"} => vm.fmap = Std
    /\ pc \notin BeforeTables \cup {"dead"} => vm.n_cr3 \in own["tables"]
    /\ pc = "run" => vm.handlers = {"vm_run", "vm_exit"}

(* The vmcb once it is cleared: what its fields hold before each function  *)
(* that writes some of them, and the pages that they name.                 *)
BeforeVmcb == BeforeTables \cup {"create_2mb_nested_pagetable", "early_identify_cpu", "enable_svm",
                                 "enable_vmx", "alloc_vmcb"}
BeforeIopm == BeforeVmcb \cup {"set_control_params"}
BeforeMsrpm == BeforeIopm \cup {"msrpm"}

VmcbInv ==
    /\ pc \in BeforeVmcb => own["vmcb"] = {}
    /\ pc \in BeforeIopm => own["iopm"] = {}
    /\ pc \in BeforeMsrpm => own["msrpm"] = {}
    /\ own["vmcb"] # {} => vmcb \in VmcbType
    /\ pc \notin BeforeVmcb \cup {"dead"} =>
          /\ vmcb \in VmcbType /\ vmcb.ncr3 = vm.n_cr3
          /\ vmcb.cr4 = {} /\ vmcb.dr6 = {} /\ vmcb.dr7 = {}
          /\ vmcb.intercepts = {} /\ vmcb.eventinj = "NONE"
    /\ pc \notin BeforeIopm \cup {"dead"} =>
          /\ vmcb.np = 1 /\ vmcb.asid = 1 /\ vmcb.general2 = {"VMRUN", "VMMCALL"}
          /\ own["iopm"] = Run(vmcb.iopm, 3)
    /\ pc \notin BeforeMsrpm \cup {"dead"} => own["msrpm"] = Run(vmcb.msrpm, 2)
    /\ pc = "run" =>
          vmcb.efer = {"SVME"} /\ vmcb.cr0 = {"ET"} /\ vmcb.rflags = {"PF", "IF", "IOPL"}

(* What the processor reads was cleared when it was allocated.             *)
ReadByCpu == {"tables", "hsa", "vmcb", "iopm", "msrpm"}
CleanInv == clean \subseteq Pages /\ \A u \in ReadByCpu : own[u] \subseteq clean

IndInv == PoolInv /\ TablesInv /\ PreparedInv /\ VmInv /\ VmcbInv /\ CleanInv

-----------------------------------------------------------------------------
(* The assumptions under which the theorems about the table hold.          *)
LEMMA NestedSizes == NP!SizesAssumption
<1>1. {<<m.start, m.size>> : m \in Machines} \subseteq Nat \X (Nat \ {0})
  BY MachinesAssumption
<1> QED
  BY <1>1, SizesAssumption DEF NP!SizesAssumption

(* alloc_host_pages either stops the machine and takes nothing, or moves   *)
(* one run from the free pages to the use they were asked for.             *)
LEMMA AllocEither ==
    ASSUME PoolInv, NEW use, NEW nr \in Nat \ {0}, NEW next, alloc_host_pages(use, nr, next)
    PROVE  \/ pc' = "dead" /\ why' = "alloc_pages" /\ UNCHANGED <<free, own>>
           \/ /\ pc' = next /\ UNCHANGED why
              /\ Lowest(nr) \in Nat /\ Run(Lowest(nr), nr) \subseteq free
              /\ free' = free \ Run(Lowest(nr), nr)
              /\ own' = [own EXCEPT ![use] = @ \cup Run(Lowest(nr), nr)]
<1>1. CASE Runs(nr) = {}
  BY <1>1 DEF alloc_host_pages, fatal_failure, pool
<1>2. CASE Runs(nr) # {}
  <2>1. Runs(nr) \subseteq Nat
    <3>1. free \subseteq Nat
      BY SizesAssumption DEF PoolInv, Pages
    <3> QED
      BY <3>1 DEF Runs
  <2>2. \E p \in Runs(nr) : \A q \in Runs(nr) : p <= q
    BY <1>2, <2>1, LeastNat
  <2>3. Lowest(nr) \in Runs(nr)
    BY <2>2 DEF Lowest
  <2>4. Lowest(nr) \in Nat /\ Run(Lowest(nr), nr) \subseteq free
    BY <2>1, <2>3 DEF Runs
  <2>5. /\ own' = [own EXCEPT ![use] = @ \cup Run(Lowest(nr), nr)]
        /\ free' = free \ Run(Lowest(nr), nr) /\ pc' = next /\ UNCHANGED why
    BY <1>2 DEF alloc_host_pages, Then
  <2> QED
    BY <2>4, <2>5
<1> QED
  BY <1>1, <1>2

(* Moving free pages to a use keeps the pool in order.                     *)
LEMMA PoolMoves ==
    ASSUME PoolInv, UNCHANGED <<start, size>>, NEW use \in Uses, NEW new, new \subseteq free,
           free' = free \ new, own' = [own EXCEPT ![use] = @ \cup new]
    PROVE  PoolInv' /\ own'[use] = own[use] \cup new /\ \A u \in Uses : u # use => own'[u] = own[u]
<1>1. own'[use] = own[use] \cup new /\ \A u \in Uses : u # use => own'[u] = own[u]
  BY DEF PoolInv
<1>2. own' \in [Uses -> SUBSET Pages]
  BY DEF PoolInv
<1>3. \A u, w \in Uses : u # w => own'[u] \cap own'[w] = {}
  BY <1>1 DEF PoolInv
<1>4. \A u \in Uses : own'[u] \cap free' = {} /\ own'[u] \subseteq Vmm
  BY <1>1 DEF PoolInv
<1>5. Vmm' = Vmm /\ Pages' = Pages
  BY DEF Vmm, Pages
<1> QED
  BY <1>1, <1>2, <1>3, <1>4, <1>5 DEF PoolInv

(* What is left when nothing is taken.                                     *)
LEMMA PoolStays == PoolInv /\ UNCHANGED <<start, size, free, own>> => PoolInv'
BY DEF PoolInv, Vmm, Pages

(* The table is not touched outside the loop.                              *)
LEMMA NestedStays ==
    ASSUME UNCHANGED npt
    PROVE  (NP!IndInv => NP!IndInv') /\ (NoTables => NoTables')
<1>1. UNCHANGED <<start, size, entries, ntables, i>>
  BY DEF npt
<1>2. NP!IndInv => NP!IndInv'
  BY <1>1, NestedSizes, NP!StutterInv DEF NP!vars, NP!SizesAssumption
<1> QED
  BY <1>1, <1>2 DEF NoTables

(* Fewer than n + 1 elements of a set have fewer than n below them.        *)
LEMMA LowestFew ==
    ASSUME NEW b \in Nat, NEW S \in SUBSET (0 .. b), NEW n \in Nat
    PROVE  Cardinality({p \in S : Cardinality({q \in S : q < p}) < n}) <= n
<1> DEFINE Below(p) == {q \in S : q < p}
           T == {p \in S : Cardinality(Below(p)) < n}
<1>1. IsFiniteSet(S)
  <2>1. IsFiniteSet(0 .. b)
    BY FS_Interval
  <2> QED
    BY <2>1, FS_Subset
<1>2. /\ T \subseteq S /\ \A p \in S : Below(p) \subseteq S
      /\ \A p \in T : Cardinality(Below(p)) < n
      /\ \A p, q \in S : q < p => q \in Below(p)
  OBVIOUS
<1> HIDE DEF Below, T
<1>0. IsFiniteSet(T) /\ Cardinality(T) \in Nat
  BY <1>1, <1>2, FS_Subset, FS_CardinalityType
<1>3. CASE T = {}
  <2>1. Cardinality(T) <= n
    BY <1>3, FS_EmptySet
  <2> QED
    BY <2>1 DEF T, Below
<1>4. CASE T # {}
  <2>1. T \subseteq Nat /\ \A m \in T : m <= b
    BY <1>2
  <2>2. PICK t \in T : \A m \in T : m <= t
    BY <1>4, <2>1, LargestNat
  <2>3. T \ {t} \subseteq Below(t)
    BY <1>2, <2>1, <2>2
  <2>4. IsFiniteSet(Below(t)) /\ Cardinality(Below(t)) \in Nat
    BY <1>1, <1>2, <2>2, FS_Subset, FS_CardinalityType
  <2>5. Cardinality(T \ {t}) <= Cardinality(Below(t))
    BY <2>3, <2>4, FS_Subset
  <2>6. Cardinality(T \ {t}) = Cardinality(T) - 1
    BY <1>0, <2>2, FS_RemoveElement
  <2>7. Cardinality(T) <= n
    BY <1>0, <1>2, <2>2, <2>4, <2>5, <2>6
  <2> QED
    BY <2>7 DEF T, Below
<1> QED
  BY <1>3, <1>4

-----------------------------------------------------------------------------
(* The machine is started with an empty table and nothing prepared.        *)
LEMMA InitInv == Init => IndInv
<1> SUFFICES ASSUME Init PROVE IndInv
  OBVIOUS
<1>1. PICK m \in Machines : start = m.start /\ size = m.size /\ free = m.free
  BY DEF Init
<1>2. PoolInv
  BY <1>1, MachinesAssumption DEF Init, PoolInv, Vmm, Pages
<1>3. TablesInv
  <2>1. own["tables"] = {}
    <3>1. "tables" \in Uses
      BY DEF Uses
    <3> QED
      BY <3>1 DEF Init
  <2>2. NoTables /\ pc \in BeforeTables
    <3>1. entries = <<>>
      BY DEF Init
    <3>2. DOMAIN entries = {}
      BY <3>1
    <3> QED
      BY <3>2 DEF Init, NoTables, BeforeTables
  <2>3. Cardinality(own["tables"]) = ntables
    BY <2>1, <2>2, FS_EmptySet DEF NoTables
  <2> QED
    BY <2>1, <2>2, <2>3 DEF TablesInv
<1>4. PreparedInv
  BY DEF Init, PreparedInv, SvmEnabled
<1>5. VmInv
  BY DEF Init, VmInv, BeforeTables
<1>6. VmcbInv /\ CleanInv
  <2>1. \A u \in {"tables", "hsa", "vmcb", "iopm", "msrpm"} : own[u] = {}
    BY DEF Init, Uses
  <2> QED
    BY <2>1 DEF Init, VmcbInv, CleanInv, ReadByCpu, BeforeVmcb, BeforeIopm, BeforeMsrpm, BeforeTables
<1> QED
  BY <1>2, <1>3, <1>4, <1>5, <1>6 DEF IndInv

(* A function that allocates for another use than the tables.              *)
LEMMA TakesPages ==
    ASSUME PoolInv, TablesInv, UNCHANGED npt, NEW use \in Uses \ {"tables"}, NEW nr \in Nat \ {0},
           NEW next, alloc_host_pages(use, nr, next),
           pc # "dead", pc \in BeforeTables <=> next \in BeforeTables
    PROVE  /\ PoolInv' /\ TablesInv'
           /\ \/ pc' = "dead" /\ why' = "alloc_pages" /\ own' = own
              \/ /\ pc' = next /\ why' = why
                 /\ Lowest(nr) \in Nat /\ own'[use] = own[use] \cup Run(Lowest(nr), nr)
                 /\ own'[use] # {} /\ \A u \in Uses : u # use => own'[u] = own[u]
<1>1. UNCHANGED <<start, size, ntables>>
  BY DEF npt
<1>2. (NP!IndInv => NP!IndInv') /\ (NoTables => NoTables')
  BY NestedStays
<1>3. CASE pc' = "dead" /\ why' = "alloc_pages" /\ UNCHANGED <<free, own>>
  <2>1. PoolInv'
    BY <1>1, <1>3, PoolStays
  <2>2. TablesInv'
    BY <1>1, <1>2, <1>3 DEF TablesInv, BeforeTables
  <2> QED
    BY <1>3, <2>1, <2>2
<1>4. CASE /\ pc' = next /\ UNCHANGED why
           /\ Lowest(nr) \in Nat /\ Run(Lowest(nr), nr) \subseteq free
           /\ free' = free \ Run(Lowest(nr), nr)
           /\ own' = [own EXCEPT ![use] = @ \cup Run(Lowest(nr), nr)]
  <2>2. /\ PoolInv' /\ own'[use] = own[use] \cup Run(Lowest(nr), nr)
        /\ \A u \in Uses : u # use => own'[u] = own[u]
    BY <1>1, <1>4, PoolMoves
  <2>3. Lowest(nr) \in own'[use]
    BY <1>4, <2>2 DEF Run
  <2>4. own'["tables"] = own["tables"]
    BY <2>2 DEF Uses
  <2>5. TablesInv'
    BY <1>1, <1>2, <1>4, <2>4 DEF TablesInv
  <2> QED
    BY <1>4, <2>2, <2>3, <2>5
<1> QED
  BY <1>3, <1>4, AllocEither

(* A function that touches neither the pool nor the table.                 *)
LEMMA Untouched ==
    ASSUME IndInv, UNCHANGED npt, UNCHANGED <<free, own>>, pc \notin BeforeTables,
           pc' \notin BeforeTables, pc # "dead", why' = why \/ pc' = "dead"
    PROVE  PoolInv' /\ TablesInv'
<1>1. UNCHANGED <<start, size, ntables>>
  BY DEF npt
<1>2. NP!IndInv => NP!IndInv'
  BY NestedStays
<1>3. PoolInv'
  BY <1>1, PoolStays DEF IndInv
<1>4. NP!IndInv /\ Cardinality(own["tables"]) = ntables /\ ntables \in Nat
  BY DEF IndInv, TablesInv, PreparedInv
<1>5. TablesInv'
  BY <1>1, <1>2, <1>4 DEF TablesInv
<1> QED
  BY <1>3, <1>5

-----------------------------------------------------------------------------
(* What the steps that do not write vm_info leave of it.                   *)
LEMMA VmStays ==
    ASSUME VmInv, vm' = vm, pc \notin BeforeTables \cup {"dead"}, pc' \notin BeforeTables,
           pc' # "run", own["tables"] \subseteq own'["tables"]
    PROVE  VmInv'
BY DEF VmInv, BeforeTables

(* Before the vmcb is allocated nothing depends on what its page holds.    *)
LEMMA VmcbWaits ==
    ASSUME VmcbInv, pc \in BeforeVmcb, pc' \in BeforeVmcb \cup {"dead"},
           own'["vmcb"] = own["vmcb"], own'["iopm"] = own["iopm"], own'["msrpm"] = own["msrpm"]
    PROVE  VmcbInv'
BY DEF VmcbInv, BeforeVmcb, BeforeIopm, BeforeMsrpm, BeforeTables

(* Storing the root of the nested page table in vm_info changes nothing    *)
(* else of it.                                                             *)
LEMMA VmRoot ==
    ASSUME vm \in VmType, NEW n \in Nat, vm' = [vm EXCEPT !.n_cr3 = n]
    PROVE  /\ vm' \in VmType /\ vm'.n_cr3 = n /\ vm'.fmap = vm.fmap /\ vm'.handlers = vm.handlers
           /\ vm'.itc_flag = vm.itc_flag /\ vm'.itc_skip_flag = vm.itc_skip_flag
           /\ vm'.ptracked = vm.ptracked /\ vm'.syscallmap = vm.syscallmap
           /\ vm'.btrackcurrent = vm.btrackcurrent
BY DEF VmType

(* Likewise the names of the files.                                        *)
LEMMA VmNames ==
    ASSUME vm \in VmType, NEW f \in Seq([fid : 0 .. 2, fname : {"stdin", "stdout", "stderr"}]),
           vm' = [vm EXCEPT !.fmap = f]
    PROVE  /\ vm' \in VmType /\ vm'.n_cr3 = vm.n_cr3 /\ vm'.fmap = f /\ vm'.handlers = vm.handlers
           /\ vm'.itc_flag = vm.itc_flag /\ vm'.itc_skip_flag = vm.itc_skip_flag
           /\ vm'.ptracked = vm.ptracked /\ vm'.syscallmap = vm.syscallmap
           /\ vm'.btrackcurrent = vm.btrackcurrent
BY DEF VmType

(* Likewise the handlers that init_amd installs.                           *)
LEMMA VmHandlers ==
    ASSUME vm \in VmType, vm' = [vm EXCEPT !.handlers = {"vm_run", "vm_exit"}]
    PROVE  /\ vm' \in VmType /\ vm'.n_cr3 = vm.n_cr3 /\ vm'.fmap = vm.fmap
           /\ vm'.handlers = {"vm_run", "vm_exit"}
           /\ vm'.itc_flag = vm.itc_flag /\ vm'.itc_skip_flag = vm.itc_skip_flag
           /\ vm'.ptracked = vm.ptracked /\ vm'.syscallmap = vm.syscallmap
           /\ vm'.btrackcurrent = vm.btrackcurrent
BY DEF VmType

(* The names of the three standard files.                                  *)
LEMMA StdType == Std \in Seq([fid : 0 .. 2, fname : {"stdin", "stdout", "stderr"}])
<1> DEFINE S == [fid : 0 .. 2, fname : {"stdin", "stdout", "stderr"}]
           a == [fid |-> 0, fname |-> "stdin"]
           b == [fid |-> 1, fname |-> "stdout"]
           c == [fid |-> 2, fname |-> "stderr"]
<1>1. a \in S /\ b \in S /\ c \in S /\ Std = <<a, b, c>>
  BY DEF Std
<1> HIDE DEF S, a, b, c
<1>2. Std \in Seq(S)
  BY <1>1
<1> QED
  BY <1>2 DEF S

(* Pages that are cleared as soon as they are allocated.                   *)
LEMMA CleanGrows ==
    ASSUME CleanInv, PoolInv', NEW use \in ReadByCpu, Cleared(use),
           \A u \in Uses : u # use => own'[u] = own[u]
    PROVE  CleanInv'
<1>1. ReadByCpu \subseteq Uses
  BY DEF ReadByCpu, Uses
<1>2. own'[use] \subseteq Pages
  BY <1>1 DEF PoolInv, Pages
<1>3. clean' \subseteq Pages
  BY <1>2 DEF CleanInv, Cleared
<1>4. ASSUME NEW u \in ReadByCpu PROVE own'[u] \subseteq clean'
  <2>1. own[u] \subseteq clean /\ own[use] \subseteq clean
    BY DEF CleanInv
  <2>2. CASE u = use
    BY <2>1, <2>2 DEF Cleared
  <2>3. CASE u # use
    BY <1>1, <2>1, <2>3 DEF Cleared
  <2> QED
    BY <2>2, <2>3
<1> QED
  BY <1>3, <1>4 DEF CleanInv, Pages

(* Pages of other uses, or none, are taken.                                *)
LEMMA CleanStays ==
    ASSUME CleanInv, clean' = clean \/ (\E u \in ReadByCpu : Cleared(u)),
           \A u \in ReadByCpu : own'[u] = own[u]
    PROVE  CleanInv'
BY DEF CleanInv, Cleared, Pages

-----------------------------------------------------------------------------
(* One lemma for every function of the boot.                               *)
LEMMA CreateInv == IndInv /\ vm_create => IndInv'
<1> SUFFICES ASSUME IndInv, vm_create PROVE IndInv'
  OBVIOUS
<1>1. /\ pc = "vm_create" /\ pc' = "initialize_fid2name_map" /\ why' = why /\ vm' = ZeroVm
      /\ UNCHANGED npt /\ UNCHANGED <<cpu, free, own, clean, cap, efer, hsave, vmcb>>
  BY DEF vm_create, pool, Then
<1>2. PoolInv'
  <2>1. UNCHANGED <<start, size>>
    BY <1>1 DEF npt
  <2> QED
    BY <1>1, <2>1, PoolStays DEF IndInv
<1>3. TablesInv'
  <2>1. NoTables /\ own["tables"] = {}
    BY <1>1 DEF IndInv, TablesInv, BeforeTables
  <2>2. NoTables' /\ ntables' = ntables
    BY <1>1, <2>1, NestedStays DEF npt
  <2> QED
    BY <1>1, <2>1, <2>2 DEF IndInv, TablesInv, BeforeTables
<1>4. PreparedInv'
  BY <1>1 DEF IndInv, PreparedInv, SvmEnabled, Pages
<1>5. VmInv'
  <2>1. ZeroVm \in VmType
    BY DEF ZeroVm, VmType
  <2> QED
    BY <1>1, <2>1 DEF VmInv, ZeroVm, BeforeTables
<1>6. VmcbInv' /\ CleanInv'
  BY <1>1, VmcbWaits, CleanStays DEF IndInv, BeforeVmcb, BeforeTables
<1> QED
  BY <1>2, <1>3, <1>4, <1>5, <1>6 DEF IndInv

(* The three standard files are named.                                     *)
LEMMA FilesInv == IndInv /\ initialize_fid2name_map => IndInv'
<1> SUFFICES ASSUME IndInv, initialize_fid2name_map PROVE IndInv'
  OBVIOUS
<1>1. /\ pc = "initialize_fid2name_map" /\ alloc_host_pages("fmap", 1, "initialize_syscallmap")
      /\ UNCHANGED npt /\ UNCHANGED <<cpu, clean, cap, efer, hsave, vmcb>>
  BY DEF initialize_fid2name_map
<1>2. /\ PoolInv' /\ TablesInv'
      /\ (pc' = "dead" /\ why' = "alloc_pages") \/ (pc' = "initialize_syscallmap" /\ why' = why)
      /\ own' = own \/ \A u \in Uses : u # "fmap" => own'[u] = own[u]
  <2>1. PoolInv /\ TablesInv /\ 1 \in Nat \ {0} /\ pc # "dead"
    BY <1>1 DEF IndInv
  <2>2. "fmap" \in Uses \ {"tables"} /\ (pc \in BeforeTables <=> "initialize_syscallmap" \in BeforeTables)
    BY <1>1 DEF Uses, BeforeTables
  <2> QED
    BY <1>1, <2>1, <2>2, TakesPages
<1>3. PreparedInv'
  BY <1>1, <1>2 DEF IndInv, PreparedInv, SvmEnabled, Pages
<1>4. VmInv'
  <2>1. VmInv /\ vm \in VmType
    BY <1>1 DEF IndInv, VmInv
  <2>2. PICK f \in {<<>>, Std} : vm' = [vm EXCEPT !.fmap = f] /\ (pc' # "dead" => f = Std)
    <3> DEFINE a == [fid |-> 0, fname |-> "stdin"]
               b == [fid |-> 1, fname |-> "stdout"]
               c == [fid |-> 2, fname |-> "stderr"]
               g == IF pc' = "dead" THEN <<>> ELSE Append(Append(Append(<<>>, a), b), c)
    <3>1. vm' = [vm EXCEPT !.fmap = g]
      BY DEF initialize_fid2name_map, vm_add_fileid2name_map
    <3>2. Std = <<a, b, c>>
      BY DEF Std
    <3>3. pc' # "dead" => g = Append(Append(Append(<<>>, a), b), c)
      OBVIOUS
    <3>4. pc' = "dead" => g = <<>>
      OBVIOUS
    <3> HIDE DEF a, b, c, g
    <3>5. pc' # "dead" => g = Std
      BY <3>2, <3>3
    <3> QED
      BY <3>1, <3>4, <3>5
  <2>3. f \in Seq([fid : 0 .. 2, fname : {"stdin", "stdout", "stderr"}])
    <3>1. \A S : <<>> \in Seq(S)
      OBVIOUS
    <3> QED
      BY <2>2, <3>1, StdType, Zenon
  <2> QED
    BY <1>1, <1>2, <2>1, <2>2, <2>3, VmNames DEF VmInv, BeforeTables
<1>5. VmcbInv' /\ CleanInv'
  <2>1. \A u \in ReadByCpu : own'[u] = own[u]
    BY <1>2 DEF ReadByCpu, Uses
  <2>2. own'["vmcb"] = own["vmcb"] /\ own'["iopm"] = own["iopm"] /\ own'["msrpm"] = own["msrpm"]
    BY <2>1 DEF ReadByCpu
  <2> QED
    BY <1>1, <1>2, <2>1, <2>2, VmcbWaits, CleanStays DEF IndInv, BeforeVmcb, BeforeTables
<1> QED
  BY <1>2, <1>3, <1>4, <1>5 DEF IndInv

(* The page of the table of waiting threads.                               *)
LEMMA SyscallsInv == IndInv /\ initialize_syscallmap => IndInv'
<1> SUFFICES ASSUME IndInv, initialize_syscallmap PROVE IndInv'
  OBVIOUS
<1>1. /\ pc = "initialize_syscallmap" /\ alloc_host_pages("syscallmap", 1, "initialize_ptracked_list")
      /\ UNCHANGED npt /\ UNCHANGED <<cpu, clean, cap, efer, hsave, vmcb>>
  BY DEF initialize_syscallmap
<1>2. /\ PoolInv' /\ TablesInv'
      /\ (pc' = "dead" /\ why' = "alloc_pages") \/ (pc' = "initialize_ptracked_list" /\ why' = why)
      /\ own' = own \/ \A u \in Uses : u # "syscallmap" => own'[u] = own[u]
  <2>1. PoolInv /\ TablesInv /\ 1 \in Nat \ {0} /\ pc # "dead"
    BY <1>1 DEF IndInv
  <2>2. "syscallmap" \in Uses \ {"tables"} /\ (pc \in BeforeTables <=> "initialize_ptracked_list" \in BeforeTables)
    BY <1>1 DEF Uses, BeforeTables
  <2> QED
    BY <1>1, <2>1, <2>2, TakesPages
<1>3. PreparedInv'
  BY <1>1, <1>2 DEF IndInv, PreparedInv, SvmEnabled, Pages
<1>4. VmInv'
  <2>1. VmInv /\ vm \in VmType
    BY <1>1 DEF IndInv, VmInv
  <2>2. vm' = vm
    BY <1>1, <2>1 DEF initialize_syscallmap, VmInv, VmType
  <2> QED
    BY <1>1, <1>2, <2>1, <2>2 DEF VmInv, BeforeTables
<1>5. VmcbInv' /\ CleanInv'
  <2>1. \A u \in ReadByCpu : own'[u] = own[u]
    BY <1>2 DEF ReadByCpu, Uses
  <2>2. own'["vmcb"] = own["vmcb"] /\ own'["iopm"] = own["iopm"] /\ own'["msrpm"] = own["msrpm"]
    BY <2>1 DEF ReadByCpu
  <2> QED
    BY <1>1, <1>2, <2>1, <2>2, VmcbWaits, CleanStays DEF IndInv, BeforeVmcb, BeforeTables
<1> QED
  BY <1>2, <1>3, <1>4, <1>5 DEF IndInv

(* The page of the list of tracked names.                                  *)
LEMMA TrackedInv == IndInv /\ initialize_ptracked_list => IndInv'
<1> SUFFICES ASSUME IndInv, initialize_ptracked_list PROVE IndInv'
  OBVIOUS
<1>1. /\ pc = "initialize_ptracked_list" /\ alloc_host_pages("ptracked", 1, "pml4_table_alloc")
      /\ UNCHANGED npt /\ UNCHANGED <<cpu, clean, cap, efer, hsave, vmcb>>
  BY DEF initialize_ptracked_list
<1>2. /\ PoolInv' /\ TablesInv'
      /\ (pc' = "dead" /\ why' = "alloc_pages") \/ (pc' = "pml4_table_alloc" /\ why' = why)
      /\ own' = own \/ \A u \in Uses : u # "ptracked" => own'[u] = own[u]
  <2>1. PoolInv /\ TablesInv /\ 1 \in Nat \ {0} /\ pc # "dead"
    BY <1>1 DEF IndInv
  <2>2. "ptracked" \in Uses \ {"tables"} /\ (pc \in BeforeTables <=> "pml4_table_alloc" \in BeforeTables)
    BY <1>1 DEF Uses, BeforeTables
  <2> QED
    BY <1>1, <2>1, <2>2, TakesPages
<1>3. PreparedInv'
  BY <1>1, <1>2 DEF IndInv, PreparedInv, SvmEnabled, Pages
<1>4. VmInv'
  <2>1. VmInv /\ vm \in VmType
    BY <1>1 DEF IndInv, VmInv
  <2>2. vm' = vm
    <3>1. vm.btrackcurrent = 0 /\ vm.ptracked = <<>>
      BY <1>1, <2>1 DEF VmInv
    <3>2. vm' = [vm EXCEPT !.btrackcurrent = vm.btrackcurrent, !.ptracked = vm.ptracked]
      BY <3>1 DEF initialize_ptracked_list
    <3> QED
      BY <2>1, <3>2 DEF VmType
  <2> QED
    BY <1>1, <1>2, <2>1, <2>2 DEF VmInv, BeforeTables
<1>5. VmcbInv' /\ CleanInv'
  <2>1. \A u \in ReadByCpu : own'[u] = own[u]
    BY <1>2 DEF ReadByCpu, Uses
  <2>2. own'["vmcb"] = own["vmcb"] /\ own'["iopm"] = own["iopm"] /\ own'["msrpm"] = own["msrpm"]
    BY <2>1 DEF ReadByCpu
  <2> QED
    BY <1>1, <1>2, <2>1, <2>2, VmcbWaits, CleanStays DEF IndInv, BeforeVmcb, BeforeTables
<1> QED
  BY <1>2, <1>3, <1>4, <1>5 DEF IndInv

(* The root is the first table, and it is empty.                           *)
LEMMA RootInv == IndInv /\ pml4_table_alloc => IndInv'
<1> SUFFICES ASSUME IndInv, pml4_table_alloc PROVE IndInv'
  OBVIOUS
<1>1. /\ pc = "pml4_table_alloc" /\ alloc_host_pages("tables", 1, "create_2mb_nested_pagetable")
      /\ ntables' = IF pc' = "dead" THEN ntables ELSE 1
      /\ vm' = [vm EXCEPT !.n_cr3 = IF pc' = "dead" THEN @ ELSE Lowest(1)]
      /\ UNCHANGED <<cpu, start, size, entries, i, cap, efer, hsave, vmcb>>
      /\ Cleared("tables")
  BY DEF pml4_table_alloc
<1>2. PoolInv /\ TablesInv /\ PreparedInv /\ "tables" \in Uses
  BY DEF IndInv, Uses
<1>3. NoTables /\ own["tables"] = {}
  BY <1>1, <1>2 DEF TablesInv, BeforeTables
<1>4. CASE pc' = "dead" /\ why' = "alloc_pages" /\ UNCHANGED <<free, own>>
  <2>1. PoolInv'
    BY <1>1, <1>2, <1>4, PoolStays
  <2>2. TablesInv'
    BY <1>1, <1>3, <1>4 DEF TablesInv, NoTables
  <2>3. PreparedInv'
    BY <1>1, <1>2, <1>4 DEF PreparedInv, SvmEnabled, Pages
  <2>4. VmInv'
    <3>1. VmInv /\ vm \in VmType
      BY <1>1 DEF IndInv, VmInv
    <3>2. vm' = [vm EXCEPT !.n_cr3 = vm.n_cr3]
      BY <1>1, <1>4
    <3>3. vm.n_cr3 \in Nat
      BY <3>1 DEF VmType
    <3> QED
      BY <1>1, <1>4, <3>1, <3>2, <3>3, VmRoot DEF VmInv, BeforeTables
  <2>5. VmcbInv' /\ CleanInv'
    BY <1>1, <1>4, <2>1, VmcbWaits, CleanStays DEF IndInv, BeforeVmcb, BeforeTables, Cleared
  <2> QED
    BY <2>1, <2>2, <2>3, <2>4, <2>5 DEF IndInv
<1>5. CASE /\ pc' = "create_2mb_nested_pagetable" /\ UNCHANGED why
           /\ Lowest(1) \in Nat /\ Run(Lowest(1), 1) \subseteq free
           /\ free' = free \ Run(Lowest(1), 1)
           /\ own' = [own EXCEPT !["tables"] = @ \cup Run(Lowest(1), 1)]
  <2>2. /\ PoolInv' /\ own'["tables"] = own["tables"] \cup Run(Lowest(1), 1)
        /\ \A u \in Uses : u # "tables" => own'[u] = own[u]
    BY <1>1, <1>2, <1>5, PoolMoves
  <2>1. own'["tables"] = {Lowest(1)}
    <3>1. Run(Lowest(1), 1) = {Lowest(1)}
      BY <1>5 DEF Run
    <3> QED
      BY <1>3, <2>2, <3>1
  <2>3. ntables' = 1 /\ Cardinality(own["tables"])' = 1
    BY <1>1, <1>5, <2>1, FS_Singleton
  <2>4. NP!IndInv'
    <3>1. DOMAIN entries' = {} /\ i' = 0
      BY <1>1, <1>3 DEF NoTables
    <3>2. \E lev, base : NP!WellFormed(entries', 1, lev, base, NP!Open(0)')
      BY <3>1, NestedSizes, NP!EmptyShape DEF NP!SizesAssumption
    <3>3. NP!Open(0)' = {}
      BY DEF NP!Open
    <3>4. i' \in 0 .. LoopPages /\ start' \in Nat /\ size' \in Nat \ {0}
      BY <1>1, <1>2, <3>1, SizesAssumption DEF PoolInv
    <3> QED
      BY <2>3, <3>1, <3>2, <3>3, <3>4
         DEF NP!IndInv, NP!WellFormed, NP!Tables, NP!Points, NP!Hung, NP!Digits, NP!Open
  <2>5. TablesInv'
    BY <1>5, <2>3, <2>4 DEF TablesInv, BeforeTables
  <2>6. PreparedInv'
    BY <1>1, <1>2, <1>5 DEF PreparedInv, SvmEnabled, Pages
  <2>7. VmInv'
    <3>1. VmInv /\ vm \in VmType
      BY <1>1 DEF IndInv, VmInv
    <3>2. vm' = [vm EXCEPT !.n_cr3 = Lowest(1)]
      BY <1>1, <1>5
    <3> QED
      BY <1>1, <1>5, <2>1, <3>1, <3>2, VmRoot DEF VmInv, BeforeTables
  <2>8. VmcbInv'
    BY <1>1, <1>5, <2>2, VmcbWaits DEF IndInv, BeforeVmcb, BeforeTables, Uses
  <2>9. CleanInv'
    BY <1>1, <2>2, CleanGrows DEF IndInv, ReadByCpu
  <2> QED
    BY <2>2, <2>5, <2>6, <2>7, <2>8, <2>9 DEF IndInv
<1>6. 1 \in Nat \ {0}
  OBVIOUS
<1>7. \/ pc' = "dead" /\ why' = "alloc_pages" /\ UNCHANGED <<free, own>>
      \/ /\ pc' = "create_2mb_nested_pagetable" /\ UNCHANGED why
         /\ Lowest(1) \in Nat /\ Run(Lowest(1), 1) \subseteq free
         /\ free' = free \ Run(Lowest(1), 1)
         /\ own' = [own EXCEPT !["tables"] = @ \cup Run(Lowest(1), 1)]
  BY <1>1, <1>2, <1>6, AllocEither
<1> QED
  BY <1>4, <1>5, <1>7

(* A round of the loop is a round of NestedMap, and the pages it takes are *)
(* as many as the tables it adds.                                          *)
LEMMA TablesGrow == IndInv /\ create_2mb_nested_pagetable => IndInv'
<1> SUFFICES ASSUME IndInv, create_2mb_nested_pagetable PROVE IndInv'
  OBVIOUS
<1> DEFINE k == ntables' - ntables
           new == TablePages(k)
<1>1. /\ pc = "create_2mb_nested_pagetable" /\ i < LoopPages
      /\ own' = [own EXCEPT !["tables"] = @ \cup new] /\ free' = free \ new
      /\ \/ Cardinality(new) < k /\ pc' = "dead" /\ why' = "alloc_pages"
         \/ /\ ~(Cardinality(new) < k) /\ why' = why
            /\ pc' \in {"early_identify_cpu", "create_2mb_nested_pagetable"}
      /\ UNCHANGED <<cpu, cap, efer, hsave, vm, vmcb>> /\ Cleared("tables")
  BY DEF create_2mb_nested_pagetable, fatal_failure, Then
<1>2. NP!create_2mb_nested_pagetable
  <2>1. Nested!create_2mb_nested_pagetable
    BY DEF create_2mb_nested_pagetable
  <2> QED
    BY <2>1 DEF Nested!create_2mb_nested_pagetable, NP!create_2mb_nested_pagetable,
                Nested!Hidden, NP!Hidden, Nested!mmap_pml4, NP!mmap_pml4, Nested!Descend, NP!Descend,
                Nested!SetEntry, NP!SetEntry, Nested!get_index_pae2mb, NP!get_index_pae2mb,
                Nested!vmm_pagestart, NP!vmm_pagestart, Nested!vmm_pageend, NP!vmm_pageend,
                Nested!PAGE_DOWN_2MB, NP!PAGE_DOWN_2MB, Nested!PAGE_UP_2MB, NP!PAGE_UP_2MB
<1>3. PoolInv /\ TablesInv /\ PreparedInv /\ "tables" \in Uses
  BY DEF IndInv, Uses
<1>4. NP!IndInv
  BY <1>1, <1>3 DEF TablesInv, BeforeTables
<1>5. NP!IndInv'
  BY <1>2, <1>4, NestedSizes, NP!LoopInv DEF NP!SizesAssumption
<1>6. ntables \in Nat \ {0} /\ ntables' \in {ntables, ntables + 1, ntables + 2}
  BY <1>2, <1>4, NestedSizes, NP!LoopGrows DEF NP!SizesAssumption
<1>7. k \in Nat
  <2>1. \A a \in Nat : \A b \in {a, a + 1, a + 2} : b - a \in Nat
    OBVIOUS
  <2>2. ntables \in Nat
    BY <1>6
  <2> QED
    BY <1>6, <2>1, <2>2, Zenon
<1>8. UNCHANGED <<start, size>>
  BY <1>2 DEF NP!create_2mb_nested_pagetable
<1>9. new \subseteq free
  BY DEF TablePages, Runs
<1>10. PoolInv' /\ own'["tables"] = own["tables"] \cup new /\ \A u \in Uses : u # "tables" => own'[u] = own[u]
  <2> HIDE DEF new
  <2> QED
    BY <1>1, <1>3, <1>8, <1>9, PoolMoves
<1>11. Cardinality(own["tables"])' = ntables' \/ why' = "alloc_pages"
  <2>1. SUFFICES ASSUME why' = why, ~(Cardinality(new) < k), Cardinality(own["tables"]) = ntables
                 PROVE  Cardinality(own'["tables"]) = ntables'
    BY <1>1, <1>3 DEF TablesInv
  <2>2. IsFiniteSet(Pages) /\ MaxPage \in Nat
    BY SizesAssumption, FS_Interval DEF Pages
  <2>3. own["tables"] \subseteq Pages /\ free \subseteq Pages /\ own["tables"] \cap free = {}
    BY <1>3 DEF PoolInv
  <2>4. new \subseteq Pages /\ own["tables"] \cap new = {}
    BY <1>9, <2>3
  <2>5. IsFiniteSet(new) /\ IsFiniteSet(own["tables"]) /\ Cardinality(new) \in Nat
    <3> HIDE DEF new
    <3> QED
      BY <2>2, <2>3, <2>4, FS_Subset, FS_CardinalityType
  <2>6. Cardinality(new) <= k
    <3> DEFINE S == Runs(1)
    <3>1. S \in SUBSET (0 .. MaxPage)
      <4>1. S \subseteq Pages
        BY <2>3 DEF Runs
      <4>2. Pages \subseteq 0 .. MaxPage
        BY <2>2 DEF Pages
      <4> QED
        BY <4>1, <4>2
    <3>2. new = {p \in S : Cardinality({q \in S : q < p}) < k}
      BY DEF TablePages
    <3> HIDE DEF new, k, S
    <3> QED
      BY <1>7, <2>2, <3>1, <3>2, LowestFew
  <2>7. Cardinality(own["tables"] \cup new) = Cardinality(own["tables"]) + Cardinality(new)
    <3> HIDE DEF new
    <3>1. Cardinality(own["tables"] \cup new) =
             Cardinality(own["tables"]) + Cardinality(new) - Cardinality(own["tables"] \cap new)
      BY <2>5, FS_Union
    <3>2. Cardinality(own["tables"] \cap new) = 0
      BY <2>4, FS_EmptySet
    <3>3. Cardinality(own["tables"]) \in Nat
      BY <1>6, <2>1
    <3> QED
      BY <2>5, <3>1, <3>2, <3>3
  <2> HIDE DEF new
  <2> QED
    BY <1>6, <1>10, <2>1, <2>5, <2>6, <2>7
<1>12. TablesInv'
  BY <1>1, <1>5, <1>6, <1>11 DEF TablesInv, BeforeTables
<1>13. PreparedInv'
  <2> HIDE DEF new, k
  <2> QED
    BY <1>1, <1>3 DEF PreparedInv, SvmEnabled, Pages
<1>14. VmInv' /\ VmcbInv' /\ CleanInv'
  <2> HIDE DEF new, k
  <2>1. VmInv'
    BY <1>1, <1>10, VmStays DEF IndInv, BeforeTables
  <2>2. VmcbInv'
    BY <1>1, <1>10, VmcbWaits DEF IndInv, BeforeVmcb, BeforeTables, Uses
  <2>3. CleanInv'
    BY <1>1, <1>10, CleanGrows DEF IndInv, ReadByCpu
  <2> QED
    BY <2>1, <2>2, <2>3
<1> QED
  BY <1>10, <1>12, <1>13, <1>14 DEF IndInv

(* The vendor decides which of the two back ends is initialised.           *)
LEMMA IdentifyInv == IndInv /\ early_identify_cpu => IndInv'
<1> SUFFICES ASSUME IndInv, early_identify_cpu PROVE IndInv'
  OBVIOUS
<1>1. /\ pc = "early_identify_cpu"
      /\ cap' = [cap EXCEPT ![4] = IF cpu.std1 THEN cpu.ecx1 ELSE {},
                            ![6] = IF cpu.ext1 THEN cpu.ecx81 ELSE {}]
      /\ \/ pc' = "enable_svm" /\ why' = why /\ cpu.vendor = "AuthenticAMD"
         \/ pc' = "enable_vmx" /\ why' = why
         \/ pc' = "dead" /\ why' = "vendor"
      /\ UNCHANGED npt /\ UNCHANGED <<free, own>>
      /\ UNCHANGED <<cpu, clean, efer, hsave, vm, vmcb>>
  BY DEF early_identify_cpu, pool, fatal_failure, Then
<1>2. PoolInv' /\ TablesInv'
  BY <1>1, Untouched DEF BeforeTables
<1>3. cap \in [4 .. 6 -> SUBSET {"VMX", "SVM"}] /\ cpu.ecx1 \subseteq {"VMX", "SVM"} /\ cpu.ecx81 \subseteq {"VMX", "SVM"}
  BY CpusAssumption DEF IndInv, PreparedInv
<1>4. /\ cap' \in [4 .. 6 -> SUBSET {"VMX", "SVM"}]
      /\ cap'[6] = IF cpu.ext1 THEN cpu.ecx81 ELSE {}
  BY <1>1, <1>3
<1>5. PreparedInv'
  BY <1>1, <1>4 DEF IndInv, PreparedInv, SvmEnabled, Pages
<1>6. VmInv' /\ VmcbInv' /\ CleanInv'
  BY <1>1, VmStays, VmcbWaits, CleanStays DEF IndInv, BeforeVmcb, BeforeTables
<1> QED
  BY <1>2, <1>5, <1>6 DEF IndInv

(* SVM is enabled only where the processor has it, nested paging included. *)
LEMMA SvmInv == IndInv /\ enable_svm => IndInv'
<1> SUFFICES ASSUME IndInv, enable_svm PROVE IndInv'
  OBVIOUS
<1>1. /\ pc = "enable_svm" /\ cap' = [cap EXCEPT ![5] = cpu.ecx81] /\ UNCHANGED npt
      /\ UNCHANGED <<cpu, vm, vmcb>>
  BY DEF enable_svm
<1>2. /\ cap \in [4 .. 6 -> SUBSET {"VMX", "SVM"}] /\ cpu.ecx81 \subseteq {"VMX", "SVM"}
      /\ cpu.vendor = "AuthenticAMD" /\ cap[6] = IF cpu.ext1 THEN cpu.ecx81 ELSE {}
  BY <1>1, CpusAssumption DEF IndInv, PreparedInv
<1>3. cap' \in [4 .. 6 -> SUBSET {"VMX", "SVM"}] /\ cap'[6] = cap[6]
  BY <1>1, <1>2
<1>4. CASE pc' = "dead" /\ why' \in {"svm", "npt"} /\ UNCHANGED <<efer, hsave, pool, clean>>
  <2>1. PoolInv' /\ TablesInv'
    BY <1>1, <1>4, Untouched DEF BeforeTables, pool
  <2>2. PreparedInv'
    BY <1>1, <1>3, <1>4 DEF IndInv, PreparedInv, SvmEnabled, Pages
  <2>3. VmInv' /\ VmcbInv' /\ CleanInv'
    BY <1>1, <1>4, VmStays, VmcbWaits, CleanStays DEF IndInv, BeforeVmcb, BeforeTables, pool
  <2> QED
    BY <2>1, <2>2, <2>3 DEF IndInv
<1>5. CASE /\ "SVM" \in cap'[6] /\ cpu.npt /\ efer' = efer \cup {"SVME"}
           /\ alloc_host_pages("hsa", 1, "alloc_vmcb") /\ Cleared("hsa")
           /\ hsave' = IF pc' = "dead" THEN hsave ELSE own'["hsa"]
  <2>1. PoolInv /\ TablesInv /\ 1 \in Nat \ {0} /\ pc # "dead"
    BY <1>1 DEF IndInv
  <2>2. "hsa" \in Uses \ {"tables"} /\ (pc \in BeforeTables <=> "alloc_vmcb" \in BeforeTables)
    BY <1>1 DEF Uses, BeforeTables
  <2>3. /\ PoolInv' /\ TablesInv'
        /\ (pc' = "dead" /\ why' = "alloc_pages") \/ (pc' = "alloc_vmcb" /\ why' = why /\ own'["hsa"] # {})
        /\ \A u \in Uses : u # "hsa" => own'[u] = own[u]
    BY <1>1, <1>5, <2>1, <2>2, TakesPages
  <2>4. own'["hsa"] \subseteq Pages
    BY <2>2, <2>3 DEF PoolInv, Pages
  <2>5. "SVM" \in cpu.ecx81
    BY <1>2, <1>3, <1>5
  <2>6. PreparedInv'
    BY <1>1, <1>2, <1>3, <1>5, <2>3, <2>4, <2>5 DEF IndInv, PreparedInv, SvmEnabled, Pages
  <2>7. VmInv'
    BY <1>1, <2>3, VmStays DEF IndInv, BeforeTables, Uses
  <2>8. VmcbInv'
    BY <1>1, <2>3, VmcbWaits DEF IndInv, BeforeVmcb, BeforeTables, Uses
  <2>9. CleanInv'
    BY <1>5, <2>3, CleanGrows DEF IndInv, ReadByCpu
  <2> QED
    BY <2>3, <2>6, <2>7, <2>8, <2>9 DEF IndInv
<1> QED
  BY <1>4, <1>5 DEF enable_svm, fatal_failure

(* No Intel processor gets beyond the test for EPT.                        *)
LEMMA VmxInv == IndInv /\ enable_vmx => IndInv'
<1> SUFFICES ASSUME IndInv, enable_vmx PROVE IndInv'
  OBVIOUS
<1>1. "EPT" \notin vmx_secondary_exec_control
  BY CpusAssumption DEF IndInv, PreparedInv, vmx_secondary_exec_control
<1>2. /\ pc = "enable_vmx" /\ cap' = [cap EXCEPT ![5] = cpu.ecx1]
      /\ pc' = "dead" /\ why' \in {"vmx", "ept"}
      /\ UNCHANGED npt /\ UNCHANGED <<free, own>>
      /\ UNCHANGED <<cpu, clean, efer, hsave, vm, vmcb>>
  BY <1>1 DEF enable_vmx, pool, fatal_failure
<1>3. PoolInv' /\ TablesInv'
  BY <1>2, Untouched DEF BeforeTables
<1>4. cap \in [4 .. 6 -> SUBSET {"VMX", "SVM"}] /\ cpu.ecx1 \subseteq {"VMX", "SVM"}
  BY CpusAssumption DEF IndInv, PreparedInv
<1>5. cap' \in [4 .. 6 -> SUBSET {"VMX", "SVM"}]
  BY <1>2, <1>4
<1>6. PreparedInv'
  BY <1>2, <1>5 DEF IndInv, PreparedInv, SvmEnabled, Pages
<1>7. VmInv' /\ VmcbInv' /\ CleanInv'
  BY <1>2, VmStays, VmcbWaits, CleanStays DEF IndInv, BeforeVmcb, BeforeTables
<1> QED
  BY <1>3, <1>6, <1>7 DEF IndInv

(* The vmcb starts cleared.                                                *)
LEMMA VmcbAllocInv == IndInv /\ alloc_vmcb => IndInv'
<1> SUFFICES ASSUME IndInv, alloc_vmcb PROVE IndInv'
  OBVIOUS
<1>1. /\ pc = "alloc_vmcb" /\ alloc_host_pages("vmcb", 1, "set_control_params")
      /\ Cleared("vmcb") /\ UNCHANGED npt /\ UNCHANGED <<cpu, cap, efer, hsave, vm>>
      /\ vmcb' = IF pc' = "dead" THEN vmcb ELSE [Zero EXCEPT !.ncr3 = vm.n_cr3]
  BY DEF alloc_vmcb
<1>2. PoolInv /\ TablesInv /\ 1 \in Nat \ {0} /\ pc # "dead"
  BY <1>1 DEF IndInv
<1>3. "vmcb" \in Uses \ {"tables"} /\ (pc \in BeforeTables <=> "set_control_params" \in BeforeTables)
  BY <1>1 DEF Uses, BeforeTables
<1>4. /\ PoolInv' /\ TablesInv' /\ \A u \in Uses : u # "vmcb" => own'[u] = own[u]
      /\ \/ pc' = "dead" /\ why' = "alloc_pages" /\ own' = own
         \/ /\ pc' = "set_control_params" /\ why' = why
            /\ Lowest(1) \in Nat /\ own'["vmcb"] = own["vmcb"] \cup Run(Lowest(1), 1)
  BY <1>1, <1>2, <1>3, TakesPages
<1>5. \A u \in {"tables", "hsa", "vmcb", "iopm", "msrpm"} \ {"vmcb"} : own'[u] = own[u]
  BY <1>4 DEF Uses
<1>6. PreparedInv'
  BY <1>1, <1>4, <1>5 DEF IndInv, PreparedInv, SvmEnabled, Pages
<1>7. VmInv'
  BY <1>1, <1>4, <1>5, VmStays DEF IndInv, BeforeTables
<1>8. CleanInv'
  BY <1>1, <1>4, CleanGrows DEF IndInv, ReadByCpu
<1>9. vm.n_cr3 \in Nat /\ VmcbInv
  <2>1. vm \in VmType /\ VmcbInv
    BY <1>1 DEF IndInv, VmInv
  <2> QED
    BY <2>1 DEF VmType
<1>10. VmcbInv'
  <2>1. own["vmcb"] = {} /\ own["iopm"] = {} /\ own["msrpm"] = {}
    BY <1>1, <1>9 DEF VmcbInv, BeforeVmcb, BeforeIopm, BeforeMsrpm
  <2>2. own'["iopm"] = {} /\ own'["msrpm"] = {}
    BY <1>5, <2>1
  <2>3. CASE pc' = "dead" /\ own' = own
    BY <1>1, <2>1, <2>3 DEF VmcbInv, BeforeVmcb, BeforeIopm, BeforeMsrpm, BeforeTables
  <2>4. CASE pc' = "set_control_params"
    <3>1. vmcb' = [Zero EXCEPT !.ncr3 = vm.n_cr3]
      BY <1>1, <2>4
    <3>2. Zero \in VmcbType
      BY DEF Zero, VmcbType
    <3>3. vmcb' \in VmcbType
      BY <1>9, <3>1, <3>2 DEF VmcbType
    <3>4. /\ vmcb'.ncr3 = vm'.n_cr3 /\ vmcb'.cr4 = {} /\ vmcb'.dr6 = {} /\ vmcb'.dr7 = {}
          /\ vmcb'.intercepts = {} /\ vmcb'.eventinj = "NONE"
      BY <1>1, <3>1 DEF Zero
    <3> QED
      BY <2>2, <2>4, <3>3, <3>4 DEF VmcbInv, BeforeVmcb, BeforeIopm, BeforeMsrpm, BeforeTables
  <2> QED
    BY <1>4, <2>3, <2>4
<1> QED
  BY <1>4, <1>6, <1>7, <1>8, <1>10 DEF IndInv

(* The controls are written, whatever the base of the map is.              *)
LEMMA ControlsWritten ==
    ASSUME vmcb \in VmcbType, NEW io \in Nat,
           vmcb' = [vmcb EXCEPT !.np = 1, !.asid = 1, !.general2 = {"VMRUN", "VMMCALL"}, !.iopm = io]
    PROVE  /\ vmcb' \in VmcbType /\ vmcb'.np = 1 /\ vmcb'.asid = 1
           /\ vmcb'.general2 = {"VMRUN", "VMMCALL"} /\ vmcb'.iopm = io
           /\ vmcb'.ncr3 = vmcb.ncr3 /\ vmcb'.cr4 = vmcb.cr4 /\ vmcb'.dr6 = vmcb.dr6
           /\ vmcb'.dr7 = vmcb.dr7 /\ vmcb'.intercepts = vmcb.intercepts
           /\ vmcb'.eventinj = vmcb.eventinj
<1>1. vmcb' = [efer |-> vmcb.efer, cr0 |-> vmcb.cr0, cr4 |-> vmcb.cr4, dr6 |-> vmcb.dr6,
               dr7 |-> vmcb.dr7, cs |-> vmcb.cs, rflags |-> vmcb.rflags,
               intercepts |-> vmcb.intercepts, general2 |-> {"VMRUN", "VMMCALL"},
               eventinj |-> vmcb.eventinj, np |-> 1, asid |-> 1, ncr3 |-> vmcb.ncr3, iopm |-> io,
               msrpm |-> vmcb.msrpm]
  BY DEF VmcbType
<1> QED
  BY <1>1 DEF VmcbType

(* The intercepts that hold from the first VMRUN on, and the map of ports. *)
LEMMA ControlInv == IndInv /\ set_control_params => IndInv'
<1> SUFFICES ASSUME IndInv, set_control_params PROVE IndInv'
  OBVIOUS
<1>1. /\ pc = "set_control_params" /\ alloc_host_pages("iopm", 3, "msrpm")
      /\ Cleared("iopm") /\ UNCHANGED npt /\ UNCHANGED <<cpu, cap, efer, hsave, vm>>
      /\ vmcb' = [vmcb EXCEPT !.np = 1, !.asid = 1, !.general2 = {"VMRUN", "VMMCALL"},
                              !.iopm = IF pc' = "dead" THEN @ ELSE Lowest(3)]
  BY DEF set_control_params
<1>2. PoolInv /\ TablesInv /\ 3 \in Nat \ {0} /\ pc # "dead"
  BY <1>1 DEF IndInv
<1>3. "iopm" \in Uses \ {"tables"} /\ (pc \in BeforeTables <=> "msrpm" \in BeforeTables)
  BY <1>1 DEF Uses, BeforeTables
<1>4. /\ PoolInv' /\ TablesInv' /\ \A u \in Uses : u # "iopm" => own'[u] = own[u]
      /\ \/ pc' = "dead" /\ why' = "alloc_pages" /\ own' = own
         \/ /\ pc' = "msrpm" /\ why' = why
            /\ Lowest(3) \in Nat /\ own'["iopm"] = own["iopm"] \cup Run(Lowest(3), 3)
  BY <1>1, <1>2, <1>3, TakesPages
<1>5. \A u \in {"tables", "hsa", "vmcb", "iopm", "msrpm"} \ {"iopm"} : own'[u] = own[u]
  BY <1>4 DEF Uses
<1>6. PreparedInv'
  BY <1>1, <1>4, <1>5 DEF IndInv, PreparedInv, SvmEnabled, Pages
<1>7. VmInv'
  BY <1>1, <1>4, <1>5, VmStays DEF IndInv, BeforeTables
<1>8. CleanInv'
  BY <1>1, <1>4, CleanGrows DEF IndInv, ReadByCpu
<1>9. vm.n_cr3 \in Nat /\ VmcbInv
  <2>1. vm \in VmType /\ VmcbInv
    BY <1>1 DEF IndInv, VmInv
  <2> QED
    BY <2>1 DEF VmType
<1>10. VmcbInv'
  <2>1. /\ own["iopm"] = {} /\ own["msrpm"] = {}
        /\ vmcb \in VmcbType /\ vmcb.ncr3 = vm.n_cr3
        /\ vmcb.cr4 = {} /\ vmcb.dr6 = {} /\ vmcb.dr7 = {}
        /\ vmcb.intercepts = {} /\ vmcb.eventinj = "NONE"
    BY <1>1, <1>9 DEF VmcbInv, BeforeVmcb, BeforeIopm, BeforeMsrpm, BeforeTables
  <2>2. own'["msrpm"] = {}
    BY <1>5, <2>1
  <2>3. CASE pc' = "dead" /\ own' = own
    <3>1. vmcb' = [vmcb EXCEPT !.np = 1, !.asid = 1, !.general2 = {"VMRUN", "VMMCALL"}, !.iopm = vmcb.iopm]
      BY <1>1, <2>3
    <3>2. vmcb.iopm \in Nat
      BY <2>1 DEF VmcbType
    <3>3. vmcb' \in VmcbType
      BY <2>1, <3>1, <3>2, ControlsWritten
    <3> QED
      BY <2>3, <3>3 DEF VmcbInv, BeforeVmcb, BeforeIopm, BeforeMsrpm, BeforeTables
  <2>4. CASE pc' = "msrpm" /\ Lowest(3) \in Nat /\ own'["iopm"] = own["iopm"] \cup Run(Lowest(3), 3)
    <3>1. vmcb' = [vmcb EXCEPT !.np = 1, !.asid = 1, !.general2 = {"VMRUN", "VMMCALL"}, !.iopm = Lowest(3)]
      BY <1>1, <2>4
    <3>2. /\ vmcb' \in VmcbType /\ vmcb'.np = 1 /\ vmcb'.asid = 1
          /\ vmcb'.general2 = {"VMRUN", "VMMCALL"} /\ vmcb'.iopm = Lowest(3)
          /\ vmcb'.ncr3 = vm.n_cr3 /\ vmcb'.cr4 = {} /\ vmcb'.dr6 = {} /\ vmcb'.dr7 = {}
          /\ vmcb'.intercepts = {} /\ vmcb'.eventinj = "NONE"
      BY <2>1, <2>4, <3>1, ControlsWritten
    <3>3. own'["iopm"] = Run(vmcb'.iopm, 3)
      BY <2>1, <2>4, <3>2
    <3> QED
      BY <1>1, <2>2, <2>4, <3>2, <3>3 DEF VmcbInv, BeforeVmcb, BeforeIopm, BeforeMsrpm, BeforeTables, Run
  <2> QED
    BY <1>4, <2>3, <2>4
<1> QED
  BY <1>4, <1>6, <1>7, <1>8, <1>10 DEF IndInv

(* The base of the MSR map is written and nothing else.                    *)
LEMMA MsrpmWritten ==
    ASSUME vmcb \in VmcbType, NEW msr \in Nat, vmcb' = [vmcb EXCEPT !.msrpm = msr]
    PROVE  /\ vmcb' \in VmcbType /\ vmcb'.msrpm = msr /\ vmcb'.iopm = vmcb.iopm
           /\ vmcb'.np = vmcb.np /\ vmcb'.asid = vmcb.asid /\ vmcb'.general2 = vmcb.general2
           /\ vmcb'.ncr3 = vmcb.ncr3 /\ vmcb'.cr4 = vmcb.cr4 /\ vmcb'.dr6 = vmcb.dr6
           /\ vmcb'.dr7 = vmcb.dr7 /\ vmcb'.intercepts = vmcb.intercepts
           /\ vmcb'.eventinj = vmcb.eventinj
BY DEF VmcbType

(* The permission map of the MSRs.                                         *)
LEMMA MsrpmInv == IndInv /\ create_msr_intercept_table => IndInv'
<1> SUFFICES ASSUME IndInv, create_msr_intercept_table PROVE IndInv'
  OBVIOUS
<1>1. /\ pc = "msrpm" /\ alloc_host_pages("msrpm", 2, "set_vm_to_mbr_start_state")
      /\ Cleared("msrpm") /\ UNCHANGED npt /\ UNCHANGED <<cpu, cap, efer, hsave, vm>>
      /\ vmcb' = [vmcb EXCEPT !.msrpm = IF pc' = "dead" THEN @ ELSE Lowest(2)]
  BY DEF create_msr_intercept_table
<1>2. PoolInv /\ TablesInv /\ 2 \in Nat \ {0} /\ pc # "dead"
  BY <1>1 DEF IndInv
<1>3. "msrpm" \in Uses \ {"tables"} /\ (pc \in BeforeTables <=> "set_vm_to_mbr_start_state" \in BeforeTables)
  BY <1>1 DEF Uses, BeforeTables
<1>4. /\ PoolInv' /\ TablesInv' /\ \A u \in Uses : u # "msrpm" => own'[u] = own[u]
      /\ \/ pc' = "dead" /\ why' = "alloc_pages" /\ own' = own
         \/ /\ pc' = "set_vm_to_mbr_start_state" /\ why' = why
            /\ Lowest(2) \in Nat /\ own'["msrpm"] = own["msrpm"] \cup Run(Lowest(2), 2)
  BY <1>1, <1>2, <1>3, TakesPages
<1>5. \A u \in {"tables", "hsa", "vmcb", "iopm", "msrpm"} \ {"msrpm"} : own'[u] = own[u]
  BY <1>4 DEF Uses
<1>6. PreparedInv'
  BY <1>1, <1>4, <1>5 DEF IndInv, PreparedInv, SvmEnabled, Pages
<1>7. VmInv'
  BY <1>1, <1>4, <1>5, VmStays DEF IndInv, BeforeTables
<1>8. CleanInv'
  BY <1>1, <1>4, CleanGrows DEF IndInv, ReadByCpu
<1>9. vm.n_cr3 \in Nat /\ VmcbInv
  <2>1. vm \in VmType /\ VmcbInv
    BY <1>1 DEF IndInv, VmInv
  <2> QED
    BY <2>1 DEF VmType
<1>10. VmcbInv'
  <2>1. /\ own["msrpm"] = {} /\ own["iopm"] = Run(vmcb.iopm, 3)
        /\ vmcb \in VmcbType /\ vmcb.ncr3 = vm.n_cr3
        /\ vmcb.cr4 = {} /\ vmcb.dr6 = {} /\ vmcb.dr7 = {}
        /\ vmcb.intercepts = {} /\ vmcb.eventinj = "NONE"
        /\ vmcb.np = 1 /\ vmcb.asid = 1 /\ vmcb.general2 = {"VMRUN", "VMMCALL"}
    BY <1>1, <1>9 DEF VmcbInv, BeforeVmcb, BeforeIopm, BeforeMsrpm, BeforeTables
  <2>2. own'["iopm"] = own["iopm"]
    BY <1>5
  <2>3. CASE pc' = "dead" /\ own' = own
    <3>1. vmcb' = [vmcb EXCEPT !.msrpm = vmcb.msrpm]
      BY <1>1, <2>3
    <3>2. vmcb' \in VmcbType
      BY <2>1, <3>1 DEF VmcbType
    <3> QED
      BY <2>3, <3>2 DEF VmcbInv, BeforeVmcb, BeforeIopm, BeforeMsrpm, BeforeTables
  <2>4. CASE /\ pc' = "set_vm_to_mbr_start_state" /\ Lowest(2) \in Nat
             /\ own'["msrpm"] = own["msrpm"] \cup Run(Lowest(2), 2)
    <3>1. vmcb' = [vmcb EXCEPT !.msrpm = Lowest(2)]
      BY <1>1, <2>4
    <3>2. /\ vmcb' \in VmcbType /\ vmcb'.np = 1 /\ vmcb'.asid = 1
          /\ vmcb'.general2 = {"VMRUN", "VMMCALL"} /\ vmcb'.iopm = vmcb.iopm
          /\ vmcb'.msrpm = Lowest(2)
          /\ vmcb'.ncr3 = vm.n_cr3 /\ vmcb'.cr4 = {} /\ vmcb'.dr6 = {} /\ vmcb'.dr7 = {}
          /\ vmcb'.intercepts = {} /\ vmcb'.eventinj = "NONE"
      BY <2>1, <2>4, <3>1, MsrpmWritten
    <3>3. own'["iopm"] = Run(vmcb'.iopm, 3) /\ own'["msrpm"] = Run(vmcb'.msrpm, 2)
      BY <2>1, <2>2, <2>4, <3>2
    <3> QED
      BY <1>1, <2>4, <3>2, <3>3 DEF VmcbInv, BeforeVmcb, BeforeIopm, BeforeMsrpm, BeforeTables, Run
  <2> QED
    BY <1>4, <2>3, <2>4
<1> QED
  BY <1>4, <1>6, <1>7, <1>8, <1>10 DEF IndInv

(* The registers of the start state are written and nothing else.          *)
LEMMA MbrWritten ==
    ASSUME vmcb \in VmcbType,
           vmcb' = [vmcb EXCEPT !.efer = {"SVME"}, !.cr0 = {"ET"}, !.cs = {},
                                !.rflags = {"PF", "IF", "IOPL"}]
    PROVE  /\ vmcb' \in VmcbType /\ vmcb'.msrpm = vmcb.msrpm /\ vmcb'.iopm = vmcb.iopm
           /\ vmcb'.np = vmcb.np /\ vmcb'.asid = vmcb.asid /\ vmcb'.general2 = vmcb.general2
           /\ vmcb'.ncr3 = vmcb.ncr3 /\ vmcb'.cr4 = vmcb.cr4 /\ vmcb'.dr6 = vmcb.dr6
           /\ vmcb'.dr7 = vmcb.dr7 /\ vmcb'.intercepts = vmcb.intercepts
           /\ vmcb'.eventinj = vmcb.eventinj
           /\ vmcb'.efer = {"SVME"} /\ vmcb'.cr0 = {"ET"} /\ vmcb'.rflags = {"PF", "IF", "IOPL"}
<1>1. vmcb' = [efer |-> {"SVME"}, cr0 |-> {"ET"}, cr4 |-> vmcb.cr4, dr6 |-> vmcb.dr6,
               dr7 |-> vmcb.dr7, cs |-> {}, rflags |-> {"PF", "IF", "IOPL"},
               intercepts |-> vmcb.intercepts, general2 |-> vmcb.general2,
               eventinj |-> vmcb.eventinj, np |-> vmcb.np, asid |-> vmcb.asid,
               ncr3 |-> vmcb.ncr3, iopm |-> vmcb.iopm, msrpm |-> vmcb.msrpm]
  BY DEF VmcbType
<1> QED
  BY <1>1 DEF VmcbType

(* The state of the guest at 0x7c00.                                       *)
LEMMA MbrInv == IndInv /\ set_vm_to_mbr_start_state => IndInv'
<1> SUFFICES ASSUME IndInv, set_vm_to_mbr_start_state PROVE IndInv'
  OBVIOUS
<1>1. /\ pc = "set_vm_to_mbr_start_state" /\ pc' = "run" /\ why' = why
      /\ vmcb' = [vmcb EXCEPT !.efer = {"SVME"}, !.cr0 = {"ET"}, !.cs = {},
                              !.rflags = {"PF", "IF", "IOPL"}]
      /\ vm' = [vm EXCEPT !.handlers = {"vm_run", "vm_exit"}]
      /\ UNCHANGED npt /\ UNCHANGED <<cpu, free, own, clean, cap, efer, hsave>>
  BY DEF set_vm_to_mbr_start_state, pool, Then
<1>2. PoolInv' /\ TablesInv'
  BY <1>1, Untouched DEF BeforeTables
<1>3. PreparedInv'
  BY <1>1 DEF IndInv, PreparedInv, SvmEnabled, Pages
<1>4. VmInv /\ vm \in VmType
  BY <1>1 DEF IndInv, VmInv
<1>5. VmInv' /\ vm'.n_cr3 = vm.n_cr3
  BY <1>1, <1>4, VmHandlers DEF VmInv, BeforeTables
<1>6. VmcbInv'
  <2>1. /\ own["iopm"] = Run(vmcb.iopm, 3) /\ own["msrpm"] = Run(vmcb.msrpm, 2)
        /\ vmcb \in VmcbType /\ vmcb.ncr3 = vm.n_cr3
        /\ vmcb.cr4 = {} /\ vmcb.dr6 = {} /\ vmcb.dr7 = {}
        /\ vmcb.intercepts = {} /\ vmcb.eventinj = "NONE"
        /\ vmcb.np = 1 /\ vmcb.asid = 1 /\ vmcb.general2 = {"VMRUN", "VMMCALL"}
    BY <1>1 DEF IndInv, VmcbInv, BeforeVmcb, BeforeIopm, BeforeMsrpm, BeforeTables
  <2>2. /\ vmcb' \in VmcbType /\ vmcb'.msrpm = vmcb.msrpm /\ vmcb'.iopm = vmcb.iopm
        /\ vmcb'.np = 1 /\ vmcb'.asid = 1 /\ vmcb'.general2 = {"VMRUN", "VMMCALL"}
        /\ vmcb'.ncr3 = vm'.n_cr3 /\ vmcb'.cr4 = {} /\ vmcb'.dr6 = {} /\ vmcb'.dr7 = {}
        /\ vmcb'.intercepts = {} /\ vmcb'.eventinj = "NONE"
        /\ vmcb'.efer = {"SVME"} /\ vmcb'.cr0 = {"ET"} /\ vmcb'.rflags = {"PF", "IF", "IOPL"}
    BY <1>1, <1>5, <2>1, MbrWritten
  <2>3. own'["iopm"] = Run(vmcb'.iopm, 3) /\ own'["msrpm"] = Run(vmcb'.msrpm, 2)
    BY <1>1, <2>1, <2>2
  <2> QED
    BY <1>1, <2>2, <2>3 DEF VmcbInv, BeforeVmcb, BeforeIopm, BeforeMsrpm, BeforeTables, Run
<1>7. CleanInv'
  BY <1>1, CleanStays DEF IndInv
<1> QED
  BY <1>2, <1>3, <1>5, <1>6, <1>7 DEF IndInv

(* A step that changes nothing.                                            *)
LEMMA StutterInv == IndInv /\ UNCHANGED vars => IndInv'
<1> SUFFICES ASSUME IndInv, UNCHANGED vars PROVE IndInv'
  OBVIOUS
<1>1. /\ UNCHANGED npt
      /\ UNCHANGED <<pc, why, cpu, free, own, clean, cap, efer, hsave, vm, vmcb>>
  BY DEF vars, pool
<1>2. UNCHANGED <<start, size, ntables>>
  BY <1>1 DEF npt
<1>3. PoolInv'
  BY <1>1, <1>2, PoolStays DEF IndInv
<1>4. (NP!IndInv => NP!IndInv') /\ (NoTables => NoTables')
  BY <1>1, NestedStays
<1>5. TablesInv'
  BY <1>1, <1>2, <1>4 DEF IndInv, TablesInv
<1>6. PreparedInv' /\ VmInv'
  BY <1>1 DEF IndInv, PreparedInv, VmInv, Pages
<1>7. VmcbInv' /\ CleanInv'
  BY <1>1 DEF IndInv, VmcbInv, CleanInv, Run, Pages
<1> QED
  BY <1>3, <1>5, <1>6, <1>7 DEF IndInv

(* The invariant holds in every state of the boot.                         *)
LEMMA Invariant == Spec => []IndInv
<1>1. IndInv /\ [Next]_vars => IndInv'
  BY CreateInv, FilesInv, SyscallsInv, TrackedInv, RootInv, TablesGrow, IdentifyInv, SvmInv, VmcbAllocInv,
     ControlInv, MsrpmInv, MbrInv, VmxInv, StutterInv DEF Next, Done
<1> QED
  BY <1>1, InitInv, PTL DEF Spec

-----------------------------------------------------------------------------
(* Every variable keeps its type: no function is entered but those of the  *)
(* list, the VMM stops for no other reason, and vm_info, the vmcb and the  *)
(* nested page table have their types from the moment they are set up.     *)
THEOREM TypeCorrect == Spec => []TypeOK
<1>1. IndInv => TypeOK
  <2> SUFFICES ASSUME IndInv PROVE TypeOK
    OBVIOUS
  <2>1. pc # "vm_create" => vm \in VmType
    BY DEF IndInv, VmInv
  <2>2. own["vmcb"] # {} => vmcb \in VmcbType
    BY DEF IndInv, VmcbInv
  <2>3. ntables # 0 => Nested!TypeOK
    <3> SUFFICES ASSUME ntables # 0 PROVE Nested!TypeOK
      OBVIOUS
    <3>1. NP!IndInv
      BY DEF IndInv, TablesInv, NoTables
    <3>2. NP!TypeOK
      BY <3>1, NestedSizes, NP!TypeFromInv DEF NP!SizesAssumption
    <3> QED
      BY <3>2 DEF NP!TypeOK, Nested!TypeOK
  <2> QED
    BY <2>1, <2>2, <2>3 DEF IndInv, PoolInv, PreparedInv, CleanInv, TypeOK
<1> QED
  BY <1>1, Invariant, PTL

(* The guest is entered only with SVM and nested paging in use, the root   *)
(* of the nested page table and both intercept maps in the vmcb, all of it *)
(* cleared before, and a vmcb that vmcb_check_consistency accepts,         *)
(* although vm_boot does not call it.                                      *)
THEOREM NeverEnteredUnprepared == Spec => []EnteredPrepared
<1>1. IndInv => EnteredPrepared
  <2> SUFFICES ASSUME IndInv, pc = "run" PROVE EnteredPrepared
    BY DEF EnteredPrepared
  <2>2. /\ vmcb.efer = {"SVME"} /\ vmcb.cr0 = {"ET"} /\ vmcb.cr4 = {} /\ vmcb.dr6 = {}
        /\ vmcb.dr7 = {} /\ vmcb.general2 = {"VMRUN", "VMMCALL"}
        /\ vmcb.np = 1 /\ vmcb.ncr3 = vm.n_cr3 /\ vmcb.asid = 1
        /\ own["iopm"] = Run(vmcb.iopm, 3) /\ own["msrpm"] = Run(vmcb.msrpm, 2)
    BY DEF IndInv, VmcbInv, BeforeVmcb, BeforeIopm, BeforeMsrpm, BeforeTables
  <2>3. vmcb_check_consistency
    <3>1. \A r \in {"cr0", "cr4", "dr6", "dr7", "efer"} : "HIGH" \notin vmcb[r]
      BY <2>2
    <3> QED
      BY <2>2, <3>1 DEF vmcb_check_consistency
  <2>4. /\ cpu.vendor = "AuthenticAMD" /\ "SVM" \in cpu.ecx81 /\ cpu.npt
        /\ "SVME" \in efer /\ hsave = own["hsa"] /\ hsave # {}
    <3>1. pc \in SvmEnabled /\ PreparedInv
      BY DEF SvmEnabled, IndInv
    <3> QED
      BY <3>1, Zenon DEF PreparedInv
  <2>5. vm.handlers = {"vm_run", "vm_exit"} /\ vm.n_cr3 \in own["tables"]
    BY DEF IndInv, VmInv, BeforeTables
  <2>7. \A u \in {"tables", "hsa", "vmcb", "iopm", "msrpm"} : own[u] \subseteq clean
    BY DEF IndInv, CleanInv, ReadByCpu
  <2>8. vmcb.asid # 0 /\ vmcb.ncr3 = vm.n_cr3 /\ vmcb.ncr3 \in own["tables"]
    BY <2>2, <2>5
  <2> QED
    BY <2>2, <2>3, <2>4, <2>5, <2>7, <2>8, Zenon DEF EnteredPrepared
<1> QED
  BY <1>1, Invariant, PTL

(* The trap handlers start in the initial state of Intercept, whatever the *)
(* stack and the pages of the allocator held when the VMM was started: the *)
(* theorems of InterceptProofs apply from the first VMRUN on.              *)
THEOREM HandlersStartClean == Spec => []HandsOverToIntercept
<1>1. IndInv => HandsOverToIntercept
  <2> SUFFICES ASSUME IndInv, pc = "run" PROVE HandsOverToIntercept
    BY DEF HandsOverToIntercept
  <2>2. /\ vmcb.eventinj = "NONE" /\ vmcb.intercepts = {} /\ "TF" \notin vmcb.rflags
        /\ vmcb.general2 = {"VMRUN", "VMMCALL"}
    BY DEF IndInv, VmcbInv, BeforeVmcb, BeforeIopm, BeforeMsrpm, BeforeTables
  <2>4. /\ vm.itc_flag = {} /\ vm.itc_skip_flag = {} /\ vm.btrackcurrent = 0
        /\ vm.ptracked = <<>> /\ vm.syscallmap = <<>> /\ vm.fmap = Std
    BY DEF IndInv, VmInv
  <2>5. ("TF" \in vmcb.rflags) = FALSE /\ (vm.btrackcurrent = 1) = FALSE
    BY <2>2, <2>4
  <2>6. Handlers!VmmInit
    BY <2>2, <2>4, <2>5 DEF Handlers!VmmInit, Std
  <2> QED
    BY <2>2, <2>6 DEF HandsOverToIntercept
<1> QED
  BY <1>1, Invariant, PTL

(* No page of the allocator serves two purposes, and every table of the    *)
(* nested page table has a page of its own unless the pages ran out.       *)
THEOREM PagesServeOneUse == Spec => []OwnPagesDistinct
<1>1. IndInv => OwnPagesDistinct
  BY DEF IndInv, PoolInv, TablesInv, OwnPagesDistinct
<1> QED
  BY <1>1, Invariant, PTL

(* The guest reaches no page in which the VMM or the processor keeps its   *)
(* own state: the pages are the VMM's, and the table leads to none of      *)
(* those, whatever the guest-physical address.                             *)
THEOREM OwnPagesOutOfReach == Spec => []OwnPagesUnreachable
<1>1. ASSUME IndInv, NEW u \in Uses, NEW p \in own[u], NEW v \in Nested!Vpns
      PROVE  Nested!linear2physical_legacy2mb(v) # p \div Big
  <2>1. PoolInv /\ TablesInv
    BY <1>1 DEF IndInv
  <2>2. p \in start .. start + size - 1 /\ p \in Nat /\ Big \in Nat \ {0}
    BY <1>1, <2>1, SizesAssumption DEF PoolInv, Vmm
  <2>3. p \div Big \in Nat
    BY <2>2, DivMod
  <2>4. CASE NoTables
    <3>1. Nested!linear2physical_legacy2mb(v) = -1
      BY <2>4 DEF NoTables, Nested!linear2physical_legacy2mb, Nested!Lookup, Nested!NotPresent
    <3> QED
      BY <2>3, <3>1
  <2>5. CASE NP!IndInv
    <3>1. v \in NP!Vpns
      BY <1>1 DEF Nested!Vpns, NP!Vpns
    <3>2. NP!VmmUnreachable
      BY <2>5, NestedSizes, NP!ReachFromInv DEF NP!SizesAssumption
    <3>3. ~NP!HoldsVmm(NP!linear2physical_legacy2mb(v))
      BY <3>1, <3>2 DEF NP!VmmUnreachable
    <3>4. NP!linear2physical_legacy2mb(v) # p \div Big
      BY <2>2, <3>3 DEF NP!HoldsVmm
    <3>5. NP!linear2physical_legacy2mb(v) = Nested!linear2physical_legacy2mb(v)
      BY DEF Nested!linear2physical_legacy2mb, Nested!Lookup, Nested!NotPresent, Nested!get_index_pae2mb,
             NP!linear2physical_legacy2mb, NP!Lookup, NP!NotPresent, NP!get_index_pae2mb
    <3> QED
      BY <3>4, <3>5
  <2> QED
    BY <2>1, <2>4, <2>5 DEF TablesInv
<1>2. IndInv => OwnPagesUnreachable
  BY <1>1 DEF OwnPagesUnreachable
<1> QED
  BY <1>2, Invariant, PTL
=============================================================================
