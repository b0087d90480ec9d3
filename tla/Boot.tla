-------------------------------- MODULE Boot --------------------------------
(***************************************************************************)
(* start_vmm of kernel/setup.c from vm_create on: the tables of vm_info,   *)
(* the nested page table, vm_init with the dispatch on the vendor, the     *)
(* preparation of SVM and of the vmcb (kernel/svm.c), and the first VMRUN  *)
(* of vm_boot.                                                             *)
(*                                                                         *)
(* It composes the parts that the other modules look at one by one.  The   *)
(* loop of NestedMap runs here as a step of vm_create, and every table it  *)
(* adds is a page of the allocator.  The allocator is the one of HostAlloc *)
(* seen from outside: the lowest run of free pages, or the machine stops.  *)
(* The state in which the guest is entered is the one Intercept starts in. *)
(*                                                                         *)
(* vm_info is a local variable of start_vmm and the allocator hands pages  *)
(* out as they are, so both start with what the memory held before; clean  *)
(* is the set of pages that were cleared after they were allocated.        *)
(*                                                                         *)
(* Pages are 4 KB pages; Big of them make a 2 MB page.  A control field or *)
(* register is the set of its bits that are 1.                             *)
(***************************************************************************)
EXTENDS Integers, FiniteSets, VmTables

CONSTANTS
    Big, Radix, LoopPages,  \* as in NestedMap
    MaxPage,    \* nalloc->max_page
    Machines,   \* where the VMM lies and which pages its allocator starts with
    Cpus,       \* what CPUID and the MSRs report
    OldVms,     \* what the stack may hold where vm_info is to be
    OldVmcbs    \* what the page of the vmcb may hold before it is cleared

ASSUME SizesAssumption ==
    /\ Big \in Nat \ {0} /\ Radix \in Nat \ {0} /\ LoopPages \in Nat /\ MaxPage \in Nat
    /\ 2 * LoopPages <= Radix * Radix * Radix

(* The pool is part of the VMM's memory: what GrantsInHeap says of the     *)
(* pages that HostAlloc hands out.                                         *)
ASSUME MachinesAssumption ==
    \A m \in Machines :
       /\ m.start \in Nat /\ m.size \in Nat \ {0}
       /\ m.free \subseteq (0 .. MaxPage - 1) \cap (m.start .. m.start + m.size - 1)

(* No processor requires a secondary control, EPT in particular: the low   *)
(* half of IA32_VMX_PROCBASED_CTLS2 is 0.                                  *)
ASSUME CpusAssumption ==
    \A c \in Cpus : /\ c.ecx1 \subseteq {"VMX", "SVM"} /\ c.ecx81 \subseteq {"VMX", "SVM"}
                    /\ "EPT" \notin c.seclow

VARIABLES
    pc,                     \* the next function to run, "run" or "dead" at the end
    why,                    \* what fatal_failure was called for, "" if it was not
    cpu,                    \* the processor
    start, size,            \* vmm_pmem_start, vmm_pmem_size
    entries, ntables, i,    \* the nested page table and the loop that fills it
    free, own,              \* the allocator's free pages; own[u]: pages in use as u
    clean,                  \* pages that were cleared after their allocation
    cap,                    \* words 4, 5 and 6 of x86_capability
    efer, hsave,            \* MSRs EFER and VM_HSAVE_PA
    vm,                     \* vm_info; its handlers are vm_run and vm_exit
    vmcb                    \* what is, or will be, in the page of the vmcb

npt == <<start, size, entries, ntables, i>>
pool == <<free, own>>
vars == <<pc, why, cpu, npt, pool, clean, cap, efer, hsave, vm, vmcb>>

Nested == INSTANCE NestedMap WITH Layouts <- {<<m.start, m.size>> : m \in Machines}

(* The trap handlers, on the vmcb and the vm_info of the boot.  Their      *)
(* guest does not exist yet: what stands for it here is not used.          *)
Handlers == INSTANCE Intercept WITH
    eventinj <- vmcb.eventinj, intercepts <- vmcb.intercepts, tf <- "TF" \in vmcb.rflags,
    itc_flag <- vm.itc_flag, itc_skip_flag <- vm.itc_skip_flag,
    btrackcurrent <- vm.btrackcurrent = 1, ptracked <- vm.ptracked,
    syscallmap <- vm.syscallmap, fmap <- vm.fmap, halted <- pc = "dead",
    exitcode <- "NONE", pferr <- "np", cr3 <- 0, prot <- <<>>,
    cur <- 0, insn <- "run", next <- 0, dying <- FALSE, stack <- <<>>,
    Threads <- {0}, FirstThread <- 0, Mm <- [t \in {0} |-> 0],
    Requests <- {}, Cmds <- {}, UserOps <- {}, KernelOps <- {}, Syscalls <- {}, Fds <- {},
    Names <- {}, MaxDepth <- 0, MaxWaiting <- 0, MaxFiles <- 0,
    Preempt <- FALSE, Kill <- FALSE, SaveGuestStates <- FALSE

Uses == {"fmap", "syscallmap", "ptracked", "tables", "hsa", "vmcb", "iopm", "msrpm"}
ZeroVm == [n_cr3 |-> 0, itc_flag |-> {}, itc_skip_flag |-> {}, btrackcurrent |-> 0,
           ptracked |-> <<>>, syscallmap |-> <<>>, fmap |-> <<>>, handlers |-> {}]
Zero == [efer |-> {}, cr0 |-> {}, cr4 |-> {}, dr6 |-> {}, dr7 |-> {}, cs |-> {}, rflags |-> {},
         intercepts |-> {}, general2 |-> {}, eventinj |-> "NONE", np |-> 0, asid |-> 0,
         ncr3 |-> 0, iopm |-> 0, msrpm |-> 0]

Init ==
    /\ pc = "vm_create" /\ why = ""
    /\ cpu \in Cpus
    /\ \E m \in Machines : start = m.start /\ size = m.size /\ free = m.free
    /\ entries = <<>> /\ ntables = 0 /\ i = 0
    /\ own = [u \in Uses |-> {}] /\ clean = {}
    /\ cap = [w \in 4 .. 6 |-> {}] /\ efer = {} /\ hsave = {}
    /\ vm \in OldVms /\ vmcb \in OldVmcbs

-----------------------------------------------------------------------------
fatal_failure(msg) == pc' = "dead" /\ why' = msg
Then(next) == pc' = next /\ UNCHANGED why

(* The runs of nr free pages that alloc_pages can find.                    *)
Run(first, nr) == first .. first + nr - 1
Runs(nr) == {p \in free : p + nr < MaxPage /\ Run(p, nr) \subseteq free}

(* The page frame number that alloc_pages returns.                         *)
Lowest(nr) == CHOOSE p \in Runs(nr) : \A q \in Runs(nr) : p <= q

(* Faulty: the pages are handed out and not marked.                        *)
Fault_alloc_not_marked(use, nr, next) ==
    IF Runs(nr) = {} THEN fatal_failure("alloc_pages") /\ UNCHANGED pool
    ELSE /\ own' = [own EXCEPT ![use] = @ \cup Run(Lowest(nr), nr)]
         /\ UNCHANGED free /\ Then(next)

(* alloc_host_pages(nr, 1), for the use it is put to; next comes after.    *)
alloc_host_pages(use, nr, next) ==
    IF Runs(nr) = {} THEN fatal_failure("alloc_pages") /\ UNCHANGED pool
    ELSE /\ own' = [own EXCEPT ![use] = @ \cup Run(Lowest(nr), nr)]
         /\ free' = free \ Run(Lowest(nr), nr)
         /\ Then(next)

(* The memset of the pages just allocated.                                 *)
Cleared(use) == clean' = clean \cup (own'[use] \ own[use])

-----------------------------------------------------------------------------
(* Faulty: vm_info keeps what was on the stack.                            *)
Fault_vm_not_cleared ==
    /\ pc = "vm_create"
    /\ Then("initialize_fid2name_map")
    /\ UNCHANGED <<cpu, npt, pool, clean, cap, efer, hsave, vm, vmcb>>

(* The memset at the start of vm_create, which then calls the next five.   *)
vm_create ==
    /\ pc = "vm_create"
    /\ Then("initialize_fid2name_map")
    /\ vm' = ZeroVm
    /\ UNCHANGED <<cpu, npt, pool, clean, cap, efer, hsave, vmcb>>

(* The tables are counts that are reset and pages that are not cleared.    *)
initialize_fid2name_map ==
    /\ pc = "initialize_fid2name_map"
    /\ alloc_host_pages("fmap", 1, "initialize_syscallmap")
    /\ vm' = [vm EXCEPT !.fmap =
                 IF pc' = "dead" THEN <<>> ELSE
                 vm_add_fileid2name_map(
                    vm_add_fileid2name_map(vm_add_fileid2name_map(<<>>, 0, "stdin"), 1, "stdout"),
                    2, "stderr")]
    /\ UNCHANGED <<cpu, npt, clean, cap, efer, hsave, vmcb>>

initialize_syscallmap ==
    /\ pc = "initialize_syscallmap"
    /\ alloc_host_pages("syscallmap", 1, "initialize_ptracked_list")
    /\ vm' = [vm EXCEPT !.syscallmap = <<>>]
    /\ UNCHANGED <<cpu, npt, clean, cap, efer, hsave, vmcb>>

initialize_ptracked_list ==
    /\ pc = "initialize_ptracked_list"
    /\ alloc_host_pages("ptracked", 1, "pml4_table_alloc")
    /\ vm' = [vm EXCEPT !.btrackcurrent = 0, !.ptracked = <<>>]
    /\ UNCHANGED <<cpu, npt, clean, cap, efer, hsave, vmcb>>

(* The root of the nested page table, which vm_create stores in vm->n_cr3. *)
pml4_table_alloc ==
    /\ pc = "pml4_table_alloc"
    /\ alloc_host_pages("tables", 1, "create_2mb_nested_pagetable")
    /\ Cleared("tables")
    /\ ntables' = IF pc' = "dead" THEN ntables ELSE 1
    /\ vm' = [vm EXCEPT !.n_cr3 = IF pc' = "dead" THEN @ ELSE Lowest(1)]
    /\ UNCHANGED <<cpu, start, size, entries, i, cap, efer, hsave, vmcb>>

(* The lowest pages, as many as the round of the loop needs for tables.    *)
TablePages(n) ==
    {p \in Runs(1) : Cardinality({q \in Runs(1) : q < p}) < n}

create_2mb_nested_pagetable ==
    /\ pc = "create_2mb_nested_pagetable" /\ i < LoopPages
    /\ Nested!create_2mb_nested_pagetable
    /\ LET new == TablePages(ntables' - ntables)
       IN  /\ own' = [own EXCEPT !["tables"] = @ \cup new]
           /\ free' = free \ new
           /\ Cleared("tables")
           /\ IF Cardinality(new) < ntables' - ntables THEN fatal_failure("alloc_pages")
              ELSE Then(IF i' = LoopPages THEN "early_identify_cpu" ELSE pc)
    /\ UNCHANGED <<cpu, cap, efer, hsave, vm, vmcb>>

-----------------------------------------------------------------------------
(* vm_init.  CPUID leaves that the processor does not have are not read.   *)
early_identify_cpu ==
    /\ pc = "early_identify_cpu"
    /\ cap' = [cap EXCEPT ![4] = IF cpu.std1 THEN cpu.ecx1 ELSE {},
                          ![6] = IF cpu.ext1 THEN cpu.ecx81 ELSE {}]
    /\ CASE cpu.vendor = "AuthenticAMD" -> Then("enable_svm")
         [] cpu.vendor = "GenuineIntel" -> Then("enable_vmx")
         [] OTHER -> fatal_failure("vendor")
    /\ UNCHANGED <<cpu, npt, pool, clean, efer, hsave, vm, vmcb>>

(* Faulty: the feature is looked up in the word that was just read.        *)
Fault_svm_tested_in_word_5 ==
    /\ pc = "enable_svm"
    /\ cap' = [cap EXCEPT ![5] = cpu.ecx81]
    /\ IF "SVM" \notin cap[5] THEN fatal_failure("svm") /\ UNCHANGED <<efer, hsave, pool, clean>>
       ELSE /\ efer' = efer \cup {"SVME"}
            /\ alloc_host_pages("hsa", 1, "alloc_vmcb") /\ Cleared("hsa")
            /\ hsave' = IF pc' = "dead" THEN hsave ELSE own'["hsa"]
    /\ UNCHANGED <<cpu, npt, vm, vmcb>>

(* ecx goes to word 5; X86_FEATURE_SVM is a bit of word 6.                 *)
enable_svm ==
    /\ pc = "enable_svm"
    /\ cap' = [cap EXCEPT ![5] = cpu.ecx81]
    /\ IF "SVM" \notin cap'[6] THEN fatal_failure("svm") /\ UNCHANGED <<efer, hsave, pool, clean>>
       ELSE IF ~cpu.npt THEN fatal_failure("npt") /\ UNCHANGED <<efer, hsave, pool, clean>>
       ELSE /\ efer' = efer \cup {"SVME"}
            /\ alloc_host_pages("hsa", 1, "alloc_vmcb") /\ Cleared("hsa")
            /\ hsave' = IF pc' = "dead" THEN hsave ELSE own'["hsa"]
    /\ UNCHANGED <<cpu, npt, vm, vmcb>>

(* The page is cleared, and gets the nested page table.                    *)
alloc_vmcb ==
    /\ pc = "alloc_vmcb"
    /\ alloc_host_pages("vmcb", 1, "set_control_params")
    /\ Cleared("vmcb")
    /\ vmcb' = IF pc' = "dead" THEN vmcb ELSE [Zero EXCEPT !.ncr3 = vm.n_cr3]
    /\ UNCHANGED <<cpu, npt, cap, efer, hsave, vm>>

(* create_intercept_table(12 KB) is the last thing of this half.           *)
set_control_params ==
    /\ pc = "set_control_params"
    /\ alloc_host_pages("iopm", 3, "msrpm")
    /\ Cleared("iopm")
    /\ vmcb' = [vmcb EXCEPT !.np = 1, !.asid = 1, !.general2 = {"VMRUN", "VMMCALL"},
                            !.iopm = IF pc' = "dead" THEN @ ELSE Lowest(3)]
    /\ UNCHANGED <<cpu, npt, cap, efer, hsave, vm>>

(* Faulty: there is no permission map of the MSRs.                         *)
Fault_no_msr_map ==
    /\ pc = "msrpm"
    /\ Then("set_vm_to_mbr_start_state")
    /\ UNCHANGED <<cpu, npt, pool, clean, cap, efer, hsave, vm, vmcb>>

(* The second half of set_control_params: create_intercept_table(8 KB).    *)
create_msr_intercept_table ==
    /\ pc = "msrpm"
    /\ alloc_host_pages("msrpm", 2, "set_vm_to_mbr_start_state")
    /\ Cleared("msrpm")
    /\ vmcb' = [vmcb EXCEPT !.msrpm = IF pc' = "dead" THEN @ ELSE Lowest(2)]
    /\ UNCHANGED <<cpu, npt, cap, efer, hsave, vm>>

(* Real mode at 0x7c00; then init_amd installs svm_run and handle_vmexit.  *)
set_vm_to_mbr_start_state ==
    /\ pc = "set_vm_to_mbr_start_state"
    /\ vmcb' = [vmcb EXCEPT !.efer = {"SVME"}, !.cr0 = {"ET"}, !.cs = {},
                            !.rflags = {"PF", "IF", "IOPL"}]
    /\ vm' = [vm EXCEPT !.handlers = {"vm_run", "vm_exit"}]
    /\ Then("run")
    /\ UNCHANGED <<cpu, npt, pool, clean, cap, efer, hsave>>

(* What vmx_detect_capability keeps of the secondary controls: the bits    *)
(* that must be 1, and none if the secondary controls as a whole need not  *)
(* be active.                                                              *)
vmx_secondary_exec_control ==
    IF "SECONDARY" \in (IF cpu.true THEN cpu.truelow ELSE cpu.low) THEN cpu.seclow ELSE {}

(* Faulty: EPT is taken for granted.                                       *)
Fault_ept_not_tested ==
    /\ pc = "enable_vmx"
    /\ cap' = [cap EXCEPT ![5] = cpu.ecx1]
    /\ IF "VMX" \notin cap'[4] THEN fatal_failure("vmx") ELSE Then("vmxon")
    /\ UNCHANGED <<cpu, npt, pool, clean, efer, hsave, vm, vmcb>>

(* init_intel up to the test of cpu_has_vmx_ept, where it ends on every    *)
(* processor that leaves EPT optional.                                     *)
enable_vmx ==
    /\ pc = "enable_vmx"
    /\ cap' = [cap EXCEPT ![5] = cpu.ecx1]
    /\ IF "VMX" \notin cap'[4] THEN fatal_failure("vmx")
       ELSE IF "EPT" \notin vmx_secondary_exec_control THEN fatal_failure("ept")
       ELSE Then("vmxon")
    /\ UNCHANGED <<cpu, npt, pool, clean, efer, hsave, vm, vmcb>>

(* The guest runs, or the processor has stopped.                           *)
Done == pc \in {"run", "dead"} /\ UNCHANGED vars

Next ==
    \/ vm_create \/ initialize_fid2name_map \/ initialize_syscallmap \/ initialize_ptracked_list
    \/ pml4_table_alloc \/ create_2mb_nested_pagetable \/ early_identify_cpu
    \/ enable_svm \/ alloc_vmcb \/ set_control_params \/ create_msr_intercept_table
    \/ set_vm_to_mbr_start_state \/ enable_vmx \/ Done

Spec == Init /\ [][Next]_vars

(* The VMM is one thread with interrupts off: it goes on until it ends.    *)
FairSpec == Spec /\ WF_vars(Next)

-----------------------------------------------------------------------------
(* vmcb_check_consistency, whose call in vm_boot is commented out: TRUE if *)
(* none of its checks fails.  The check of the intercept maps is not       *)
(* written: it always succeeds.                                            *)
vmcb_check_consistency ==
    /\ "SVME" \in vmcb.efer
    /\ "NW" \in vmcb.cr0 => "CD" \in vmcb.cr0
    /\ \A r \in {"cr0", "cr4", "dr6", "dr7", "efer"} : "HIGH" \notin vmcb[r]
    /\ {"LME"} \subseteq vmcb.efer /\ "PG" \in vmcb.cr0 =>
          /\ "PAE" \in vmcb.cr4 /\ "PE" \in vmcb.cr0
          /\ ~({"L", "D"} \subseteq vmcb.cs)
    /\ "VMRUN" \in vmcb.general2

Pages == 0 .. MaxPage - 1

VmcbType ==
    [efer : SUBSET {"SVME", "LME", "HIGH"}, cr0 : SUBSET {"ET", "PE", "PG", "NW", "CD", "HIGH"},
     cr4 : SUBSET {"PAE", "HIGH"}, dr6 : SUBSET {"HIGH"}, dr7 : SUBSET {"HIGH"},
     cs : SUBSET {"L", "D"}, rflags : SUBSET {"PF", "TF", "IF", "IOPL"},
     intercepts : SUBSET Handlers!Bits, general2 : SUBSET {"VMRUN", "VMMCALL"},
     eventinj : {"NONE", "INT80", "INTN", "PF"}, np : 0 .. 1, asid : Nat,
     ncr3 : Nat, iopm : Nat, msrpm : Nat]
VmType ==
    [n_cr3 : Nat, itc_flag : SUBSET Handlers!Flags, itc_skip_flag : SUBSET Handlers!Flags,
     btrackcurrent : 0 .. 1, ptracked : Seq(STRING),
     syscallmap : Seq([tid : Nat, syscallno : STRING]),
     fmap : Seq([fid : 0 .. 2, fname : {"stdin", "stdout", "stderr"}]),
     handlers : SUBSET {"vm_run", "vm_exit"}]

(* Every variable keeps its type: vm_info from the memset on, the vmcb     *)
(* once it has a page, and the nested page table once it has a root.       *)
TypeOK ==
    /\ pc \in {"run", "dead", "vm_create", "initialize_fid2name_map", "initialize_syscallmap",
               "initialize_ptracked_list", "pml4_table_alloc", "create_2mb_nested_pagetable",
               "early_identify_cpu", "enable_svm", "alloc_vmcb", "set_control_params", "msrpm",
               "set_vm_to_mbr_start_state", "enable_vmx"}
    /\ why \in {"", "alloc_pages", "vendor", "svm", "npt", "vmx", "ept"}
    /\ cpu \in Cpus
    /\ own \in [Uses -> SUBSET Pages] /\ free \subseteq Pages /\ clean \subseteq Pages
    /\ cap \in [4 .. 6 -> SUBSET {"VMX", "SVM"}]
    /\ efer \subseteq {"SVME"} /\ hsave \subseteq Pages
    /\ pc # "vm_create" => vm \in VmType
    /\ own["vmcb"] # {} => vmcb \in VmcbType
    /\ ntables # 0 => Nested!TypeOK

(* The guest is entered only on a processor that has SVM and nested        *)
(* paging, with both in use, a save area for the host, and a vmcb that     *)
(* names the root of the nested page table and the two intercept maps in   *)
(* their full length (which no check of vmcb.c looks at) and passes the    *)
(* checks that there are.  Whatever the processor reads before the VMM     *)
(* writes it (tables, maps, vmcb, save area) was cleared.                  *)
EnteredPrepared ==
    pc = "run" =>
       /\ cpu.vendor = "AuthenticAMD" /\ "SVM" \in cpu.ecx81 /\ cpu.npt
       /\ "SVME" \in efer /\ hsave = own["hsa"] /\ hsave # {}
       /\ vmcb.np = 1 /\ vmcb.asid # 0 /\ vm.handlers = {"vm_run", "vm_exit"}
       /\ vmcb.ncr3 = vm.n_cr3 /\ vmcb.ncr3 \in own["tables"]
       /\ own["iopm"] = Run(vmcb.iopm, 3) /\ own["msrpm"] = Run(vmcb.msrpm, 2)
       /\ \A u \in {"tables", "hsa", "vmcb", "iopm", "msrpm"} : own[u] \subseteq clean
       /\ vmcb_check_consistency

(* What the processor and the VMM keep in pages of the allocator (vmcb,    *)
(* host save area, permission maps, the nested page table itself, the      *)
(* tables of vm_info) is in no page that the guest can reach through the   *)
(* nested page table, while the table is built and when the guest runs.    *)
OwnPagesUnreachable ==
    \A u \in Uses : \A p \in own[u] : \A vpn \in Nested!Vpns :
       Nested!linear2physical_legacy2mb(vpn) # p \div Big

(* No page serves two purposes.                                            *)
OwnPagesDistinct ==
    /\ \A u, v \in Uses : u # v => own[u] \cap own[v] = {}
    /\ Cardinality(own["tables"]) = ntables \/ why = "alloc_pages"

(* vm_boot starts in the initial state of Intercept, whatever the stack    *)
(* and the pages of the allocator held before: no event waits, nothing is  *)
(* stepped, skipped or requested, no thread waits, the three standard      *)
(* files are named, and beside what the handlers switch on only VMRUN and  *)
(* VMMCALL are intercepted.                                                *)
HandsOverToIntercept ==
    pc = "run" => Handlers!VmmInit /\ vmcb.general2 = {"VMRUN", "VMMCALL"}

(* An AMD processor with SVM and nested paging runs the guest, unless the  *)
(* pages do not suffice.                                                   *)
Capable == cpu.vendor = "AuthenticAMD" /\ cpu.ext1 /\ "SVM" \in cpu.ecx81 /\ cpu.npt
CapableBoots == Capable ~> (pc = "run" \/ why = "alloc_pages")
=============================================================================
