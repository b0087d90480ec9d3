----------------------------- MODULE Intercept -----------------------------
(***************************************************************************)
(* MAVMM's trap handling on AMD SVM: handle_vmexit and the handlers it     *)
(* dispatches to (kernel/intercept.c), the interception switches of        *)
(* kernel/vm.c they use, and the loop of vm_boot that alternates the guest *)
(* and the handlers.  The guest (a Linux kernel, its threads and the CPU   *)
(* that runs them) is external: it is modelled from what the handlers      *)
(* assume of it, one instruction at a time, with its trap flag, its        *)
(* interrupt frames and its context switches.                              *)
(*                                                                         *)
(* A guest instruction either completes or raises a #VMEXIT that stops the *)
(* guest until the handler has run; a handler that does not move rip       *)
(* leaves the instruction to be executed again.                            *)
(***************************************************************************)
EXTENDS VmTables, Integers, FiniteSets

CONSTANTS
    Threads,         \* guest threads; a thread is known to the VMM by its tid
    FirstThread,     \* the one that runs when the model starts
    Mm,              \* Mm[t]: the page directory (cr3) thread t runs on
    Requests,        \* the flags user/mavmm-u.c can put in ecx
    Cmds,            \* the commands it can put in ebx
    UserOps,         \* instructions of user mode, beside "run"
    KernelOps,       \* instructions of kernel mode, beside "run"
    Syscalls,        \* system calls the guest makes through int 0x80
    Fds,             \* what open can return, an error code among them
    Names,           \* file names
    MaxDepth,        \* bound: frames on one kernel stack
    MaxWaiting,      \* bound: no new int 0x80 when syscallmap is this long
    MaxFiles,        \* bound: no new open when fmap could pass this length
    Preempt,         \* the guest takes interrupts
    Kill,            \* a guest thread may die inside the kernel
    SaveGuestStates  \* save_guest_states of svm_asm.S is compiled in

Flags == {"SWINT", "TASKSWITCH", "SYSCALL", "IRET", "STEP", "UNPACK"}
Bits == {"WRITE_CR3", "INTN", "IRET", "POPF", "DB", "PF"}
Dirs == {Mm[t] : t \in Threads}

ASSUME ThreadsAssumption ==
    /\ FirstThread \in Threads
    /\ Mm \in [Threads -> Dirs]
ASSUME RequestsAssumption == Requests \subseteq SUBSET Flags
ASSUME OpsAssumption ==
    /\ UserOps \subseteq {"store", "int80", "intn", "vmmcall", "touch"}
    /\ KernelOps \subseteq {"store"}
ASSUME BoundsAssumption ==
    /\ MaxDepth \in Nat /\ MaxWaiting \in Nat /\ MaxFiles \in Nat
    /\ {Preempt, Kill, SaveGuestStates} \subseteq BOOLEAN

VARIABLES
    \* the vmcb, and what the guest's memory holds of the VMM's doing
    exitcode,      \* why the guest stopped, "NONE" while it runs
    pferr,         \* exitinfo1 of the last #PF: "wp" (present, write) or "np"
    eventinj,      \* event the next VMRUN injects
    intercepts,    \* the interception bits that are on
    tf,            \* rflags.TF
    cr3,           \* page directory in use
    prot,          \* prot[d]: the entries of d have lost their RW bit
    \* vm_info
    itc_flag, itc_skip_flag, btrackcurrent, ptracked, syscallmap, fmap,
    \* the guest
    cur,           \* thread whose stack is in use
    insn,          \* instruction at rip
    next,          \* thread being switched to
    dying,         \* cur never runs again once it is switched out
    stack,         \* stack[t]: the frames on t's kernel stack
    halted         \* fatal_failure was called

vmcbVars == <<exitcode, pferr, eventinj, intercepts, tf, cr3, prot>>
vmVars == <<itc_flag, itc_skip_flag, btrackcurrent, ptracked, syscallmap, fmap>>
guestVars == <<cur, insn, next, dying, stack>>
vars == <<vmcbVars, vmVars, guestVars, halted>>

InterruptsOff == {"iret", "movcr3", "swtch", "popf"}
Interruptible == {"run"} \cup UserOps \cup KernelOps
Insns == InterruptsOff \cup Interruptible
Kinds == {"sys", "irq", "sw"}
Frames == [kind : Kinds, tf : BOOLEAN, insn : Interruptible]
Exits == {"NONE", "DB", "PF", "SWINT", "NPF", "VMMCALL", "IRET", "CR3_WRITE", "POPF"}

Top(t) == Last(stack[t])
Syscallnos == {"0", "READ", "OPEN", "RECVFROM"}

-----------------------------------------------------------------------------
(* vm_enable_intercept / vm_disable_intercept: the bits of a set of flags. *)
(* SWINT and SYSCALL share INTN.                                           *)
BitsOf(flags) ==
    {b \in Bits : \/ b = "IRET" /\ "IRET" \in flags
                  \/ b = "INTN" /\ flags \cap {"SWINT", "SYSCALL"} # {}
                  \/ b = "WRITE_CR3" /\ "TASKSWITCH" \in flags
                  \/ b = "DB" /\ "STEP" \in flags
                  \/ b = "PF" /\ "UNPACK" \in flags}

(* Faulty: the page directory is left alone.                               *)
Fault_no_protect(flags, v) == prot

(* UNPACK also rewrites the RW bit of every entry of the page directory    *)
(* that vmcb->cr3 points to at that moment.                                *)
protect(flags, v) ==
    IF "UNPACK" \in flags THEN [prot EXCEPT ![cr3] = v] ELSE prot

(* bits: the interception bits before the call.                            *)
vm_enable_intercept(bits, flags) ==
    /\ intercepts' = bits \cup BitsOf(flags)
    /\ tf' = (tf \/ "STEP" \in flags)
    /\ prot' = protect(flags, TRUE)

vm_disable_intercept(bits, flags) ==
    /\ intercepts' = bits \ BitsOf(flags)
    /\ tf' = (tf /\ "STEP" \notin flags)
    /\ prot' = protect(flags, FALSE)

(* Faulty: single stepping is not turned on.                               *)
Fault_skip_without_step(bits, flag) ==
    /\ intercepts' = bits \ BitsOf({flag})
    /\ tf' = tf
    /\ prot' = protect({flag}, FALSE)
    /\ itc_skip_flag' = itc_skip_flag \cup {flag}

(* Faulty: the interception stays on.                                      *)
Fault_skip_still_intercepts(bits, flag) ==
    /\ intercepts' = bits \cup BitsOf({"STEP"})
    /\ tf' = TRUE
    /\ prot' = prot
    /\ itc_skip_flag' = itc_skip_flag \cup {flag}

(* Let the guest execute the instruction that trapped: its interception    *)
(* goes off and single stepping on, until the #DB after the instruction.   *)
__skip_intercpt_cur_instr(bits, flag) ==
    /\ intercepts' = (bits \ BitsOf({flag})) \cup BitsOf({"STEP"})
    /\ tf' = TRUE
    /\ prot' = protect({flag}, FALSE)
    /\ itc_skip_flag' = itc_skip_flag \cup {flag}

-----------------------------------------------------------------------------
(* The guest.                                                              *)
Running == exitcode = "NONE" /\ eventinj = "NONE" /\ ~halted
UserMode == stack[cur] = <<>>

(* The kernel stack of a thread that is switched out before it ever ran.   *)
NewThread == <<[kind |-> "irq", tf |-> FALSE, insn |-> "run"],
               [kind |-> "sw", tf |-> FALSE, insn |-> "run"]>>

(* What start_vmm leaves for vm_boot in the vmcb and in vm_info.           *)
VmmInit ==
    /\ eventinj = "NONE" /\ intercepts = {} /\ tf = FALSE
    /\ itc_flag = {} /\ itc_skip_flag = {} /\ btrackcurrent = FALSE
    /\ ptracked = <<>> /\ syscallmap = <<>>
    /\ fmap = <<[fid |-> 0, fname |-> "stdin"], [fid |-> 1, fname |-> "stdout"],
                [fid |-> 2, fname |-> "stderr"]>>

Init ==
    /\ VmmInit
    /\ exitcode = "NONE" /\ pferr = "np"
    /\ cr3 = Mm[FirstThread]
    /\ prot = [d \in Dirs |-> FALSE]
    /\ cur = FirstThread /\ insn = "run" /\ next = FirstThread /\ dying = FALSE
    /\ stack = [t \in Threads |-> IF t = FirstThread THEN <<>> ELSE NewThread]
    /\ halted = FALSE

(* The #VMEXIT of an instruction that has not completed.                   *)
VmExit(code) ==
    /\ exitcode' = code
    /\ UNCHANGED <<pferr, eventinj, intercepts, tf, cr3, prot, vmVars, guestVars, halted>>

(* An instruction that started with TF set ends in #DB: a #VMEXIT if #DB   *)
(* is intercepted, else the guest's own debug handler, which clears TF.    *)
StepTrap(tfAfter) ==
    /\ exitcode' = IF tf /\ "DB" \in intercepts THEN "DB" ELSE "NONE"
    /\ tf' = (tfAfter /\ ~(tf /\ "DB" \notin intercepts))

(* Event delivery pushes a frame with the current TF and clears TF.        *)
Deliver(kind) ==
    /\ stack' = [stack EXCEPT ![cur] =
                    Append(@, [kind |-> kind, tf |-> tf, insn |-> insn])]
    /\ tf' = FALSE
    /\ insn' = "run"

CanPush == Len(stack[cur]) < MaxDepth

(* A plain instruction, after which the program goes on somewhere: user    *)
(* code does what UserOps allows, kernel code returns, switches, or dies.  *)
ExecRun ==
    /\ Running /\ insn = "run"
    /\ StepTrap(tf)
    /\ IF UserMode
         THEN /\ insn' \in {"run"} \cup {op \in UserOps : op \in {"int80", "intn", "store"} => CanPush}
              /\ insn' = "int80" => Len(syscallmap) < MaxWaiting
              /\ UNCHANGED <<next, dying>>
         ELSE \/ /\ insn' \in {"run", "iret"} \cup {op \in KernelOps : CanPush}
                 /\ UNCHANGED <<next, dying>>
              \/ \E t \in Threads \ {cur} :
                    /\ next' = t
                    /\ insn' = IF Mm[t] = cr3 THEN "swtch" ELSE "movcr3"
                    /\ dying' \in {FALSE, Kill}
    /\ UNCHANGED <<pferr, eventinj, intercepts, cr3, prot, vmVars, cur, stack, halted>>

(* A store faults when the VMM took the RW bit away, when the page is not  *)
(* there, or when the guest itself write-protects it (copy on write).      *)
StoreFault(err) ==
    /\ pferr' = err
    /\ IF "PF" \in intercepts
         THEN exitcode' = "PF" /\ UNCHANGED <<tf, insn, stack>>
         ELSE Deliver("irq") /\ UNCHANGED exitcode
    /\ UNCHANGED <<eventinj, intercepts, cr3, prot, vmVars, cur, next, dying, halted>>

ExecStore ==
    /\ Running /\ insn = "store"
    /\ \/ /\ ~prot[cr3]
          /\ StepTrap(tf) /\ insn' = "run"
          /\ UNCHANGED <<pferr, eventinj, intercepts, cr3, prot, vmVars, cur, next, dying,
                         stack, halted>>
       \/ CanPush /\ \E err \in {"np", "wp"} : StoreFault(err)

ExecInt ==
    /\ Running /\ insn \in {"int80", "intn"} /\ CanPush
    /\ IF "INTN" \in intercepts THEN VmExit("SWINT")
       ELSE /\ stack' = [stack EXCEPT ![cur] = Append(@,
                  [kind |-> IF insn = "int80" THEN "sys" ELSE "irq", tf |-> tf, insn |-> "run"])]
            /\ tf' = FALSE /\ insn' = "run"
            /\ UNCHANGED <<exitcode, pferr, eventinj, intercepts, cr3, prot, vmVars, cur,
                           next, dying, halted>>

ExecVmmcall == Running /\ insn = "vmmcall" /\ VmExit("VMMCALL")

(* An access to memory the nested page table does not map.                 *)
ExecTouch == Running /\ insn = "touch" /\ VmExit("NPF")

ExecIret ==
    /\ Running /\ insn = "iret"
    /\ IF "IRET" \in intercepts THEN VmExit("IRET")
       ELSE /\ StepTrap(Top(cur).tf)
            /\ insn' = Top(cur).insn
            /\ stack' = [stack EXCEPT ![cur] = Front(@)]
            /\ UNCHANGED <<pferr, eventinj, intercepts, cr3, prot, vmVars, cur, next, dying, halted>>

(* The context switch of Linux, interrupts off: mov cr3 when the page      *)
(* directory changes, then the stack (with the pushf), then popf.          *)
ExecMovCr3 ==
    /\ Running /\ insn = "movcr3"
    /\ IF "WRITE_CR3" \in intercepts THEN VmExit("CR3_WRITE")
       ELSE /\ cr3' = Mm[next]
            /\ insn' = "swtch"
            /\ StepTrap(tf)
            /\ UNCHANGED <<pferr, eventinj, intercepts, prot, vmVars, cur, next, dying, stack, halted>>

ExecSwtch ==
    /\ Running /\ insn = "swtch"
    /\ cur' = next
    /\ insn' = "popf"
    /\ dying' = FALSE
    /\ stack' = [stack EXCEPT ![cur] =
          IF dying THEN NewThread  \* its tid goes to a thread created later
          ELSE Append(@, [kind |-> "sw", tf |-> tf, insn |-> "run"])]
    /\ StepTrap(tf)
    /\ UNCHANGED <<pferr, eventinj, intercepts, cr3, prot, vmVars, next, halted>>

ExecPopf ==
    /\ Running /\ insn = "popf"
    /\ IF "POPF" \in intercepts THEN VmExit("POPF")
       ELSE /\ StepTrap(Top(cur).tf)
            /\ insn' = "run"
            /\ stack' = [stack EXCEPT ![cur] = Front(@)]
            /\ UNCHANGED <<pferr, eventinj, intercepts, cr3, prot, vmVars, cur, next, dying, halted>>

Interrupt ==
    /\ Preempt /\ Running /\ insn \notin InterruptsOff /\ CanPush
    /\ Deliver("irq")
    /\ UNCHANGED <<exitcode, pferr, eventinj, intercepts, cr3, prot, vmVars, cur, next, dying, halted>>

(* VMRUN delivers the event that the handler left in eventinj.             *)
VmrunInject ==
    /\ exitcode = "NONE" /\ eventinj # "NONE" /\ ~halted
    /\ Deliver(IF eventinj = "INT80" THEN "sys" ELSE "irq")
    /\ eventinj' = "NONE"
    /\ UNCHANGED <<exitcode, pferr, intercepts, cr3, prot, vmVars, cur, next, dying, halted>>

-----------------------------------------------------------------------------
(* The handlers: each is the whole of one case of handle_vmexit.           *)
Handles(code) == exitcode = code /\ ~halted /\ exitcode' = "NONE"

(* The registers a handler reads from g_rbx, g_rcx, ...: what the guest    *)
(* put there, or their initial 0 when nobody saves them.                   *)
GuestReg(v, zero) == IF SaveGuestStates THEN v ELSE zero

(* Who is running: the kernel stack in use (rsp, or esp0 of the task state *)
(* segment in user mode) leads to the thread_info and the task_struct.     *)
(* A process is known by its page directory.                               *)
get_cur_threadid == cur
get_cur_process_name == Mm[cur]

(* What a system call makes of syscallmap: sys_read, sys_open and          *)
(* sys_recvfrom remember the call, the others only print (reading fmap).   *)
(* open is not remembered when the address of the name does not translate. *)
sys_read(map) == {vm_add_waiting_thread(map, get_cur_threadid, "READ")}

sys_open(map) == {map, vm_add_waiting_thread(map, get_cur_threadid, "OPEN")}

sys_recvfrom(map) == {vm_add_waiting_thread(map, get_cur_threadid, "RECVFROM")}

sys_socketcall(map) == {map} \cup sys_recvfrom(map)

sys_write(map) == {map}

sys_execve(map) == {map}

PrintsOnly(map) == {map}

SyscallEffects(no, map) ==
    CASE no = "READ" -> sys_read(map)
      [] no = "WRITE" -> sys_write(map)
      [] no = "EXECVE" -> sys_execve(map)
      [] no = "OPEN" -> sys_open(map)
      [] no = "SOCKETCALL" -> sys_socketcall(map)
      [] OTHER -> PrintsOnly(map)

PendingOpens == Cardinality({i \in DOMAIN syscallmap : syscallmap[i].syscallno = "OPEN"})

(* Faulty: the return of the call is not asked for.                        *)
Fault_syscall_without_iret(no) ==
    /\ \E map \in SyscallEffects(no, syscallmap) :
          syscallmap' = IF map = <<>> THEN vm_add_waiting_thread(map, get_cur_threadid, "0") ELSE map
    /\ tf' = TRUE
    /\ UNCHANGED intercepts

(* __handle_syscall: if no thread at all waits after the switch, this one  *)
(* is entered with number 0.                                               *)
__handle_syscall(no) ==
    /\ \E map \in SyscallEffects(no, syscallmap) :
          syscallmap' = IF map = <<>> THEN vm_add_waiting_thread(map, get_cur_threadid, "0") ELSE map
    /\ tf' = TRUE
    /\ intercepts' = intercepts \cup {"IRET"}

__handle_vm_swint ==
    /\ Handles("SWINT")
    /\ \/ /\ insn = "int80"
          /\ \E no \in Syscalls :
               /\ no = "OPEN" => Len(fmap) + PendingOpens < MaxFiles
               /\ __handle_syscall(no)
          /\ eventinj' = "INT80"
       \/ /\ insn # "int80"
          /\ eventinj' = "INTN"
          /\ UNCHANGED <<syscallmap, tf, intercepts>>
    /\ insn' = "run"
    /\ UNCHANGED <<pferr, cr3, prot, itc_flag, itc_skip_flag, btrackcurrent, ptracked, fmap,
                   cur, next, dying, stack, halted>>

(* sys_open_iret files what rax holds now under what the guest's memory    *)
(* holds now at the address of the name.                                   *)
sys_open_iret ==
    \E rax \in Fds, name \in Names : fmap' = vm_add_fileid2name_map(fmap, rax, name)

(* __handle_vm_iret: the thread that executes the iret is looked up; if it *)
(* waits, its call is finished with the value rax holds now and all its    *)
(* entries are removed.                                                    *)
__handle_vm_iret ==
    /\ Handles("IRET")
    /\ LET syscallno == vm_get_waiting_syscall(syscallmap, get_cur_threadid)
       IN  IF syscallno = NULL THEN UNCHANGED <<syscallmap, fmap>>
           ELSE /\ syscallmap' = vm_remove_waiting_thread(syscallmap, get_cur_threadid)
                /\ IF syscallno = "OPEN" THEN sys_open_iret ELSE UNCHANGED fmap
    /\ __skip_intercpt_cur_instr(intercepts, "IRET")
    /\ UNCHANGED <<pferr, eventinj, cr3, itc_flag, btrackcurrent, ptracked, guestVars, halted>>

(* #DB: close the window of the skipped instruction.  Single stepping ends *)
(* with it, unless it was asked for and the current process is tracked.    *)
KeepStepping == btrackcurrent /\ "STEP" \in itc_flag

(* Faulty: itc_skip_flag is not reset.                                     *)
Fault_db_without_reset ==
    /\ Handles("DB")
    /\ intercepts' = (intercepts \cup BitsOf(itc_skip_flag))
                        \ (IF KeepStepping THEN {} ELSE BitsOf({"STEP"}))
    /\ tf' = (tf /\ KeepStepping)
    /\ prot' = protect(itc_skip_flag, TRUE)
    /\ UNCHANGED <<pferr, eventinj, cr3, itc_flag, itc_skip_flag, btrackcurrent, ptracked,
                   syscallmap, fmap, guestVars, halted>>

(* Faulty: #DB is no longer intercepted but TF stays set.                  *)
Fault_db_leaves_tf ==
    /\ Handles("DB")
    /\ intercepts' = (intercepts \cup BitsOf(itc_skip_flag)) \ BitsOf({"STEP"})
    /\ tf' = tf
    /\ prot' = protect(itc_skip_flag, TRUE)
    /\ itc_skip_flag' = {}
    /\ UNCHANGED <<pferr, eventinj, cr3, itc_flag, btrackcurrent, ptracked, syscallmap, fmap,
                   guestVars, halted>>

__handle_db ==
    /\ Handles("DB")
    /\ IF itc_skip_flag = {} THEN UNCHANGED <<intercepts, tf, prot, itc_skip_flag>>
       ELSE /\ intercepts' = (intercepts \cup BitsOf(itc_skip_flag))
                               \ (IF KeepStepping THEN {} ELSE BitsOf({"STEP"}))
            /\ tf' = (tf /\ KeepStepping)
            /\ prot' = protect(itc_skip_flag, TRUE)
            /\ itc_skip_flag' = {}
    /\ UNCHANGED <<pferr, eventinj, cr3, itc_flag, btrackcurrent, ptracked, syscallmap, fmap,
                   guestVars, halted>>

(* #PF: a write to a present page is the VMM's own doing if UNPACK is      *)
(* asked for; everything else goes to the guest.                           *)
__handle_pf ==
    /\ Handles("PF")
    /\ IF pferr = "wp" /\ "UNPACK" \in itc_flag
         THEN __skip_intercpt_cur_instr(intercepts, "UNPACK") /\ UNCHANGED eventinj
         ELSE eventinj' = "PF" /\ UNCHANGED <<intercepts, tf, prot, itc_skip_flag>>
    /\ UNCHANGED <<pferr, cr3, itc_flag, btrackcurrent, ptracked, syscallmap, fmap, guestVars, halted>>

(* Faulty: the popf that ends the switch is not intercepted.               *)
Fault_cr3_write_without_popf ==
    /\ Handles("CR3_WRITE")
    /\ __skip_intercpt_cur_instr(intercepts, "TASKSWITCH")
    /\ UNCHANGED <<pferr, eventinj, cr3, itc_flag, btrackcurrent, ptracked, syscallmap, fmap,
                   guestVars, halted>>

__handle_cr3_write ==
    /\ Handles("CR3_WRITE")
    /\ __skip_intercpt_cur_instr(intercepts \cup {"POPF"}, "TASKSWITCH")
    /\ UNCHANGED <<pferr, eventinj, cr3, itc_flag, btrackcurrent, ptracked, syscallmap, fmap,
                   guestVars, halted>>

(* The stack is already the next process's: its interceptions are turned   *)
(* on if it is tracked, off otherwise.                                     *)
__handle_popf ==
    /\ Handles("POPF")
    /\ LET flags == itc_flag \ {"TASKSWITCH"}
           tracked == vm_is_process_tracked(ptracked, get_cur_process_name)
       IN  /\ IF tracked THEN vm_enable_intercept(intercepts \ {"POPF"}, flags)
                         ELSE vm_disable_intercept(intercepts \ {"POPF"}, flags)
           /\ btrackcurrent' = tracked
    /\ UNCHANGED <<pferr, eventinj, cr3, itc_flag, itc_skip_flag, ptracked, syscallmap, fmap,
                   guestVars, halted>>

(* Faulty: POPF is armed by the request and not by the switch.             *)
Fault_enable_arms_popf(flags, pname) ==
    /\ intercepts' = IF "TASKSWITCH" \in flags THEN intercepts \cup {"WRITE_CR3", "POPF"}
                     ELSE intercepts
    /\ ptracked' = IF "TASKSWITCH" \in flags THEN vm_add_tracked_process(ptracked, pname)
                   ELSE ptracked
    /\ itc_flag' = itc_flag \cup flags

user_enable_intercept(flags, pname) ==
    /\ intercepts' = IF "TASKSWITCH" \in flags THEN intercepts \cup {"WRITE_CR3"} ELSE intercepts
    /\ ptracked' = IF "TASKSWITCH" \in flags THEN vm_add_tracked_process(ptracked, pname)
                   ELSE ptracked
    /\ itc_flag' = itc_flag \cup flags

(* Faulty: the cr3 interception outlives the request.                      *)
Fault_disable_leaves_cr3(flags, pname) ==
    /\ itc_flag' = itc_flag \ flags
    /\ UNCHANGED <<ptracked, intercepts>>

user_disable_intercept(flags, pname) ==
    /\ ptracked' = IF "TASKSWITCH" \in flags THEN vm_remove_tracked_process(ptracked, pname)
                   ELSE ptracked
    /\ intercepts' = IF "TASKSWITCH" \in flags /\ ptracked' = <<>>
                     THEN intercepts \ {"WRITE_CR3"} ELSE intercepts
    /\ itc_flag' = itc_flag \ flags

(* rip moves past the vmmcall, then the command in ebx is obeyed; anything *)
(* but enable and disable changes nothing.                                 *)
__handle_vm_vmmcall ==
    /\ Handles("VMMCALL")
    /\ insn' = "run"
    /\ \E flags \in Requests, cmd \in Cmds, pname \in Dirs :
          LET ebx == GuestReg(cmd, "ENABLE")
              ecx == GuestReg(flags, {})
          IN  \/ ebx = "ENABLE" /\ user_enable_intercept(ecx, pname)
              \/ ebx = "DISABLE" /\ user_disable_intercept(ecx, pname)
              \/ ebx \notin {"ENABLE", "DISABLE"} /\ UNCHANGED <<intercepts, ptracked, itc_flag>>
    /\ UNCHANGED <<pferr, eventinj, tf, cr3, prot, itc_skip_flag, btrackcurrent, syscallmap,
                   fmap, cur, next, dying, stack, halted>>

__handle_vm_npf ==
    /\ Handles("NPF")
    /\ halted' = TRUE
    /\ UNCHANGED <<pferr, eventinj, intercepts, tf, cr3, prot, vmVars, guestVars>>

(* die(): the processor stops.                                             *)
Halted == halted /\ UNCHANGED vars

GuestStep ==
    \/ ExecRun \/ ExecStore \/ ExecInt \/ ExecVmmcall \/ ExecTouch \/ ExecIret
    \/ ExecMovCr3 \/ ExecSwtch \/ ExecPopf

handle_vmexit ==
    \/ __handle_vm_swint \/ __handle_vm_iret \/ __handle_db \/ __handle_pf
    \/ __handle_cr3_write \/ __handle_popf \/ __handle_vm_vmmcall \/ __handle_vm_npf

Next == GuestStep \/ Interrupt \/ VmrunInject \/ handle_vmexit \/ Halted

Spec == Init /\ [][Next]_vars

(* The CPU goes on executing the guest, and vm_boot calls the handler as   *)
(* soon as the guest has stopped.                                          *)
FairSpec == Spec /\ WF_vars(GuestStep) /\ WF_vars(VmrunInject) /\ WF_vars(handle_vmexit)

-----------------------------------------------------------------------------
(* The vmcb, the flags and the guest keep their types.                     *)
StateOK ==
    /\ exitcode \in Exits /\ pferr \in {"np", "wp"}
    /\ eventinj \in {"NONE", "INT80", "INTN", "PF"}
    /\ intercepts \subseteq Bits /\ tf \in BOOLEAN
    /\ cr3 \in Dirs /\ prot \in [Dirs -> BOOLEAN]
    /\ itc_flag \subseteq Flags /\ itc_skip_flag \subseteq {"IRET", "TASKSWITCH", "UNPACK"}
    /\ btrackcurrent \in BOOLEAN /\ ptracked \in Seq(Dirs)
    /\ cur \in Threads /\ next \in Threads /\ insn \in Insns
    /\ dying \in {FALSE, Kill} /\ halted \in BOOLEAN
    /\ stack \in [Threads -> Seq(Frames)]

(* So do the two tables of struct vm_info.                                 *)
TypeOK ==
    /\ StateOK
    /\ syscallmap \in Seq([tid : Threads, syscallno : Syscallnos])
    /\ fmap \in Seq([fid : Fds \cup 0 .. 2, fname : Names \cup {"stdin", "stdout", "stderr"}])

(* An interception that __skip_intercpt_cur_instr turned off comes back:   *)
(* while one is off, #DB is intercepted and TF is set, in rflags or in a   *)
(* frame that will be popped, so the handler that turns it on will run.    *)
WindowClosable ==
    itc_skip_flag # {} =>
        /\ "DB" \in intercepts
        /\ \/ tf \/ exitcode = "DB"
           \/ \E t \in Threads : \E i \in DOMAIN stack[t] : stack[t][i].tf

(* Writes to cr3 are intercepted exactly when the user asked for it, the   *)
(* one mov cr3 being skipped excepted: the windows that the handlers open  *)
(* and close never lose the request and never outlive it.                  *)
TaskSwitchExact ==
    "WRITE_CR3" \in intercepts <=> "TASKSWITCH" \in itc_flag \ itc_skip_flag

(* "Skip a specific intercept for current instruction": an interception of *)
(* iret or of mov cr3 is off for the one instruction that trapped, and the *)
(* guest executes no other before the #DB that turns it on again.          *)
WindowIsOneInstruction ==
    /\ "IRET" \in itc_skip_flag => exitcode = "DB" \/ (exitcode = "NONE" /\ insn = "iret")
    /\ "TASKSWITCH" \in itc_skip_flag =>
          \/ exitcode = "DB" /\ insn = "swtch"
          \/ exitcode = "NONE" /\ insn = "movcr3"

(* The same for the interception of writes (__handle_vm_exception, "skip   *)
(* handling next instruction").                                            *)
UnpackWindowIsOneInstruction ==
    "UNPACK" \in itc_skip_flag => exitcode = "DB" \/ insn = "store"

(* POPF is intercepted only inside a context switch, between the mov cr3   *)
(* and the popf that ends it: an ordinary popf of the guest never traps.   *)
PopfPaired == "POPF" \in intercepts => insn \in {"movcr3", "swtch", "popf"}

(* The trap flag that the VMM sets is the VMM's: whenever the guest is     *)
(* about to execute with TF set, the #DB goes to the VMM and never to the  *)
(* guest's own debug handler.                                              *)
TrapFlagOwned == Running /\ tf => "DB" \in intercepts

(* While a thread waits for the end of a system call the next iret is      *)
(* seen by the VMM, or is the one it is just letting through.              *)
ReturnWillBeSeen ==
    syscallmap # <<>> => "IRET" \in intercepts \cup itc_skip_flag

InSyscall(t) == \E i \in DOMAIN stack[t] : stack[t][i].kind = "sys"

(* syscallmap is a "map from thread id to syscall number that the thread   *)
(* is waiting on": at most one entry for a thread, and only while the      *)
(* thread is inside a system call.                                         *)
WaitingIsCurrent ==
    \A i \in DOMAIN syscallmap :
       LET t == syscallmap[i].tid
       IN  /\ InSyscall(t) \/ (t = cur /\ eventinj = "INT80")
           /\ \A j \in DOMAIN syscallmap : syscallmap[j].tid = t => i = j

(* When a context switch that changes cr3 ends, all the interceptions that *)
(* are asked for are on, and the new page directory is write-protected if  *)
(* UNPACK is.                                                              *)
SwitchArms ==
    [][ insn = "popf" /\ insn' = "run" /\ "TASKSWITCH" \in itc_flag =>
          /\ BitsOf(itc_flag) \subseteq intercepts
          /\ "UNPACK" \in itc_flag => prot[cr3] ]_vars

(* An instruction that is intercepted and executed again completes: the    *)
(* switch and the return from the kernel never loop back to the VMM.       *)
InterceptedCompletes == \A i \in InterruptsOff : insn = i ~> insn # i

(* "else => page fault caused by normal guest activity": the write fault   *)
(* that is injected is not one the VMM's own write protection causes.      *)
InjectedFaultIsGuests == eventinj = "PF" /\ pferr = "wp" => ~prot[cr3]

(* The result of an open is taken at the iret that ends the system call,   *)
(* not at one that ends an interrupt inside it.                            *)
ResultTakenAtReturn == [][fmap' # fmap => Top(cur).kind = "sys"]_vars

=============================================================================
