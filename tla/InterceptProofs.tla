-------------------------- MODULE InterceptProofs --------------------------
(***************************************************************************)
(* Invariants of Intercept for every set of threads, page directories,     *)
(* requests and system calls, and with no bound on the depth of a stack or *)
(* the length of a table.                                                  *)
(*                                                                         *)
(* The properties are not inductive alone.  That an interception is off    *)
(* for one instruction only depends on TF and the #DB interception being   *)
(* on when the instruction starts, on no event waiting to be injected in   *)
(* front of it, and on the instruction being the one that trapped; that in *)
(* turn depends on what instruction an exit code stands for, and on frames *)
(* being left at interruptible instructions only.                          *)
(***************************************************************************)
EXTENDS Intercept, NatLemmas, SequenceTheorems

(* The instruction that raised the #VMEXIT is still at rip.                *)
ExitInsn ==
    /\ exitcode = "SWINT" => insn \in {"int80", "intn"}
    /\ exitcode = "PF" => insn = "store"
    /\ exitcode = "VMMCALL" => insn = "vmmcall"
    /\ exitcode = "IRET" => insn = "iret"
    /\ exitcode = "CR3_WRITE" => insn = "movcr3" /\ "WRITE_CR3" \in intercepts
    /\ exitcode = "POPF" => insn = "popf"
    /\ eventinj # "NONE" => exitcode = "NONE" /\ insn \notin InterruptsOff

(* A thread that is not running has been switched out, and the running one *)
(* is in the kernel when it returns or switches.                           *)
StackShape ==
    /\ \A t \in Threads : t # cur => stack[t] # <<>>
    /\ insn \in InterruptsOff => stack[cur] # <<>>
    /\ insn \in {"movcr3", "swtch"} => next # cur

(* A window is open: its one instruction is about to execute, with the     *)
(* interception off and single stepping on, or has executed.               *)
OpenWindow ==
    /\ "IRET" \in itc_skip_flag =>
          \/ exitcode = "DB"
          \/ /\ exitcode = "NONE" /\ insn = "iret"
             /\ tf = TRUE /\ "DB" \in intercepts /\ "IRET" \notin intercepts
    /\ "TASKSWITCH" \in itc_skip_flag =>
          /\ "TASKSWITCH" \in itc_flag
          /\ \/ exitcode = "DB" /\ insn = "swtch"
             \/ exitcode = "NONE" /\ insn = "movcr3" /\ tf = TRUE /\ "DB" \in intercepts

IndInv ==
    /\ StateOK
    /\ ptracked = <<>>
    /\ ExitInsn
    /\ StackShape
    /\ OpenWindow
    /\ TaskSwitchExact
    /\ PopfPaired
    /\ ReturnWillBeSeen

(* The sequence operators Front and Last, on a sequence that is not empty. *)
LEMMA FrontLast ==
    ASSUME NEW S, NEW s \in Seq(S), s # <<>>
    PROVE  Front(s) \in Seq(S) /\ Last(s) \in S
BY DEF Front, Last

(* The interception bits that each flag of vm_enable_intercept stands for. *)
LEMMA BitsFacts ==
    /\ \A flags \in SUBSET Flags : BitsOf(flags) \subseteq Bits \ {"POPF"}
    /\ BitsOf({"IRET"}) = {"IRET"}
    /\ BitsOf({"STEP"}) = {"DB"}
    /\ BitsOf({"UNPACK"}) = {"PF"}
    /\ BitsOf({"TASKSWITCH"}) = {"WRITE_CR3"}
    /\ \A flags \in SUBSET Flags : "WRITE_CR3" \in BitsOf(flags) <=> "TASKSWITCH" \in flags
    /\ \A flags \in SUBSET Flags : "IRET" \in BitsOf(flags) <=> "IRET" \in flags
BY DEF BitsOf, Bits, Flags

(* The list of tracked names stays empty: vm_is_process_tracked says yes   *)
(* before vm_add_tracked_process can add a name.                           *)
LEMMA NothingTracked ==
    ASSUME NEW pname
    PROVE  /\ vm_add_tracked_process(<<>>, pname) = <<>>
           /\ vm_remove_tracked_process(<<>>, pname) = <<>>
BY DEF vm_add_tracked_process, vm_remove_tracked_process, vm_is_process_tracked, SelectInSeq

(* Rewriting the RW bits of the current page directory keeps the type.     *)
LEMMA ProtTyped ==
    ASSUME StateOK
    PROVE  /\ [prot EXCEPT ![cr3] = TRUE] \in [Dirs -> BOOLEAN]
           /\ [prot EXCEPT ![cr3] = FALSE] \in [Dirs -> BOOLEAN]
BY DEF StateOK

(* Event delivery keeps the type of the stacks.                            *)
LEMMA Push ==
    ASSUME StateOK, NEW k \in Kinds, NEW b \in BOOLEAN, NEW i \in Interruptible,
           NEW s, s = [stack EXCEPT ![cur] = Append(@, [kind |-> k, tf |-> b, insn |-> i])]
    PROVE  /\ s \in [Threads -> Seq(Frames)]
           /\ \A t \in Threads : s[t] = <<>> => t # cur /\ stack[t] = <<>>
<1> DEFINE f == [kind |-> k, tf |-> b, insn |-> i]
<1>1. f \in Frames
  BY DEF Frames
<1> HIDE DEF f
<1>2. Append(stack[cur], f) \in Seq(Frames) /\ Append(stack[cur], f) # <<>>
  BY <1>1 DEF StateOK
<1>3. s = [stack EXCEPT ![cur] = Append(stack[cur], f)]
  BY DEF StateOK, f
<1> QED BY <1>2, <1>3 DEF StateOK

(* So does a return, and what it returns to is interruptible.              *)
LEMMA Pop ==
    ASSUME StateOK, stack[cur] # <<>>
    PROVE  /\ [stack EXCEPT ![cur] = Front(@)] \in [Threads -> Seq(Frames)]
           /\ \A t \in Threads : t # cur => [stack EXCEPT ![cur] = Front(@)][t] = stack[t]
           /\ Top(cur).tf \in BOOLEAN /\ Top(cur).insn \in Interruptible
<1>1. Front(stack[cur]) \in Seq(Frames) /\ Last(stack[cur]) \in Frames
  BY FrontLast DEF StateOK
<1> QED BY <1>1 DEF StateOK, Top, Frames

(* A plain instruction of the guest keeps the invariant.                   *)
LEMMA ExecRunInv == IndInv /\ ExecRun => IndInv'
<1> SUFFICES ASSUME IndInv, ExecRun PROVE IndInv'
  OBVIOUS
<1> USE DEF IndInv, ExecRun, Running, guestVars, vmVars, StepTrap, CanPush, UserMode
<1>1. StateOK'
  <2>1. (insn \in Insns /\ next \in Threads)'
    <3>1. CASE UserMode
      BY <3>1 DEF StateOK, Insns, Interruptible
    <3>2. CASE ~UserMode
      BY <3>2 DEF StateOK, Insns, Interruptible, InterruptsOff
    <3> QED BY <3>1, <3>2
  <2>2. (exitcode \in Exits /\ tf \in BOOLEAN)'
    BY DEF StateOK, Exits
  <2>3. (dying \in {FALSE, Kill})'
    BY DEF StateOK
  <2> QED BY <2>1, <2>2, <2>3 DEF StateOK
<1>2. ExitInsn'
  BY OpsAssumption DEF StateOK, ExitInsn, PopfPaired, Insns, Interruptible, InterruptsOff
<1>3. StackShape'
  BY OpsAssumption DEF StateOK, ExitInsn, StackShape, OpenWindow, Insns, Interruptible, InterruptsOff
<1>4. OpenWindow'
  BY OpsAssumption, BitsFacts DEF StateOK, ExitInsn, OpenWindow, TaskSwitchExact, Insns, Interruptible, InterruptsOff
<1>5. PopfPaired'
  BY OpsAssumption, BitsFacts DEF StateOK, ExitInsn, PopfPaired, Flags, Insns, Interruptible, InterruptsOff
<1>6. (ptracked = <<>> /\ TaskSwitchExact /\ ReturnWillBeSeen)'
  BY DEF TaskSwitchExact, ReturnWillBeSeen
<1> QED BY <1>1, <1>2, <1>3, <1>4, <1>5, <1>6

(* A store keeps it, whether it completes, traps or faults.                *)
LEMMA ExecStoreInv == IndInv /\ ExecStore => IndInv'
<1> SUFFICES ASSUME IndInv, ExecStore PROVE IndInv'
  OBVIOUS
<1> USE DEF IndInv, ExecStore, Running, guestVars, vmVars, StepTrap, CanPush, StoreFault, Deliver
<1>1. stack' \in [Threads -> Seq(Frames)]
  BY Push DEF StateOK, ExitInsn, Kinds, Insns, Interruptible, InterruptsOff
<1>2. StateOK'
  BY <1>1, OpsAssumption, BoundsAssumption DEF StateOK, ExitInsn, StackShape, Flags, Bits, Exits, Insns, Interruptible, InterruptsOff
<1>3. ExitInsn'
  BY OpsAssumption DEF StateOK, ExitInsn, PopfPaired, Insns, Interruptible, InterruptsOff
<1>4. StackShape'
  BY <1>1, Push, OpsAssumption DEF StateOK, ExitInsn, StackShape, OpenWindow, Insns, Interruptible, InterruptsOff
<1>5. OpenWindow'
  BY OpsAssumption, BitsFacts DEF StateOK, ExitInsn, OpenWindow, TaskSwitchExact, Insns, Interruptible, InterruptsOff
<1>6. PopfPaired'
  BY OpsAssumption, BitsFacts DEF StateOK, ExitInsn, PopfPaired, Flags, Insns, Interruptible, InterruptsOff
<1>7. (ptracked = <<>> /\ TaskSwitchExact /\ ReturnWillBeSeen)'
  BY DEF TaskSwitchExact, ReturnWillBeSeen
<1> QED BY <1>2, <1>3, <1>4, <1>5, <1>6, <1>7

(* An int n keeps it.                                                      *)
LEMMA ExecIntInv == IndInv /\ ExecInt => IndInv'
<1> SUFFICES ASSUME IndInv, ExecInt PROVE IndInv'
  OBVIOUS
<1> USE DEF IndInv, ExecInt, Running, guestVars, vmVars, VmExit, CanPush
<1>1. stack' \in [Threads -> Seq(Frames)]
  BY Push DEF StateOK, ExitInsn, Kinds, Insns, Interruptible, InterruptsOff
<1>2. StateOK'
  BY <1>1, OpsAssumption, BoundsAssumption DEF StateOK, ExitInsn, StackShape, Flags, Bits, Exits, Insns, Interruptible, InterruptsOff
<1>3. ExitInsn'
  BY OpsAssumption DEF StateOK, ExitInsn, PopfPaired, Insns, Interruptible, InterruptsOff
<1>4. StackShape'
  BY <1>1, Push, OpsAssumption DEF StateOK, ExitInsn, StackShape, OpenWindow, Insns, Interruptible, InterruptsOff
<1>5. OpenWindow'
  BY OpsAssumption, BitsFacts DEF StateOK, ExitInsn, OpenWindow, TaskSwitchExact, Insns, Interruptible, InterruptsOff
<1>6. PopfPaired'
  BY OpsAssumption, BitsFacts DEF StateOK, ExitInsn, PopfPaired, Flags, Insns, Interruptible, InterruptsOff
<1>7. (ptracked = <<>> /\ TaskSwitchExact /\ ReturnWillBeSeen)'
  BY DEF TaskSwitchExact, ReturnWillBeSeen
<1> QED BY <1>2, <1>3, <1>4, <1>5, <1>6, <1>7

(* A vmmcall keeps it.                                                     *)
LEMMA ExecVmmcallInv == IndInv /\ ExecVmmcall => IndInv'
<1> SUFFICES ASSUME IndInv, ExecVmmcall PROVE IndInv'
  OBVIOUS
<1> USE DEF IndInv, ExecVmmcall, Running, guestVars, vmVars, VmExit
<1>1. StateOK'
  BY OpsAssumption, BoundsAssumption DEF StateOK, ExitInsn, StackShape, Flags, Bits, Exits, Insns, Interruptible, InterruptsOff
<1>2. ExitInsn'
  BY OpsAssumption DEF StateOK, ExitInsn, PopfPaired, Insns, Interruptible, InterruptsOff
<1>3. StackShape'
  BY OpsAssumption DEF StateOK, ExitInsn, StackShape, OpenWindow, Insns, Interruptible, InterruptsOff
<1>4. OpenWindow'
  BY OpsAssumption, BitsFacts DEF StateOK, ExitInsn, OpenWindow, TaskSwitchExact, Insns, Interruptible, InterruptsOff
<1>5. PopfPaired'
  BY OpsAssumption, BitsFacts DEF StateOK, ExitInsn, PopfPaired, Flags, Insns, Interruptible, InterruptsOff
<1>6. (ptracked = <<>> /\ TaskSwitchExact /\ ReturnWillBeSeen)'
  BY DEF TaskSwitchExact, ReturnWillBeSeen
<1> QED BY <1>1, <1>2, <1>3, <1>4, <1>5, <1>6

(* An access the nested page table refuses keeps it.                       *)
LEMMA ExecTouchInv == IndInv /\ ExecTouch => IndInv'
<1> SUFFICES ASSUME IndInv, ExecTouch PROVE IndInv'
  OBVIOUS
<1> USE DEF IndInv, ExecTouch, Running, guestVars, vmVars, VmExit
<1>1. StateOK'
  BY OpsAssumption, BoundsAssumption DEF StateOK, ExitInsn, StackShape, Flags, Bits, Exits, Insns, Interruptible, InterruptsOff
<1>2. ExitInsn'
  BY OpsAssumption DEF StateOK, ExitInsn, PopfPaired, Insns, Interruptible, InterruptsOff
<1>3. StackShape'
  BY OpsAssumption DEF StateOK, ExitInsn, StackShape, OpenWindow, Insns, Interruptible, InterruptsOff
<1>4. OpenWindow'
  BY OpsAssumption, BitsFacts DEF StateOK, ExitInsn, OpenWindow, TaskSwitchExact, Insns, Interruptible, InterruptsOff
<1>5. PopfPaired'
  BY OpsAssumption, BitsFacts DEF StateOK, ExitInsn, PopfPaired, Flags, Insns, Interruptible, InterruptsOff
<1>6. (ptracked = <<>> /\ TaskSwitchExact /\ ReturnWillBeSeen)'
  BY DEF TaskSwitchExact, ReturnWillBeSeen
<1> QED BY <1>1, <1>2, <1>3, <1>4, <1>5, <1>6

(* An iret keeps it: the one being let through ends in #DB.                *)
LEMMA ExecIretInv == IndInv /\ ExecIret => IndInv'
<1> SUFFICES ASSUME IndInv, ExecIret PROVE IndInv'
  OBVIOUS
<1> USE DEF IndInv, ExecIret, Running, guestVars, vmVars, VmExit, StepTrap
<1>1. stack' \in [Threads -> Seq(Frames)]
  BY Pop DEF StateOK, StackShape, InterruptsOff
<1>2. StateOK'
  BY <1>1, Pop, OpsAssumption, BoundsAssumption DEF StateOK, ExitInsn, StackShape, Flags, Bits, Exits, Insns, Interruptible, InterruptsOff
<1>3. ExitInsn'
  BY Pop, OpsAssumption DEF StateOK, ExitInsn, PopfPaired, Insns, Interruptible, InterruptsOff
<1>4. StackShape'
  BY <1>1, Pop, OpsAssumption DEF StateOK, ExitInsn, StackShape, OpenWindow, Insns, Interruptible, InterruptsOff
<1>5. OpenWindow'
  BY Pop, OpsAssumption, BitsFacts DEF StateOK, ExitInsn, OpenWindow, TaskSwitchExact, Insns, Interruptible, InterruptsOff
<1>6. PopfPaired'
  BY OpsAssumption, BitsFacts DEF StateOK, ExitInsn, PopfPaired, Flags, Insns, Interruptible, InterruptsOff
<1>7. (ptracked = <<>> /\ TaskSwitchExact /\ ReturnWillBeSeen)'
  BY DEF TaskSwitchExact, ReturnWillBeSeen
<1> QED BY <1>2, <1>3, <1>4, <1>5, <1>6, <1>7

(* A mov cr3 keeps it, likewise.                                           *)
LEMMA ExecMovCr3Inv == IndInv /\ ExecMovCr3 => IndInv'
<1> SUFFICES ASSUME IndInv, ExecMovCr3 PROVE IndInv'
  OBVIOUS
<1> USE DEF IndInv, ExecMovCr3, Running, guestVars, vmVars, VmExit, StepTrap
<1>1. StateOK'
  BY DEF StateOK, Dirs, Exits, Insns, Interruptible, InterruptsOff
<1>2. ExitInsn'
  BY OpsAssumption DEF StateOK, ExitInsn, PopfPaired, Insns, Interruptible, InterruptsOff
<1>3. StackShape'
  BY OpsAssumption DEF StateOK, ExitInsn, StackShape, OpenWindow, Insns, Interruptible, InterruptsOff
<1>4. OpenWindow'
  BY OpsAssumption, BitsFacts DEF StateOK, ExitInsn, OpenWindow, TaskSwitchExact, Insns, Interruptible, InterruptsOff
<1>5. PopfPaired'
  BY OpsAssumption, BitsFacts DEF StateOK, ExitInsn, PopfPaired, Flags, Insns, Interruptible, InterruptsOff
<1>6. (ptracked = <<>> /\ TaskSwitchExact /\ ReturnWillBeSeen)'
  BY DEF TaskSwitchExact, ReturnWillBeSeen
<1> QED BY <1>1, <1>2, <1>3, <1>4, <1>5, <1>6

(* The change of stacks keeps it: no window of iret or mov cr3 is open at  *)
(* it.                                                                     *)
LEMMA ExecSwtchInv == IndInv /\ ExecSwtch => IndInv'
<1> SUFFICES ASSUME IndInv, ExecSwtch PROVE IndInv'
  OBVIOUS
<1> USE DEF IndInv, ExecSwtch, Running, guestVars, vmVars, StepTrap, NewThread
<1>1. /\ stack' \in [Threads -> Seq(Frames)]
      /\ \A t \in Threads : stack'[t] = <<>> => t # cur /\ stack[t] = <<>>
  <2>1. CASE dying
    <3>1. NewThread \in Seq(Frames) /\ NewThread # <<>>
      BY DEF NewThread, Frames, Kinds, Interruptible
    <3> QED BY <2>1, <3>1 DEF StateOK
  <2>2. CASE ~dying
    BY <2>2, Push DEF StateOK, Kinds, Interruptible
  <2> QED BY <2>1, <2>2
<1>2. StateOK'
  BY <1>1, OpsAssumption, BoundsAssumption DEF StateOK, ExitInsn, StackShape, Flags, Bits, Exits, Insns, Interruptible, InterruptsOff
<1>3. ExitInsn'
  BY OpsAssumption DEF StateOK, ExitInsn, PopfPaired, Insns, Interruptible, InterruptsOff
<1>4. StackShape'
  BY <1>1, OpsAssumption DEF StateOK, ExitInsn, StackShape, OpenWindow, Insns, Interruptible, InterruptsOff
<1>5. OpenWindow'
  BY OpsAssumption, BitsFacts DEF StateOK, ExitInsn, OpenWindow, TaskSwitchExact, Insns, Interruptible, InterruptsOff
<1>6. PopfPaired'
  BY OpsAssumption, BitsFacts DEF StateOK, ExitInsn, PopfPaired, Flags, Insns, Interruptible, InterruptsOff
<1>7. (ptracked = <<>> /\ TaskSwitchExact /\ ReturnWillBeSeen)'
  BY DEF TaskSwitchExact, ReturnWillBeSeen
<1> QED BY <1>2, <1>3, <1>4, <1>5, <1>6, <1>7

(* The popf that ends a switch keeps it.                                   *)
LEMMA ExecPopfInv == IndInv /\ ExecPopf => IndInv'
<1> SUFFICES ASSUME IndInv, ExecPopf PROVE IndInv'
  OBVIOUS
<1> USE DEF IndInv, ExecPopf, Running, guestVars, vmVars, VmExit, StepTrap
<1>1. stack' \in [Threads -> Seq(Frames)]
  BY Pop DEF StateOK, StackShape, InterruptsOff
<1>2. StateOK'
  BY <1>1, Pop, OpsAssumption, BoundsAssumption DEF StateOK, ExitInsn, StackShape, Flags, Bits, Exits, Insns, Interruptible, InterruptsOff
<1>3. ExitInsn'
  BY Pop, OpsAssumption DEF StateOK, ExitInsn, PopfPaired, Insns, Interruptible, InterruptsOff
<1>4. StackShape'
  BY <1>1, Pop, OpsAssumption DEF StateOK, ExitInsn, StackShape, OpenWindow, Insns, Interruptible, InterruptsOff
<1>5. OpenWindow'
  BY Pop, OpsAssumption, BitsFacts DEF StateOK, ExitInsn, OpenWindow, TaskSwitchExact, Insns, Interruptible, InterruptsOff
<1>6. PopfPaired'
  BY OpsAssumption, BitsFacts DEF StateOK, ExitInsn, PopfPaired, Flags, Insns, Interruptible, InterruptsOff
<1>7. (ptracked = <<>> /\ TaskSwitchExact /\ ReturnWillBeSeen)'
  BY DEF TaskSwitchExact, ReturnWillBeSeen
<1> QED BY <1>2, <1>3, <1>4, <1>5, <1>6, <1>7

(* An interrupt keeps it: it never comes at an iret or inside a switch.    *)
LEMMA InterruptInv == IndInv /\ Interrupt => IndInv'
<1> SUFFICES ASSUME IndInv, Interrupt PROVE IndInv'
  OBVIOUS
<1> USE DEF IndInv, Interrupt, Running, guestVars, vmVars, Deliver, CanPush
<1>1. stack' \in [Threads -> Seq(Frames)]
  BY Push DEF StateOK, ExitInsn, Kinds, Insns, Interruptible, InterruptsOff
<1>2. StateOK'
  BY <1>1, OpsAssumption, BoundsAssumption DEF StateOK, ExitInsn, StackShape, Flags, Bits, Exits, Insns, Interruptible, InterruptsOff
<1>3. ExitInsn'
  BY OpsAssumption DEF StateOK, ExitInsn, PopfPaired, Insns, Interruptible, InterruptsOff
<1>4. StackShape'
  BY <1>1, Push, OpsAssumption DEF StateOK, ExitInsn, StackShape, OpenWindow, Insns, Interruptible, InterruptsOff
<1>5. OpenWindow'
  BY OpsAssumption, BitsFacts DEF StateOK, ExitInsn, OpenWindow, TaskSwitchExact, Insns, Interruptible, InterruptsOff
<1>6. PopfPaired'
  BY OpsAssumption, BitsFacts DEF StateOK, ExitInsn, PopfPaired, Flags, Insns, Interruptible, InterruptsOff
<1>7. (ptracked = <<>> /\ TaskSwitchExact /\ ReturnWillBeSeen)'
  BY DEF TaskSwitchExact, ReturnWillBeSeen
<1> QED BY <1>2, <1>3, <1>4, <1>5, <1>6, <1>7

(* The injection of an event keeps it.                                     *)
LEMMA VmrunInjectInv == IndInv /\ VmrunInject => IndInv'
<1> SUFFICES ASSUME IndInv, VmrunInject PROVE IndInv'
  OBVIOUS
<1> USE DEF IndInv, VmrunInject, Running, guestVars, vmVars, Deliver
<1>1. stack' \in [Threads -> Seq(Frames)]
  BY Push DEF StateOK, ExitInsn, Kinds, Insns, Interruptible, InterruptsOff
<1>2. StateOK'
  BY <1>1, OpsAssumption, BoundsAssumption DEF StateOK, ExitInsn, StackShape, Flags, Bits, Exits, Insns, Interruptible, InterruptsOff
<1>3. ExitInsn'
  BY OpsAssumption DEF StateOK, ExitInsn, PopfPaired, Insns, Interruptible, InterruptsOff
<1>4. StackShape'
  BY <1>1, Push, OpsAssumption DEF StateOK, ExitInsn, StackShape, OpenWindow, Insns, Interruptible, InterruptsOff
<1>5. OpenWindow'
  BY OpsAssumption, BitsFacts DEF StateOK, ExitInsn, OpenWindow, TaskSwitchExact, Insns, Interruptible, InterruptsOff
<1>6. PopfPaired'
  BY OpsAssumption, BitsFacts DEF StateOK, ExitInsn, PopfPaired, Flags, Insns, Interruptible, InterruptsOff
<1>7. (ptracked = <<>> /\ TaskSwitchExact /\ ReturnWillBeSeen)'
  BY DEF TaskSwitchExact, ReturnWillBeSeen
<1> QED BY <1>2, <1>3, <1>4, <1>5, <1>6, <1>7

(* __handle_vm_swint keeps it: a thread is entered only together with the  *)
(* interception of iret.                                                   *)
LEMMA HandleVmSwintInv == IndInv /\ __handle_vm_swint => IndInv'
<1> SUFFICES ASSUME IndInv, __handle_vm_swint PROVE IndInv'
  OBVIOUS
<1> USE DEF IndInv, __handle_vm_swint, Handles, guestVars, vmVars, __handle_syscall
<1>1. StateOK'
  BY OpsAssumption, BoundsAssumption DEF StateOK, ExitInsn, StackShape, Flags, Bits, Exits, Insns, Interruptible, InterruptsOff
<1>2. ExitInsn'
  BY OpsAssumption DEF StateOK, ExitInsn, PopfPaired, Insns, Interruptible, InterruptsOff
<1>3. StackShape'
  BY OpsAssumption DEF StateOK, ExitInsn, StackShape, OpenWindow, Insns, Interruptible, InterruptsOff
<1>4. OpenWindow'
  BY OpsAssumption, BitsFacts DEF StateOK, ExitInsn, OpenWindow, TaskSwitchExact, Insns, Interruptible, InterruptsOff
<1>5. PopfPaired'
  BY OpsAssumption, BitsFacts DEF StateOK, ExitInsn, PopfPaired, Flags, Insns, Interruptible, InterruptsOff
<1>6. TaskSwitchExact'
  BY BitsFacts DEF StateOK, ExitInsn, OpenWindow, TaskSwitchExact, Flags
<1>7. (ptracked = <<>> /\ ReturnWillBeSeen)'
  BY BitsFacts DEF StateOK, ReturnWillBeSeen, Flags
<1> QED BY <1>1, <1>2, <1>3, <1>4, <1>5, <1>6, <1>7

(* __handle_vm_iret keeps it: it opens a window on the iret it stopped.    *)
LEMMA HandleVmIretInv == IndInv /\ __handle_vm_iret => IndInv'
<1> SUFFICES ASSUME IndInv, __handle_vm_iret PROVE IndInv'
  OBVIOUS
<1> USE DEF IndInv, __handle_vm_iret, Handles, guestVars, vmVars, __skip_intercpt_cur_instr, protect
<1>1. StateOK'
  BY BitsFacts, OpsAssumption, BoundsAssumption DEF StateOK, ExitInsn, StackShape, Flags, Bits, Exits, Insns, Interruptible, InterruptsOff
<1>2. ExitInsn'
  BY OpsAssumption DEF StateOK, ExitInsn, PopfPaired, Insns, Interruptible, InterruptsOff
<1>3. StackShape'
  BY OpsAssumption DEF StateOK, ExitInsn, StackShape, OpenWindow, Insns, Interruptible, InterruptsOff
<1>4. OpenWindow'
  BY OpsAssumption, BitsFacts DEF StateOK, ExitInsn, OpenWindow, TaskSwitchExact, Insns, Interruptible, InterruptsOff
<1>5. PopfPaired'
  BY OpsAssumption, BitsFacts DEF StateOK, ExitInsn, PopfPaired, Flags, Insns, Interruptible, InterruptsOff
<1>6. TaskSwitchExact'
  BY BitsFacts DEF StateOK, ExitInsn, OpenWindow, TaskSwitchExact, Flags
<1>7. (ptracked = <<>> /\ ReturnWillBeSeen)'
  BY BitsFacts DEF StateOK, ReturnWillBeSeen, Flags
<1> QED BY <1>1, <1>2, <1>3, <1>4, <1>5, <1>6, <1>7

(* The #DB case of __handle_vm_exception keeps it: it closes all windows.  *)
LEMMA HandleDbInv == IndInv /\ __handle_db => IndInv'
<1> SUFFICES ASSUME IndInv, __handle_db PROVE IndInv'
  OBVIOUS
<1> USE DEF IndInv, __handle_db, Handles, guestVars, vmVars, KeepStepping, protect
<1>1. StateOK'
  <2>1. (cr3 \in Dirs /\ prot \in [Dirs -> BOOLEAN])'
    BY ProtTyped DEF StateOK
  <2>2. (intercepts \subseteq Bits)'
    BY BitsFacts DEF StateOK, Flags, Bits
  <2>3. (itc_skip_flag \subseteq {"IRET", "TASKSWITCH", "UNPACK"})'
    BY DEF StateOK
  <2> QED BY <2>1, <2>2, <2>3 DEF StateOK, Exits
<1>2. ExitInsn'
  BY OpsAssumption DEF StateOK, ExitInsn, PopfPaired, Insns, Interruptible, InterruptsOff
<1>3. StackShape'
  BY OpsAssumption DEF StateOK, ExitInsn, StackShape, OpenWindow, Insns, Interruptible, InterruptsOff
<1>4. OpenWindow'
  BY OpsAssumption, BitsFacts DEF StateOK, ExitInsn, OpenWindow, TaskSwitchExact, Insns, Interruptible, InterruptsOff
<1>5. PopfPaired'
  BY OpsAssumption, BitsFacts DEF StateOK, ExitInsn, PopfPaired, Flags, Insns, Interruptible, InterruptsOff
<1>6. TaskSwitchExact'
  BY BitsFacts DEF StateOK, ExitInsn, OpenWindow, TaskSwitchExact, Flags
<1>7. (ptracked = <<>> /\ ReturnWillBeSeen)'
  BY BitsFacts DEF StateOK, ReturnWillBeSeen, Flags
<1> QED BY <1>1, <1>2, <1>3, <1>4, <1>5, <1>6, <1>7

(* The #PF case keeps it.                                                  *)
LEMMA HandlePfInv == IndInv /\ __handle_pf => IndInv'
<1> SUFFICES ASSUME IndInv, __handle_pf PROVE IndInv'
  OBVIOUS
<1> USE DEF IndInv, __handle_pf, Handles, guestVars, vmVars, __skip_intercpt_cur_instr, protect
<1>1. StateOK'
  <2>1. (cr3 \in Dirs /\ prot \in [Dirs -> BOOLEAN])'
    BY ProtTyped DEF StateOK
  <2>2. (intercepts \subseteq Bits)'
    BY BitsFacts DEF StateOK, Flags, Bits
  <2>3. (itc_skip_flag \subseteq {"IRET", "TASKSWITCH", "UNPACK"})'
    BY DEF StateOK
  <2> QED BY <2>1, <2>2, <2>3 DEF StateOK, Exits
<1>2. ExitInsn'
  BY OpsAssumption DEF StateOK, ExitInsn, PopfPaired, Insns, Interruptible, InterruptsOff
<1>3. StackShape'
  BY OpsAssumption DEF StateOK, ExitInsn, StackShape, OpenWindow, Insns, Interruptible, InterruptsOff
<1>4. OpenWindow'
  BY OpsAssumption, BitsFacts DEF StateOK, ExitInsn, OpenWindow, TaskSwitchExact, Insns, Interruptible, InterruptsOff
<1>5. PopfPaired'
  BY OpsAssumption, BitsFacts DEF StateOK, ExitInsn, PopfPaired, Flags, Insns, Interruptible, InterruptsOff
<1>6. TaskSwitchExact'
  BY BitsFacts DEF StateOK, ExitInsn, OpenWindow, TaskSwitchExact, Flags
<1>7. (ptracked = <<>> /\ ReturnWillBeSeen)'
  BY BitsFacts DEF StateOK, ReturnWillBeSeen, Flags
<1> QED BY <1>1, <1>2, <1>3, <1>4, <1>5, <1>6, <1>7

(* __handle_cr3_write keeps it: it opens a window on the mov cr3.          *)
LEMMA HandleCr3WriteInv == IndInv /\ __handle_cr3_write => IndInv'
<1> SUFFICES ASSUME IndInv, __handle_cr3_write PROVE IndInv'
  OBVIOUS
<1> USE DEF IndInv, __handle_cr3_write, Handles, guestVars, vmVars, __skip_intercpt_cur_instr, protect
<1>1. StateOK'
  BY BitsFacts, OpsAssumption, BoundsAssumption DEF StateOK, ExitInsn, StackShape, Flags, Bits, Exits, Insns, Interruptible, InterruptsOff
<1>2. ExitInsn'
  BY OpsAssumption DEF StateOK, ExitInsn, PopfPaired, Insns, Interruptible, InterruptsOff
<1>3. StackShape'
  BY OpsAssumption DEF StateOK, ExitInsn, StackShape, OpenWindow, Insns, Interruptible, InterruptsOff
<1>4. OpenWindow'
  BY OpsAssumption, BitsFacts DEF StateOK, ExitInsn, OpenWindow, TaskSwitchExact, Insns, Interruptible, InterruptsOff
<1>5. PopfPaired'
  BY OpsAssumption, BitsFacts DEF StateOK, ExitInsn, PopfPaired, Flags, Insns, Interruptible, InterruptsOff
<1>6. TaskSwitchExact'
  BY BitsFacts DEF StateOK, ExitInsn, OpenWindow, TaskSwitchExact, Flags
<1>7. (ptracked = <<>> /\ ReturnWillBeSeen)'
  BY BitsFacts DEF StateOK, ReturnWillBeSeen, Flags
<1> QED BY <1>1, <1>2, <1>3, <1>4, <1>5, <1>6, <1>7

(* __handle_popf keeps it: POPF goes off before the guest goes on.         *)
LEMMA HandlePopfInv == IndInv /\ __handle_popf => IndInv'
<1> SUFFICES ASSUME IndInv, __handle_popf PROVE IndInv'
  OBVIOUS
<1> USE DEF IndInv, __handle_popf, Handles, guestVars, vmVars, vm_enable_intercept, vm_disable_intercept, vm_is_process_tracked, protect
<1>1. StateOK'
  <2>1. (cr3 \in Dirs /\ prot \in [Dirs -> BOOLEAN])'
    BY ProtTyped DEF StateOK
  <2>2. (intercepts \subseteq Bits)'
    BY BitsFacts DEF StateOK, Flags, Bits
  <2>3. (itc_skip_flag \subseteq {"IRET", "TASKSWITCH", "UNPACK"})'
    BY DEF StateOK
  <2> QED BY <2>1, <2>2, <2>3 DEF StateOK, Exits
<1>2. ExitInsn'
  BY OpsAssumption DEF StateOK, ExitInsn, PopfPaired, Insns, Interruptible, InterruptsOff
<1>3. StackShape'
  BY OpsAssumption DEF StateOK, ExitInsn, StackShape, OpenWindow, Insns, Interruptible, InterruptsOff
<1>4. OpenWindow'
  BY OpsAssumption, BitsFacts DEF StateOK, ExitInsn, OpenWindow, TaskSwitchExact, Insns, Interruptible, InterruptsOff
<1>5. PopfPaired'
  BY OpsAssumption, BitsFacts DEF StateOK, ExitInsn, PopfPaired, Flags, Insns, Interruptible, InterruptsOff
<1>6. TaskSwitchExact'
  BY BitsFacts DEF StateOK, ExitInsn, OpenWindow, TaskSwitchExact, Flags
<1>7. (ptracked = <<>> /\ ReturnWillBeSeen)'
  BY BitsFacts DEF StateOK, ReturnWillBeSeen, Flags
<1> QED BY <1>1, <1>2, <1>3, <1>4, <1>5, <1>6, <1>7

(* __handle_vm_vmmcall keeps it: WRITE_CR3 follows the request.            *)
LEMMA HandleVmVmmcallInv == IndInv /\ __handle_vm_vmmcall => IndInv'
<1> SUFFICES ASSUME IndInv, __handle_vm_vmmcall PROVE IndInv'
  OBVIOUS
<1> USE DEF IndInv, __handle_vm_vmmcall, Handles, guestVars, vmVars, user_enable_intercept, user_disable_intercept, GuestReg
<1>1. ptracked' = <<>>
  BY NothingTracked
<1>2. StateOK'
  BY <1>1, RequestsAssumption, OpsAssumption, BoundsAssumption DEF StateOK, ExitInsn, StackShape, Flags, Bits, Exits, Insns, Interruptible, InterruptsOff
<1>3. ExitInsn'
  BY OpsAssumption DEF StateOK, ExitInsn, PopfPaired, Insns, Interruptible, InterruptsOff
<1>4. StackShape'
  BY OpsAssumption DEF StateOK, ExitInsn, StackShape, OpenWindow, Insns, Interruptible, InterruptsOff
<1>5. OpenWindow'
  BY OpsAssumption, BitsFacts DEF StateOK, ExitInsn, OpenWindow, TaskSwitchExact, Insns, Interruptible, InterruptsOff
<1>6. PopfPaired'
  BY RequestsAssumption, OpsAssumption, BitsFacts DEF StateOK, ExitInsn, PopfPaired, Flags, Insns, Interruptible, InterruptsOff
<1>7. TaskSwitchExact'
  BY <1>1, RequestsAssumption, BitsFacts DEF StateOK, ExitInsn, OpenWindow, TaskSwitchExact, Flags
<1>8. (ptracked = <<>> /\ ReturnWillBeSeen)'
  BY RequestsAssumption, BitsFacts, <1>1 DEF StateOK, ReturnWillBeSeen, Flags
<1> QED BY <1>1, <1>2, <1>3, <1>4, <1>5, <1>6, <1>7, <1>8

(* __handle_vm_npf stops the machine and keeps it.                         *)
LEMMA HandleVmNpfInv == IndInv /\ __handle_vm_npf => IndInv'
<1> SUFFICES ASSUME IndInv, __handle_vm_npf PROVE IndInv'
  OBVIOUS
<1> USE DEF IndInv, __handle_vm_npf, Handles, guestVars, vmVars
<1>1. StateOK'
  BY OpsAssumption, BoundsAssumption DEF StateOK, ExitInsn, StackShape, Flags, Bits, Exits, Insns, Interruptible, InterruptsOff
<1>2. ExitInsn'
  BY OpsAssumption DEF StateOK, ExitInsn, PopfPaired, Insns, Interruptible, InterruptsOff
<1>3. StackShape'
  BY OpsAssumption DEF StateOK, ExitInsn, StackShape, OpenWindow, Insns, Interruptible, InterruptsOff
<1>4. OpenWindow'
  BY OpsAssumption, BitsFacts DEF StateOK, ExitInsn, OpenWindow, TaskSwitchExact, Insns, Interruptible, InterruptsOff
<1>5. PopfPaired'
  BY OpsAssumption, BitsFacts DEF StateOK, ExitInsn, PopfPaired, Flags, Insns, Interruptible, InterruptsOff
<1>6. TaskSwitchExact'
  BY BitsFacts DEF StateOK, ExitInsn, OpenWindow, TaskSwitchExact, Flags
<1>7. (ptracked = <<>> /\ ReturnWillBeSeen)'
  BY BitsFacts DEF StateOK, ReturnWillBeSeen, Flags
<1> QED BY <1>1, <1>2, <1>3, <1>4, <1>5, <1>6, <1>7

-----------------------------------------------------------------------------
(* The initial state: no interception, every thread but the running one    *)
(* switched out.                                                           *)
LEMMA InitInv == Init => IndInv
<1> SUFFICES ASSUME Init PROVE IndInv
  OBVIOUS
<1> USE DEF Init, VmmInit
<1>1. stack \in [Threads -> Seq(Frames)] /\ \A t \in Threads : t # cur => stack[t] # <<>>
  <2>1. NewThread \in Seq(Frames) /\ NewThread # <<>>
    BY DEF NewThread, Frames, Kinds, Interruptible
  <2> QED BY <2>1, ThreadsAssumption
<1>2. StateOK
  <2>1. cr3 \in Dirs /\ prot \in [Dirs -> BOOLEAN]
    BY ThreadsAssumption DEF Dirs
  <2>2. cur \in Threads /\ next \in Threads /\ insn \in Insns
    BY ThreadsAssumption DEF Insns, Interruptible
  <2>3. ptracked \in Seq(Dirs)
    OBVIOUS
  <2> QED BY <1>1, <2>1, <2>2, <2>3 DEF StateOK, Exits, Bits, Flags
<1>3. ExitInsn /\ OpenWindow /\ TaskSwitchExact /\ PopfPaired /\ ReturnWillBeSeen
  BY DEF ExitInsn, OpenWindow, TaskSwitchExact, PopfPaired, ReturnWillBeSeen
<1>4. StackShape
  BY <1>1 DEF StackShape, InterruptsOff
<1> QED BY <1>2, <1>3, <1>4 DEF IndInv

(* Every step of the guest and of the VMM keeps the invariant.             *)
LEMMA NextInv == IndInv /\ [Next]_vars => IndInv'
<1> SUFFICES ASSUME IndInv, [Next]_vars PROVE IndInv'
  OBVIOUS
<1>1. CASE ExecRun
  BY <1>1, ExecRunInv
<1>2. CASE ExecStore
  BY <1>2, ExecStoreInv
<1>3. CASE ExecInt
  BY <1>3, ExecIntInv
<1>4. CASE ExecVmmcall
  BY <1>4, ExecVmmcallInv
<1>5. CASE ExecTouch
  BY <1>5, ExecTouchInv
<1>6. CASE ExecIret
  BY <1>6, ExecIretInv
<1>7. CASE ExecMovCr3
  BY <1>7, ExecMovCr3Inv
<1>8. CASE ExecSwtch
  BY <1>8, ExecSwtchInv
<1>9. CASE ExecPopf
  BY <1>9, ExecPopfInv
<1>10. CASE Interrupt
  BY <1>10, InterruptInv
<1>11. CASE VmrunInject
  BY <1>11, VmrunInjectInv
<1>12. CASE __handle_vm_swint
  BY <1>12, HandleVmSwintInv
<1>13. CASE __handle_vm_iret
  BY <1>13, HandleVmIretInv
<1>14. CASE __handle_db
  BY <1>14, HandleDbInv
<1>15. CASE __handle_pf
  BY <1>15, HandlePfInv
<1>16. CASE __handle_cr3_write
  BY <1>16, HandleCr3WriteInv
<1>17. CASE __handle_popf
  BY <1>17, HandlePopfInv
<1>18. CASE __handle_vm_vmmcall
  BY <1>18, HandleVmVmmcallInv
<1>19. CASE __handle_vm_npf
  BY <1>19, HandleVmNpfInv
<1>20. CASE UNCHANGED vars
  <2> USE <1>20 DEF vars, vmcbVars, vmVars, guestVars, IndInv
  <2>1. StateOK'
    BY DEF StateOK
  <2>2. (ExitInsn /\ OpenWindow)'
    BY DEF ExitInsn, OpenWindow
  <2>3. StackShape'
    BY DEF StackShape
  <2>4. (TaskSwitchExact /\ PopfPaired /\ ReturnWillBeSeen)'
    BY DEF TaskSwitchExact, PopfPaired, ReturnWillBeSeen
  <2> QED BY <2>1, <2>2, <2>3, <2>4
<1> QED
  BY <1>1, <1>2, <1>3, <1>4, <1>5, <1>6, <1>7, <1>8, <1>9, <1>10, <1>11, <1>12, <1>13, <1>14, <1>15, <1>16, <1>17, <1>18, <1>19, <1>20 DEF Next, GuestStep, handle_vmexit, Halted

(* The inductive invariant holds in every reachable state.                 *)
THEOREM Invariance == Spec => []IndInv
<1> QED BY InitInv, NextInv, PTL DEF Spec

(* "Skip a specific intercept for current instruction": however the guest  *)
(* is scheduled and interrupted, an interception of iret or of mov cr3     *)
(* that __skip_intercpt_cur_instr turned off stays off for the instruction *)
(* that trapped and for no other.                                          *)
THEOREM OneInstruction == Spec => []WindowIsOneInstruction
<1>1. IndInv => WindowIsOneInstruction
  BY DEF IndInv, OpenWindow, WindowIsOneInstruction
<1> QED BY <1>1, Invariance, PTL

(* The requests of the user and the interception of mov cr3 never drift    *)
(* apart.                                                                  *)
THEOREM SwitchesSeen == Spec => []TaskSwitchExact
<1>1. IndInv => TaskSwitchExact
  BY DEF IndInv
<1> QED BY <1>1, Invariance, PTL

(* popf is intercepted between a mov cr3 and the popf that ends the switch *)
(* and nowhere else.                                                       *)
THEOREM PopfOnlyInSwitch == Spec => []PopfPaired
<1>1. IndInv => PopfPaired
  BY DEF IndInv
<1> QED BY <1>1, Invariance, PTL

(* As long as a thread is entered in syscallmap the next iret traps.       *)
THEOREM ReturnsSeen == Spec => []ReturnWillBeSeen
<1>1. IndInv => ReturnWillBeSeen
  BY DEF IndInv
<1> QED BY <1>1, Invariance, PTL

-----------------------------------------------------------------------------
(* A trap flag is kept in a frame of one of the stacks.                    *)
Saved(s) == \E t \in Threads : \E i \in DOMAIN s[t] : s[t][i].tf

(* A frame pushed on the current stack keeps the trap flags that were      *)
(* saved and saves the current one.                                        *)
LEMMA PushSaves ==
    ASSUME StateOK, NEW k \in Kinds, NEW b \in BOOLEAN, NEW i \in Interruptible,
           NEW s, s = [stack EXCEPT ![cur] = Append(@, [kind |-> k, tf |-> b, insn |-> i])]
    PROVE  b \/ Saved(stack) => Saved(s)
<1> DEFINE f == [kind |-> k, tf |-> b, insn |-> i]
<1>1. f \in Frames /\ f.tf = b
  BY DEF Frames
<1> HIDE DEF f
<1>2. s = [stack EXCEPT ![cur] = Append(stack[cur], f)] /\ stack[cur] \in Seq(Frames)
  BY DEF StateOK, f
<1>3. /\ \A t \in Threads : t # cur => s[t] = stack[t]
      /\ s[cur] = Append(stack[cur], f)
  BY <1>2 DEF StateOK
<1>4. /\ \A j \in DOMAIN stack[cur] : j \in DOMAIN s[cur] /\ s[cur][j] = stack[cur][j]
      /\ Len(stack[cur]) + 1 \in DOMAIN s[cur] /\ s[cur][Len(stack[cur]) + 1] = f
  BY <1>1, <1>2, <1>3
<1>5. b => Saved(s)
  BY <1>1, <1>4 DEF Saved, StateOK
<1>6. Saved(stack) => Saved(s)
  BY <1>3, <1>4 DEF Saved
<1> QED BY <1>5, <1>6

(* A frame popped from the current stack leaves the other saved trap flags *)
(* and gives back its own.                                                 *)
LEMMA PopRestores ==
    ASSUME StateOK, stack[cur] # <<>>, Saved(stack)
    PROVE  Top(cur).tf \/ Saved([stack EXCEPT ![cur] = Front(@)])
<1> DEFINE s == [stack EXCEPT ![cur] = Front(@)]
<1>1. PICK t \in Threads : \E i \in DOMAIN stack[t] : stack[t][i].tf
  BY DEF Saved
<1>2. PICK i \in DOMAIN stack[t] : stack[t][i].tf
  BY <1>1
<1>3. CASE t # cur
  BY <1>2, <1>3 DEF Saved, StateOK
<1>4. CASE t = cur /\ i = Len(stack[cur])
  BY <1>2, <1>4 DEF Top, Last
<1>5. CASE t = cur /\ i # Len(stack[cur])
  <2>1. stack[cur] \in Seq(Frames) /\ s[cur] = Front(stack[cur])
    BY DEF StateOK
  <2>2. i \in DOMAIN Front(stack[cur]) /\ Front(stack[cur])[i] = stack[cur][i]
    BY <1>5, <2>1 DEF Front
  <2> QED BY <1>2, <1>5, <2>1, <2>2 DEF Saved
<1> QED BY <1>3, <1>4, <1>5

(* The trap flag that will end an open window is on, has fired, or is in a *)
(* frame; no step loses it.  A thread that dies would take its frames with *)
(* it, hence the assumption.                                               *)
LEMMA TrapKept ==
    ASSUME Kill = FALSE, IndInv, WindowClosable, Next
    PROVE  WindowClosable'
<1>0. StateOK /\ ExitInsn /\ StackShape /\ OpenWindow
  BY DEF IndInv
<1>1. itc_skip_flag # {} =>
         "DB" \in intercepts /\ (tf \/ exitcode = "DB" \/ Saved(stack))
  BY DEF WindowClosable, Saved
<1> SUFFICES itc_skip_flag' # {} =>
               "DB" \in intercepts' /\ (tf' \/ exitcode' = "DB" \/ Saved(stack'))
  BY DEF WindowClosable, Saved
<1>2. CASE ExecRun
  BY <1>1, <1>2 DEF ExecRun, Running, StepTrap, vmVars
<1>3. CASE ExecStore
  <2>1. CASE StepTrap(tf) /\ UNCHANGED <<intercepts, vmVars, stack>>
    BY <1>1, <1>3, <2>1 DEF ExecStore, Running, StepTrap, vmVars
  <2>2. CASE exitcode' = "PF" /\ UNCHANGED <<intercepts, vmVars, stack, tf>>
    BY <1>1, <1>3, <2>2 DEF ExecStore, Running, vmVars
  <2>3. CASE Deliver("irq") /\ UNCHANGED <<exitcode, intercepts, vmVars>>
    <3>1. insn \in Interruptible /\ "irq" \in Kinds
      BY <1>0, <1>3 DEF ExecStore, StateOK, Insns, InterruptsOff, Kinds
    <3>2. tf \/ Saved(stack) => Saved(stack')
      BY <1>0, <2>3, <3>1, PushSaves DEF Deliver, StateOK
    <3> QED BY <1>1, <1>3, <2>3, <3>2 DEF ExecStore, Running, vmVars
  <2> QED BY <1>3, <2>1, <2>2, <2>3 DEF ExecStore, StoreFault
<1>4. CASE ExecInt
  <2>1. CASE VmExit("SWINT")
    BY <1>1, <1>4, <2>1 DEF ExecInt, Running, VmExit, vmVars, guestVars
  <2>2. CASE ~VmExit("SWINT")
    <3>1. tf \/ Saved(stack) => Saved(stack')
      BY <1>0, <1>4, <2>2, PushSaves DEF ExecInt, StateOK, Kinds, Interruptible
    <3> QED BY <1>1, <1>4, <2>2, <3>1 DEF ExecInt, Running, vmVars
  <2> QED BY <2>1, <2>2
<1>5. CASE ExecVmmcall \/ ExecTouch
  BY <1>1, <1>5 DEF ExecVmmcall, ExecTouch, Running, VmExit, vmVars, guestVars
<1>6. CASE ExecIret \/ ExecPopf
  <2>1. CASE VmExit("IRET") \/ VmExit("POPF")
    BY <1>1, <1>6, <2>1 DEF ExecIret, ExecPopf, Running, VmExit, vmVars, guestVars
  <2>2. CASE stack' = [stack EXCEPT ![cur] = Front(@)]
    <3>1. Saved(stack) => Top(cur).tf \/ Saved(stack')
      BY <1>0, <1>6, <2>2, PopRestores DEF StackShape, InterruptsOff, ExecIret, ExecPopf
    <3>2. (StepTrap(Top(cur).tf) /\ UNCHANGED <<intercepts, vmVars>>) \/ UNCHANGED stack
      BY <1>6, <2>2 DEF ExecIret, ExecPopf, VmExit, guestVars
    <3> QED BY <1>1, <1>6, <2>2, <3>1, <3>2
               DEF ExecIret, ExecPopf, Running, StepTrap, VmExit, vmVars, guestVars
  <2> QED BY <1>6, <2>1, <2>2 DEF ExecIret, ExecPopf
<1>7. CASE ExecMovCr3
  BY <1>1, <1>7 DEF ExecMovCr3, Running, StepTrap, VmExit, vmVars, guestVars
<1>8. CASE ExecSwtch
  <2>1. ~dying
    BY <1>0 DEF StateOK
  <2>2. tf \/ Saved(stack) => Saved(stack')
    BY <1>0, <1>8, <2>1, PushSaves DEF ExecSwtch, StateOK, Kinds, Interruptible
  <2> QED BY <1>1, <1>8, <2>2 DEF ExecSwtch, Running, StepTrap, vmVars
<1>9. CASE Interrupt \/ VmrunInject
  <2>1. insn \in Interruptible /\ UNCHANGED <<exitcode, intercepts, vmVars>>
    BY <1>0, <1>9 DEF Interrupt, VmrunInject, StateOK, ExitInsn, Insns
  <2>2. exitcode # "DB"
    BY <1>9 DEF Interrupt, VmrunInject, Running
  <2>3. PICK k \in Kinds : Deliver(k)
    BY <1>9 DEF Interrupt, VmrunInject, Kinds
  <2>4. tf \/ Saved(stack) => Saved(stack')
    BY <1>0, <2>1, <2>3, PushSaves DEF Deliver, StateOK
  <2> QED BY <1>1, <2>1, <2>2, <2>4 DEF vmVars
<1>10. CASE __handle_vm_swint
  BY <1>1, <1>10 DEF __handle_vm_swint, __handle_syscall, Handles
<1>11. CASE __handle_vm_iret \/ __handle_cr3_write
  BY <1>11, BitsFacts DEF __handle_vm_iret, __handle_cr3_write, __skip_intercpt_cur_instr
<1>12. CASE __handle_db
  BY <1>12 DEF __handle_db
<1>13. CASE __handle_pf
  BY <1>1, <1>13, BitsFacts DEF __handle_pf, __skip_intercpt_cur_instr, Handles, guestVars
<1>14. CASE __handle_popf
  BY <1>1, <1>14 DEF __handle_popf, vm_is_process_tracked, vm_enable_intercept, Handles, guestVars
<1>15. CASE __handle_vm_vmmcall \/ __handle_vm_npf
  BY <1>1, <1>15 DEF __handle_vm_vmmcall, __handle_vm_npf, user_enable_intercept,
                     user_disable_intercept, Handles, vmVars, guestVars
<1>16. CASE Halted
  BY <1>1, <1>16 DEF Halted, vars, vmcbVars, vmVars, guestVars
<1> QED
  BY <1>2, <1>3, <1>4, <1>5, <1>6, <1>7, <1>8, <1>9, <1>10, <1>11, <1>12, <1>13, <1>14, <1>15, <1>16
     DEF Next, GuestStep, handle_vmexit

(* An interception that was skipped comes back: as long as no thread dies  *)
(* inside the kernel, the single step that re-enables it is never lost, on *)
(* whatever stack the trap flag is saved when the window is interrupted.   *)
THEOREM WindowsClose == ASSUME Kill = FALSE PROVE Spec => []WindowClosable
<1>1. Init => WindowClosable
  BY DEF Init, VmmInit, WindowClosable
<1>2. IndInv /\ WindowClosable /\ [Next]_vars => WindowClosable'
  <2>1. CASE UNCHANGED vars
    BY <2>1 DEF WindowClosable, vars, vmcbVars, vmVars, guestVars
  <2> QED BY <2>1, TrapKept
<1> QED BY <1>1, <1>2, Invariance, PTL DEF Spec
-----------------------------------------------------------------------------
(***************************************************************************)
(* More invariants, on top of IndInv: the types of the two tables of       *)
(* vm_info, that a context switch ends with everything armed, that the     *)
(* trap flag the VMM sets never reaches the guest's debug handler, and     *)
(* that syscallmap names the threads inside a system call, each once.      *)
(*                                                                         *)
(* Each has an inductive invariant of its own.  Those that do not hold of  *)
(* every guest and every request say under which condition they do.        *)
(***************************************************************************)

(* Every thread has its own page directory, so that every switch writes    *)
(* cr3; threads that share one are switched without the VMM noticing.      *)
DistinctDirs == \A t, u \in Threads : Mm[t] = Mm[u] => t = u

(* Everything asked for is intercepted.                                    *)
Armed ==
    /\ exitcode = "NONE" /\ BitsOf(itc_flag) \subseteq intercepts
    /\ "UNPACK" \in itc_flag => prot[cr3] = TRUE

(* From the mov cr3 that trapped to the popf that traps, POPF is           *)
(* intercepted; what its handler has armed is still armed when the popf is *)
(* executed.                                                               *)
ArmInv ==
    /\ cr3 = IF insn = "swtch" THEN Mm[next] ELSE Mm[cur]
    /\ "TASKSWITCH" \in itc_flag =>
          /\ insn = "movcr3" /\ "TASKSWITCH" \in itc_skip_flag => "POPF" \in intercepts
          /\ insn = "swtch" => "POPF" \in intercepts
          /\ insn = "popf" => "POPF" \in intercepts \/ Armed

(* mavmm-u asks neither for single stepping nor for unpacking.             *)
NoStepping == \A r \in Requests : r \cap {"STEP", "UNPACK"} = {}

(* Then TF is on only to enter a system call or in a window, and TF saved  *)
(* in a frame is popped by an iret that the VMM sees.                      *)
TfInv ==
    /\ itc_flag \cap {"STEP", "UNPACK"} = {} /\ "UNPACK" \notin itc_skip_flag
    /\ tf => eventinj = "INT80" \/ itc_skip_flag # {}
    /\ exitcode = "DB" => itc_skip_flag # {}
    /\ eventinj = "INT80" \/ Saved(stack) => "IRET" \in intercepts \cup itc_skip_flag
    /\ \A t \in Threads : t # cur => Top(t).tf = FALSE
    /\ insn = "popf" => Top(cur).tf = FALSE

(* The entries of a table of waiting threads: whether t has one, and that  *)
(* nobody has two.                                                         *)
Waits(map, t) == \E i \in DOMAIN map : map[i].tid = t
Once(map) == \A i, j \in DOMAIN map : map[i].tid = map[j].tid => i = j

Entries == [tid : Threads, syscallno : Syscallnos]
Opened == [fid : Fds \cup 0 .. 2, fname : Names \cup {"stdin", "stdout", "stderr"}]
TablesTyped == syscallmap \in Seq(Entries) /\ fmap \in Seq(Opened)

(* int 0x80 is an instruction of user mode, so that a system call starts   *)
(* on an empty stack, and a thread is switched out and in on top of what   *)
(* it was doing.                                                           *)
CallInv ==
    /\ \A t \in Threads : t # cur => Top(t).kind = "sw"
    /\ insn = "popf" => Top(cur).kind = "sw"
    /\ insn = "int80" => stack[cur] = <<>>
    /\ \A t \in Threads : \A i \in DOMAIN stack[t] : stack[t][i].insn = "int80" => i = 1

(* A thread that waits is inside a call or about to be, and when an iret   *)
(* is let through its thread waits no more.                                *)
Inside(t) == InSyscall(t) \/ (t = cur /\ eventinj = "INT80")

WaitInv ==
    /\ Once(syscallmap)
    /\ \A t \in Threads : Waits(syscallmap, t) => Inside(t)
    /\ "IRET" \in itc_skip_flag /\ exitcode = "NONE" => ~Waits(syscallmap, cur)

-----------------------------------------------------------------------------
(* Flags other than TASKSWITCH stand for the other bits.                   *)
LEMMA BitsButSwitch ==
    ASSUME NEW flags \in SUBSET Flags
    PROVE  BitsOf(flags) \subseteq BitsOf(flags \ {"TASKSWITCH"}) \cup {"WRITE_CR3"}
BY DEF BitsOf, Bits, Flags

(* Every step of the guest and of the VMM keeps what a switch relies on.   *)
LEMMA ArmNext ==
    ASSUME DistinctDirs, IndInv, ArmInv, Next
    PROVE  ArmInv'
<1>0. StateOK /\ ExitInsn /\ StackShape /\ OpenWindow /\ TaskSwitchExact /\ PopfPaired
  BY DEF IndInv
<1>1. CASE ExecRun
  <2>1. cr3 = Mm[cur] /\ UNCHANGED <<cr3, cur, intercepts, itc_flag, itc_skip_flag>>
    BY <1>1 DEF ExecRun, ArmInv, vmVars
  <2>2. insn' # "swtch" /\ insn' # "popf"
    <3>1. CASE UserMode
      BY <1>1, <3>1, OpsAssumption DEF ExecRun
    <3>2. CASE ~UserMode
      BY <1>0, <1>1, <2>1, <3>2, OpsAssumption DEF ExecRun, DistinctDirs, StateOK
    <3> QED BY <3>1, <3>2
  <2>3. "TASKSWITCH" \notin itc_skip_flag
    BY <1>0, <1>1 DEF OpenWindow, ExecRun, Running
  <2> QED BY <2>1, <2>2, <2>3 DEF ArmInv
<1>2. CASE ExecStore
  <2>1. UNCHANGED <<cr3, cur, intercepts, itc_flag, itc_skip_flag>> /\ insn = "store"
        /\ insn' \in {"run", "store"}
    BY <1>2 DEF ExecStore, StoreFault, Deliver, vmVars
  <2> QED BY <2>1 DEF ArmInv
<1>3. CASE ExecInt \/ ExecVmmcall \/ ExecTouch
  <2>1. UNCHANGED <<cr3, cur, intercepts, itc_flag, itc_skip_flag>>
        /\ insn \notin InterruptsOff /\ insn' \notin InterruptsOff
    BY <1>3 DEF ExecInt, ExecVmmcall, ExecTouch, VmExit, vmVars, guestVars, InterruptsOff
  <2> QED BY <2>1 DEF ArmInv, InterruptsOff
<1>4. CASE ExecIret
  <2>1. UNCHANGED <<cr3, cur, intercepts, itc_flag, itc_skip_flag>>
        /\ insn = "iret" /\ insn' \notin {"movcr3", "swtch", "popf"}
    <3>1. Top(cur).insn \in Interruptible
      BY <1>0, <1>4, Pop DEF ExecIret, StackShape, InterruptsOff
    <3>2. Top(cur).insn \notin {"movcr3", "swtch", "popf"}
      BY <3>1, OpsAssumption DEF Interruptible
    <3> QED
      BY <1>4, <3>2 DEF ExecIret, VmExit, vmVars, guestVars
  <2> QED BY <2>1 DEF ArmInv
<1>5. CASE ExecMovCr3
  <2>1. CASE VmExit("CR3_WRITE")
    BY <1>5, <2>1 DEF ExecMovCr3, VmExit, vmVars, guestVars, ArmInv
  <2>2. CASE "WRITE_CR3" \notin intercepts
    <3>1. /\ cr3' = Mm[next] /\ next' = next /\ insn' = "swtch" /\ insn = "movcr3"
          /\ UNCHANGED <<intercepts, itc_flag, itc_skip_flag>>
      BY <1>5, <2>2 DEF ExecMovCr3, vmVars
    <3>2. "TASKSWITCH" \in itc_flag => "TASKSWITCH" \in itc_skip_flag
      BY <1>0, <2>2 DEF TaskSwitchExact
    <3> QED BY <3>1, <3>2 DEF ArmInv
  <2> QED BY <1>5, <2>1, <2>2 DEF ExecMovCr3
<1>6. CASE ExecSwtch
  <2>1. /\ insn = "swtch" /\ insn' = "popf" /\ cur' = next
        /\ UNCHANGED <<cr3, intercepts, itc_flag, itc_skip_flag>>
    BY <1>6 DEF ExecSwtch, vmVars
  <2> QED BY <2>1 DEF ArmInv
<1>7. CASE ExecPopf
  <2>1. CASE VmExit("POPF") /\ "POPF" \in intercepts
    BY <1>7, <2>1 DEF ExecPopf, VmExit, vmVars, guestVars, ArmInv
  <2>2. CASE "POPF" \notin intercepts
    <3>1. /\ insn = "popf" /\ insn' = "run"
          /\ UNCHANGED <<cr3, cur, intercepts, itc_flag, itc_skip_flag>>
      BY <1>7, <2>2 DEF ExecPopf, vmVars
    <3> QED BY <3>1 DEF ArmInv
  <2> QED BY <1>7, <2>1, <2>2 DEF ExecPopf
<1>8. CASE Interrupt \/ VmrunInject
  <2>1. UNCHANGED <<cr3, cur, intercepts, itc_flag, itc_skip_flag>>
        /\ insn \notin InterruptsOff /\ insn' = "run"
    BY <1>0, <1>8 DEF Interrupt, VmrunInject, Deliver, vmVars, ExitInsn
  <2> QED BY <2>1 DEF ArmInv, InterruptsOff
<1>9. CASE __handle_vm_swint
  <2>1. UNCHANGED <<cr3, cur, itc_flag, itc_skip_flag>> /\ insn' = "run" /\ insn \in {"int80", "intn"}
    BY <1>0, <1>9 DEF __handle_vm_swint, Handles, ExitInsn
  <2> QED BY <2>1 DEF ArmInv
<1>10. CASE __handle_vm_iret
  <2>1. UNCHANGED <<cr3, cur, next, itc_flag, insn>> /\ insn = "iret"
    BY <1>0, <1>10 DEF __handle_vm_iret, Handles, ExitInsn, guestVars
  <2> QED BY <2>1 DEF ArmInv
<1>11. CASE __handle_db
  <2>1. UNCHANGED <<cr3, cur, next, itc_flag, insn>>
    BY <1>11 DEF __handle_db, guestVars
  <2>2. "POPF" \in intercepts => "POPF" \in intercepts'
    BY <1>11, BitsFacts DEF __handle_db
  <2>3. ~Armed
    BY <1>11 DEF __handle_db, Handles, Armed
  <2>4. insn = "movcr3" => "TASKSWITCH" \notin itc_skip_flag'
    BY <1>0, <1>11 DEF __handle_db, Handles, OpenWindow
  <2> QED BY <2>1, <2>2, <2>3, <2>4 DEF ArmInv
<1>12. CASE __handle_pf
  <2>1. UNCHANGED <<cr3, cur, next, itc_flag, insn>> /\ insn = "store"
    BY <1>0, <1>12 DEF __handle_pf, Handles, ExitInsn, guestVars
  <2> QED BY <2>1 DEF ArmInv
<1>13. CASE __handle_cr3_write
  <2>1. UNCHANGED <<cr3, cur, next, itc_flag, insn>> /\ insn = "movcr3"
    BY <1>0, <1>13 DEF __handle_cr3_write, Handles, ExitInsn, guestVars
  <2>2. "POPF" \in intercepts'
    BY <1>13, BitsFacts DEF __handle_cr3_write, __skip_intercpt_cur_instr
  <2> QED BY <2>1, <2>2 DEF ArmInv
<1>14. CASE __handle_popf
  <2>1. UNCHANGED <<cr3, cur, next, itc_flag, insn, itc_skip_flag>> /\ insn = "popf" /\ exitcode' = "NONE"
    BY <1>0, <1>14 DEF __handle_popf, Handles, ExitInsn, guestVars
  <2> DEFINE flags == itc_flag \ {"TASKSWITCH"}
  <2>2. intercepts' = (intercepts \ {"POPF"}) \cup BitsOf(flags) /\ prot' = protect(flags, TRUE)
    BY <1>14 DEF __handle_popf, vm_enable_intercept, vm_is_process_tracked
  <2>3. "TASKSWITCH" \in itc_flag => "WRITE_CR3" \in intercepts
    BY <1>0, <1>14 DEF TaskSwitchExact, OpenWindow, __handle_popf, Handles
  <2>4. "TASKSWITCH" \in itc_flag => BitsOf(itc_flag) \subseteq intercepts'
    BY <1>0, <2>2, <2>3, BitsButSwitch DEF StateOK
  <2>5. "UNPACK" \in itc_flag => prot'[cr3] = TRUE
    BY <1>0, <2>2 DEF protect, StateOK
  <2>6. BitsOf(itc_flag)' = BitsOf(itc_flag)
    BY <2>1
  <2>7. "TASKSWITCH" \in itc_flag => Armed'
    BY <2>1, <2>4, <2>5, <2>6 DEF Armed
  <2> QED BY <2>1, <2>7 DEF ArmInv
<1>15. CASE __handle_vm_vmmcall
  <2>1. UNCHANGED <<cr3, cur>> /\ insn' = "run" /\ insn = "vmmcall"
    BY <1>0, <1>15 DEF __handle_vm_vmmcall, Handles, ExitInsn
  <2> QED BY <2>1 DEF ArmInv
<1>16. CASE __handle_vm_npf
  <2>1. /\ UNCHANGED <<cr3, cur, next, insn, itc_flag, itc_skip_flag, intercepts>>
        /\ ~Armed
    BY <1>16 DEF __handle_vm_npf, Handles, vmVars, guestVars, Armed
  <2> QED BY <2>1 DEF ArmInv
<1>17. CASE Halted
  <2>1. /\ UNCHANGED <<cr3, cur, next, insn, itc_flag, itc_skip_flag, intercepts, exitcode, prot>>
    BY <1>17 DEF Halted, vars, vmcbVars, vmVars, guestVars
  <2>2. Armed' <=> Armed
    BY <2>1 DEF Armed, BitsOf
  <2> QED BY <2>1, <2>2 DEF ArmInv
<1> QED
  BY <1>1, <1>2, <1>3, <1>4, <1>5, <1>6, <1>7, <1>8, <1>9, <1>10, <1>11, <1>12, <1>13, <1>14,
     <1>15, <1>16, <1>17 DEF Next, GuestStep, handle_vmexit

(* A switch is over when its popf is executed, and then all is armed.      *)
LEMMA PopfArmed ==
    ASSUME IndInv, ArmInv, Next, insn = "popf", insn' = "run", "TASKSWITCH" \in itc_flag
    PROVE  Armed
<1>1. ExitInsn /\ insn \in InterruptsOff
  BY DEF IndInv, InterruptsOff
<1>2. ExecPopf /\ "POPF" \notin intercepts
  BY <1>1 DEF Next, GuestStep, handle_vmexit, ExitInsn, Halted, vars, guestVars, VmExit, Interrupt,
              VmrunInject, ExecRun, ExecStore, ExecInt, ExecVmmcall, ExecTouch, ExecIret, ExecMovCr3,
              ExecSwtch, ExecPopf, __handle_vm_swint, __handle_vm_iret, __handle_db, __handle_pf,
              __handle_cr3_write, __handle_popf, __handle_vm_vmmcall, __handle_vm_npf, Handles
<1> QED
  BY <1>2 DEF ArmInv

(* When a context switch ends, every interception that was asked for is on *)
(* and the page directory of the new process is write-protected if UNPACK  *)
(* is asked for: POPF is never disarmed on the way, and nothing comes      *)
(* between its handler and the popf.                                       *)
THEOREM SwitchEndsArmed == ASSUME DistinctDirs PROVE Spec => SwitchArms
<1>1. Init => ArmInv
  BY DEF Init, VmmInit, ArmInv
<1>2. IndInv /\ ArmInv /\ [Next]_vars => ArmInv'
  <2>1. CASE UNCHANGED vars
    <3>1. /\ UNCHANGED <<cr3, cur, next, insn, itc_flag, itc_skip_flag, intercepts, exitcode, prot>>
      BY <2>1 DEF vars, vmcbVars, vmVars, guestVars
    <3>2. Armed' <=> Armed
      BY <3>1 DEF Armed, BitsOf
    <3> QED BY <3>1, <3>2 DEF ArmInv
  <2> QED BY <2>1, ArmNext
<1>3. IndInv /\ ArmInv /\ [Next]_vars =>
        [ insn = "popf" /\ insn' = "run" /\ "TASKSWITCH" \in itc_flag =>
            /\ BitsOf(itc_flag) \subseteq intercepts
            /\ "UNPACK" \in itc_flag => prot[cr3] ]_vars
  BY PopfArmed DEF Armed
<1> QED
  BY <1>1, <1>2, <1>3, Invariance, PTL DEF Spec, SwitchArms

-----------------------------------------------------------------------------
(* s is the stacks with one more frame on the current one, and which trap  *)
(* flags are saved then.                                                   *)
Pushed(s, k, b, n) ==
    /\ \A t \in Threads : t # cur => s[t] = stack[t]
    /\ Last(s[cur]).kind = k /\ Last(s[cur]).tf = b
    /\ DOMAIN s[cur] = DOMAIN stack[cur] \cup {Len(stack[cur]) + 1}
    /\ s[cur][Len(stack[cur]) + 1].kind = k /\ s[cur][Len(stack[cur]) + 1].tf = b
    /\ s[cur][Len(stack[cur]) + 1].insn = n
    /\ \A j \in DOMAIN stack[cur] : s[cur][j] = stack[cur][j]

(* Event delivery and a switch push such a frame.                          *)
LEMMA PushTops ==
    ASSUME StateOK, NEW k \in Kinds, NEW b \in BOOLEAN, NEW n \in Interruptible,
           NEW s, s = [stack EXCEPT ![cur] = Append(@, [kind |-> k, tf |-> b, insn |-> n])]
    PROVE  Pushed(s, k, b, n)
<1> DEFINE f == [kind |-> k, tf |-> b, insn |-> n]
<1>1. f \in Frames
  BY DEF Frames
<1> HIDE DEF f
<1>2. s = [stack EXCEPT ![cur] = Append(stack[cur], f)] /\ stack[cur] \in Seq(Frames)
  BY DEF StateOK, f
<1>3. /\ \A t \in Threads : t # cur => s[t] = stack[t]
      /\ s[cur] = Append(stack[cur], f)
  BY <1>2 DEF StateOK
<1>4. /\ DOMAIN s[cur] = DOMAIN stack[cur] \cup {Len(stack[cur]) + 1}
      /\ \A j \in DOMAIN stack[cur] : s[cur][j] = stack[cur][j]
      /\ s[cur][Len(stack[cur]) + 1] = f
  BY <1>1, <1>2, <1>3
<1>5. Last(s[cur]) = f
  BY <1>1, <1>2, <1>3 DEF Last
<1>6. f.kind = k /\ f.tf = b /\ f.insn = n
  BY DEF f
<1> QED BY <1>3, <1>4, <1>5, <1>6 DEF Pushed

(* A trap flag that is saved after a push was saved or is the one pushed.  *)
LEMMA PushSaved ==
    ASSUME StateOK, NEW k \in Kinds, NEW b \in BOOLEAN, NEW n \in Interruptible,
           NEW s, s = [stack EXCEPT ![cur] = Append(@, [kind |-> k, tf |-> b, insn |-> n])]
    PROVE  Saved(s) => b \/ Saved(stack)
<1> SUFFICES ASSUME Saved(s) PROVE b \/ Saved(stack)
  OBVIOUS
<1>1. PICK t \in Threads : \E i \in DOMAIN s[t] : s[t][i].tf
  BY DEF Saved
<1>2. PICK i \in DOMAIN s[t] : s[t][i].tf
  BY <1>1
<1>3. CASE t # cur
  BY <1>2, <1>3, PushTops DEF Saved, Pushed
<1>4. CASE t = cur /\ i \in DOMAIN stack[cur]
  BY <1>2, <1>4, PushTops DEF Saved, Pushed
<1>5. CASE t = cur /\ i = Len(stack[cur]) + 1
  <2>1. s[cur][i].tf = b
    BY <1>5, PushTops DEF Pushed
  <2> QED BY <1>2, <1>5, <2>1
<1> QED BY <1>3, <1>4, <1>5, PushTops DEF Pushed

(* A frame popped from the current stack.                                  *)
LEMMA PopTops ==
    ASSUME StateOK, stack[cur] # <<>>, NEW s, s = [stack EXCEPT ![cur] = Front(@)]
    PROVE  /\ \A t \in Threads : t # cur => s[t] = stack[t]
           /\ Len(stack[cur]) \in DOMAIN stack[cur] /\ Top(cur) = stack[cur][Len(stack[cur])]
           /\ DOMAIN s[cur] = DOMAIN stack[cur] \ {Len(stack[cur])}
           /\ \A j \in DOMAIN s[cur] : s[cur][j] = stack[cur][j]
<1>1. stack[cur] \in Seq(Frames) /\ s[cur] = Front(stack[cur])
  BY DEF StateOK
<1>2. \A t \in Threads : t # cur => s[t] = stack[t]
  BY DEF StateOK
<1>3. /\ DOMAIN s[cur] = DOMAIN stack[cur] \ {Len(stack[cur])}
      /\ \A j \in DOMAIN s[cur] : s[cur][j] = stack[cur][j]
  BY <1>1 DEF Front
<1>4. Len(stack[cur]) \in DOMAIN stack[cur]
  BY <1>1
<1> QED BY <1>2, <1>3, <1>4 DEF Top, Last

(* A pop saves no trap flag, and what it restores was saved.               *)
LEMMA PopSaved ==
    ASSUME StateOK, stack[cur] # <<>>, NEW s, s = [stack EXCEPT ![cur] = Front(@)]
    PROVE  /\ Saved(s) => Saved(stack)
           /\ Top(cur).tf => Saved(stack)
<1>1. cur \in Threads
  BY DEF StateOK
<1>2. Top(cur).tf => Saved(stack)
  BY <1>1, PopTops DEF Saved
<1>3. ASSUME Saved(s) PROVE Saved(stack)
  <2>1. PICK t \in Threads : \E i \in DOMAIN s[t] : s[t][i].tf
    BY <1>3 DEF Saved
  <2>2. PICK i \in DOMAIN s[t] : s[t][i].tf
    BY <2>1
  <2>3. i \in DOMAIN stack[t] /\ s[t][i] = stack[t][i]
    BY <2>2, PopTops
  <2> QED BY <2>2, <2>3 DEF Saved
<1> QED BY <1>2, <1>3

(* Where TF and an open window can be.                                     *)
LEMMA TfQuiet ==
    ASSUME IndInv, TfInv
    PROVE  /\ itc_skip_flag # {} =>
                 \/ exitcode = "DB"
                 \/ /\ exitcode = "NONE" /\ eventinj = "NONE" /\ insn \in {"iret", "movcr3"}
                    /\ tf = TRUE /\ "DB" \in intercepts
           /\ tf = TRUE => itc_skip_flag # {} \/ (eventinj = "INT80" /\ exitcode = "NONE")
           /\ tf \in BOOLEAN
<1>1. itc_skip_flag \subseteq {"IRET", "TASKSWITCH"} /\ tf \in BOOLEAN
  BY DEF IndInv, StateOK, TfInv
<1>2. itc_skip_flag # {} => "IRET" \in itc_skip_flag \/ "TASKSWITCH" \in itc_skip_flag
  BY <1>1
<1> QED BY <1>1, <1>2 DEF IndInv, OpenWindow, ExitInsn, InterruptsOff, TfInv

(* Every step keeps the trap flag where the VMM will meet it.              *)
LEMMA TfNext ==
    ASSUME NoStepping, IndInv, TfInv, Next
    PROVE  TfInv'
<1>0. StateOK /\ ExitInsn /\ StackShape /\ OpenWindow
  BY DEF IndInv
<1>a. /\ itc_skip_flag # {} =>
            \/ exitcode = "DB"
            \/ /\ exitcode = "NONE" /\ eventinj = "NONE" /\ insn \in {"iret", "movcr3"}
               /\ tf = TRUE /\ "DB" \in intercepts
      /\ tf = TRUE => itc_skip_flag # {} \/ (eventinj = "INT80" /\ exitcode = "NONE")
      /\ tf \in BOOLEAN
  BY TfQuiet
<1>1. CASE ExecRun
  <2>1. tf = FALSE /\ itc_skip_flag = {}
    BY <1>1, <1>a DEF ExecRun, Running
  <2>2. /\ UNCHANGED <<itc_flag, itc_skip_flag, stack, cur, intercepts, eventinj>>
        /\ tf' = FALSE /\ exitcode' = "NONE"
    BY <1>1, <2>1 DEF ExecRun, StepTrap, vmVars
  <2>3. insn' # "popf"
    BY <1>1, OpsAssumption DEF ExecRun
  <2> QED BY <2>2, <2>3 DEF TfInv, Top
<1>2. CASE ExecStore
  <2>1. tf = FALSE /\ itc_skip_flag = {} /\ eventinj = "NONE"
    BY <1>2, <1>a DEF ExecStore, Running
  <2>2. /\ UNCHANGED <<itc_flag, itc_skip_flag, cur, intercepts, eventinj>>
        /\ tf' = FALSE /\ exitcode' \in {"NONE", "PF"} /\ insn' # "popf"
    BY <1>2, <2>1 DEF ExecStore, Running, StoreFault, Deliver, StepTrap, vmVars
  <2>3. \/ UNCHANGED stack
        \/ stack' = [stack EXCEPT ![cur] = Append(@, [kind |-> "irq", tf |-> FALSE, insn |-> insn])]
    BY <1>2, <2>1 DEF ExecStore, StoreFault, Deliver
  <2>4. CASE UNCHANGED stack
    BY <2>2, <2>4 DEF TfInv, Top
  <2>5. CASE stack' = [stack EXCEPT ![cur] = Append(@, [kind |-> "irq", tf |-> FALSE, insn |-> insn])]
    <3>1. insn \in Interruptible /\ "irq" \in Kinds
      BY <1>0, <1>2 DEF ExecStore, StateOK, Insns, InterruptsOff, Kinds
    <3>2. Saved(stack') => Saved(stack)
      BY <1>0, <2>5, <3>1, PushSaved
    <3>3. \A t \in Threads : t # cur => stack'[t] = stack[t]
      BY <1>0, <2>5, <3>1, PushTops DEF Pushed
    <3> QED BY <2>2, <3>2, <3>3 DEF TfInv, Top
  <2> QED BY <2>3, <2>4, <2>5
<1>3. CASE ExecInt
  <2>1. tf = FALSE /\ itc_skip_flag = {} /\ eventinj = "NONE"
    BY <1>3, <1>a DEF ExecInt, Running
  <2>2. CASE VmExit("SWINT")
    BY <1>3, <2>1, <2>2 DEF ExecInt, VmExit, vmVars, guestVars, TfInv, Top
  <2>3. CASE "INTN" \notin intercepts
    <3>1. /\ UNCHANGED <<itc_flag, itc_skip_flag, cur, intercepts, eventinj, exitcode>>
          /\ tf' = FALSE /\ insn' = "run"
      BY <1>3, <2>3 DEF ExecInt, vmVars
    <3>2. PICK k \in Kinds :
             stack' = [stack EXCEPT ![cur] = Append(@, [kind |-> k, tf |-> FALSE, insn |-> "run"])]
      BY <1>3, <2>1, <2>3 DEF ExecInt, Kinds
    <3>3. "run" \in Interruptible
      BY DEF Interruptible
    <3>4. Saved(stack') => Saved(stack)
      BY <1>0, <3>2, <3>3, PushSaved
    <3>5. \A t \in Threads : t # cur => stack'[t] = stack[t]
      BY <1>0, <3>2, <3>3, PushTops DEF Pushed
    <3> QED BY <3>1, <3>4, <3>5 DEF TfInv, Top
  <2> QED BY <1>3, <2>2, <2>3 DEF ExecInt
<1>4. CASE ExecVmmcall \/ ExecTouch
  <2>1. exitcode' # "DB" /\ UNCHANGED <<itc_flag, itc_skip_flag, stack, cur, intercepts, eventinj, tf, insn>>
    BY <1>4 DEF ExecVmmcall, ExecTouch, VmExit, vmVars, guestVars
  <2> QED BY <2>1 DEF TfInv, Top
<1>5. CASE ExecIret
  <2>1. stack[cur] # <<>> /\ Running
    BY <1>0, <1>5 DEF ExecIret, StackShape, InterruptsOff
  <2>2. CASE VmExit("IRET")
    BY <1>5, <2>2 DEF ExecIret, VmExit, vmVars, guestVars, TfInv, Top
  <2>3. CASE "IRET" \notin intercepts
    <3>1. /\ UNCHANGED <<itc_flag, itc_skip_flag, cur, intercepts, eventinj>>
          /\ StepTrap(Top(cur).tf) /\ insn' = Top(cur).insn
          /\ stack' = [stack EXCEPT ![cur] = Front(@)]
      BY <1>5, <2>3 DEF ExecIret, vmVars
    <3>2. (Saved(stack') => Saved(stack)) /\ (Top(cur).tf => Saved(stack))
      BY <1>0, <2>1, <3>1, PopSaved
    <3>3. \A t \in Threads : t # cur => stack'[t] = stack[t]
      BY <1>0, <2>1, <3>1, PopTops
    <3>4. insn' # "popf" /\ Top(cur).tf \in BOOLEAN
      BY <1>0, <2>1, <3>1, Pop, OpsAssumption DEF Interruptible
    <3>5. CASE itc_skip_flag # {}
      <4>1. exitcode' = "DB"
        BY <1>a, <2>1, <3>1, <3>5 DEF Running, StepTrap
      <4> QED BY <3>1, <3>2, <3>3, <3>4, <3>5, <4>1 DEF TfInv, Top
    <3>6. CASE itc_skip_flag = {}
      <4>1. tf = FALSE
        BY <1>a, <2>1, <3>6 DEF Running
      <4>2. ~Saved(stack)
        BY <2>3, <3>6 DEF TfInv
      <4>3. exitcode' = "NONE" /\ tf' = FALSE
        BY <3>1, <3>2, <3>4, <4>1, <4>2 DEF StepTrap
      <4> QED BY <3>1, <3>2, <3>3, <3>4, <4>3 DEF TfInv, Top
    <3> QED BY <3>5, <3>6
  <2> QED BY <1>5, <2>2, <2>3 DEF ExecIret
<1>6. CASE ExecMovCr3
  <2>1. CASE VmExit("CR3_WRITE")
    BY <1>6, <2>1 DEF ExecMovCr3, VmExit, vmVars, guestVars, TfInv, Top
  <2>2. CASE "WRITE_CR3" \notin intercepts
    <3>1. /\ UNCHANGED <<itc_flag, itc_skip_flag, stack, cur, intercepts, eventinj>>
          /\ StepTrap(tf) /\ insn' = "swtch" /\ Running
      BY <1>6, <2>2 DEF ExecMovCr3, vmVars
    <3>2. tf' = TRUE => tf = TRUE
      BY <1>a, <3>1 DEF StepTrap
    <3>3. tf' \in BOOLEAN
      BY <3>1 DEF StepTrap
    <3>4. tf' => eventinj = "INT80" \/ itc_skip_flag # {}
      BY <1>a, <3>2, <3>3
    <3>5. exitcode' = "DB" => itc_skip_flag # {}
      BY <1>a, <3>1 DEF StepTrap, Running
    <3> QED BY <3>1, <3>4, <3>5 DEF TfInv, Top
  <2> QED BY <1>6, <2>1, <2>2 DEF ExecMovCr3
<1>7. CASE ExecSwtch
  <2>1. tf = FALSE /\ itc_skip_flag = {}
    BY <1>7, <1>a DEF ExecSwtch, Running
  <2>2. /\ UNCHANGED <<itc_flag, itc_skip_flag, intercepts, eventinj>>
        /\ tf' = FALSE /\ exitcode' = "NONE" /\ cur' = next /\ insn = "swtch"
    BY <1>7, <2>1 DEF ExecSwtch, StepTrap, vmVars
  <2>3. next # cur /\ next \in Threads /\ cur \in Threads
    BY <1>0, <2>2 DEF StackShape, StateOK
  <2>4. /\ \A t \in Threads : t # cur => stack'[t] = stack[t]
        /\ Last(stack'[cur]).tf = FALSE
        /\ Saved(stack') => Saved(stack)
    <3>1. CASE dying
      <4>1. stack' = [stack EXCEPT ![cur] = NewThread]
        BY <1>7, <3>1 DEF ExecSwtch
      <4>2. stack'[cur] = NewThread /\ \A t \in Threads : t # cur => stack'[t] = stack[t]
        BY <1>0, <2>3, <4>1 DEF StateOK
      <4>3. Last(NewThread).tf = FALSE
        BY DEF NewThread, Last
      <4>4. \A i \in DOMAIN NewThread : NewThread[i].tf = FALSE
        BY DEF NewThread
      <4>5. Saved(stack') => Saved(stack)
        <5> SUFFICES ASSUME Saved(stack') PROVE Saved(stack)
          OBVIOUS
        <5>1. PICK t \in Threads : \E i \in DOMAIN stack'[t] : stack'[t][i].tf
          BY DEF Saved
        <5>2. t # cur
          BY <4>2, <4>4, <5>1
        <5> QED BY <4>2, <5>1, <5>2 DEF Saved
      <4> QED BY <4>2, <4>3, <4>5
    <3>2. CASE ~dying
      <4>1. stack' = [stack EXCEPT ![cur] = Append(@, [kind |-> "sw", tf |-> FALSE, insn |-> "run"])]
        BY <1>7, <2>1, <3>2 DEF ExecSwtch
      <4>2. "sw" \in Kinds /\ "run" \in Interruptible
        BY DEF Kinds, Interruptible
      <4>3. \A t \in Threads : t # cur => stack'[t] = stack[t]
        BY <1>0, <4>1, <4>2, PushTops DEF Pushed
      <4>5. Last(stack'[cur]).tf = FALSE
        <5>1. Pushed(stack', "sw", FALSE, "run")
          BY <1>0, <4>1, <4>2, PushTops
        <5> QED BY <5>1 DEF Pushed
      <4>4. Saved(stack') => FALSE \/ Saved(stack)
        BY <1>0, <4>1, <4>2, PushSaved
      <4> QED BY <4>3, <4>4, <4>5
    <3> QED BY <3>1, <3>2
  <2>5. \A t \in Threads : t # next => Last(stack'[t]).tf = FALSE
    BY <2>4 DEF TfInv, Top
  <2>6. Last(stack'[next]).tf = FALSE
    BY <2>3, <2>4 DEF TfInv, Top
  <2> QED BY <2>2, <2>4, <2>5, <2>6 DEF TfInv, Top
<1>8. CASE ExecPopf
  <2>1. /\ stack[cur] # <<>> /\ Running /\ insn = "popf"
    BY <1>0, <1>8 DEF ExecPopf, StackShape, InterruptsOff
  <2>2. CASE VmExit("POPF")
    BY <1>8, <2>2 DEF ExecPopf, VmExit, vmVars, guestVars, TfInv, Top
  <2>3. CASE "POPF" \notin intercepts
    <3>1. /\ UNCHANGED <<itc_flag, itc_skip_flag, cur, intercepts, eventinj>>
          /\ StepTrap(Top(cur).tf) /\ insn' = "run"
          /\ stack' = [stack EXCEPT ![cur] = Front(@)]
      BY <1>8, <2>3 DEF ExecPopf, vmVars
    <3>2. Saved(stack') => Saved(stack)
      BY <1>0, <2>1, <3>1, PopSaved
    <3>3. \A t \in Threads : t # cur => stack'[t] = stack[t]
      BY <1>0, <2>1, <3>1, PopTops
    <3>4. tf = FALSE /\ Top(cur).tf = FALSE
      BY <1>a, <2>1 DEF Running, TfInv
    <3>5. exitcode' = "NONE" /\ tf' = FALSE
      BY <3>1, <3>4 DEF StepTrap
    <3> QED BY <3>1, <3>2, <3>3, <3>5 DEF TfInv, Top
  <2> QED BY <1>8, <2>2, <2>3 DEF ExecPopf
<1>9. CASE Interrupt \/ VmrunInject
  <2>1. /\ UNCHANGED <<itc_flag, itc_skip_flag, cur, intercepts, exitcode>>
        /\ tf' = FALSE /\ insn' = "run" /\ insn \in Interruptible
        /\ eventinj' = "NONE" /\ exitcode = "NONE"
        /\ tf = TRUE => eventinj = "INT80" \/ itc_skip_flag # {}
    BY <1>0, <1>9, <1>a
       DEF Interrupt, VmrunInject, Running, Deliver, vmVars, StateOK, Insns, ExitInsn
  <2>2. PICK k \in Kinds : Deliver(k)
    BY <1>9 DEF Interrupt, VmrunInject, Kinds
  <2>3. stack' = [stack EXCEPT ![cur] = Append(@, [kind |-> k, tf |-> tf, insn |-> insn])]
    BY <2>2 DEF Deliver
  <2>4. Saved(stack') => tf \/ Saved(stack)
    BY <1>0, <1>a, <2>1, <2>3, PushSaved
  <2>5. \A t \in Threads : t # cur => stack'[t] = stack[t]
    BY <1>0, <1>a, <2>1, <2>3, PushTops DEF Pushed
  <2>6. tf = TRUE => eventinj = "INT80"
    BY <1>a, <1>9, <2>1 DEF Interrupt, VmrunInject, Running, InterruptsOff
  <2>7. Saved(stack') => "IRET" \in intercepts \cup itc_skip_flag
    BY <1>a, <2>4, <2>6 DEF TfInv
  <2> QED BY <2>1, <2>5, <2>7 DEF TfInv, Top
<1>10. CASE __handle_vm_swint
  <2>1. /\ UNCHANGED <<itc_flag, itc_skip_flag, cur, stack>> /\ exitcode' = "NONE" /\ insn' = "run"
        /\ tf = FALSE /\ eventinj = "NONE"
    BY <1>0, <1>a, <1>10 DEF __handle_vm_swint, Handles, ExitInsn
  <2>2. \/ eventinj' = "INT80" /\ "IRET" \in intercepts'
        \/ eventinj' = "INTN" /\ UNCHANGED <<tf, intercepts>>
    BY <1>10 DEF __handle_vm_swint, __handle_syscall
  <2> QED BY <2>1, <2>2 DEF TfInv, Top
<1>11. CASE __handle_vm_iret
  <2>1. /\ UNCHANGED <<itc_flag, cur, stack, insn, eventinj>> /\ exitcode' = "NONE"
        /\ itc_skip_flag' = itc_skip_flag \cup {"IRET"} /\ insn = "iret"
    BY <1>0, <1>11 DEF __handle_vm_iret, Handles, ExitInsn, guestVars, __skip_intercpt_cur_instr
  <2> QED BY <2>1 DEF TfInv, Top
<1>12. CASE __handle_db
  <2>1. /\ UNCHANGED <<itc_flag, cur, stack, insn, eventinj>> /\ exitcode' = "NONE"
        /\ itc_skip_flag # {} /\ ~KeepStepping
    BY <1>12 DEF __handle_db, Handles, guestVars, TfInv, KeepStepping
  <2>2. /\ intercepts' = (intercepts \cup BitsOf(itc_skip_flag)) \ {"DB"}
        /\ tf' = FALSE /\ itc_skip_flag' = {}
    BY <1>12, <2>1, BitsFacts DEF __handle_db
  <2>3. "IRET" \in intercepts \cup itc_skip_flag => "IRET" \in intercepts'
    <3>1. itc_skip_flag \in SUBSET Flags
      BY <1>0 DEF StateOK, Flags
    <3> QED BY <2>2, <3>1, BitsFacts
  <2> QED BY <2>1, <2>2, <2>3 DEF TfInv, Top
<1>13. CASE __handle_pf
  <2>1. /\ UNCHANGED <<itc_flag, itc_skip_flag, cur, stack, insn, tf, intercepts>>
        /\ exitcode' = "NONE" /\ eventinj' = "PF" /\ tf = FALSE
    BY <1>a, <1>13 DEF __handle_pf, Handles, guestVars, TfInv
  <2> QED BY <2>1 DEF TfInv, Top
<1>14. CASE __handle_cr3_write
  <2>1. /\ UNCHANGED <<itc_flag, cur, stack, insn, eventinj>> /\ exitcode' = "NONE"
        /\ itc_skip_flag' = itc_skip_flag \cup {"TASKSWITCH"}
        /\ intercepts' = ((intercepts \cup {"POPF"}) \ BitsOf({"TASKSWITCH"})) \cup BitsOf({"STEP"})
    BY <1>14 DEF __handle_cr3_write, Handles, guestVars, __skip_intercpt_cur_instr
  <2>2. "IRET" \in intercepts => "IRET" \in intercepts'
    BY <2>1, BitsFacts
  <2> QED BY <2>1, <2>2 DEF TfInv, Top
<1>15. CASE __handle_popf
  <2>1. /\ UNCHANGED <<itc_flag, itc_skip_flag, cur, stack, insn, eventinj>> /\ exitcode' = "NONE"
        /\ intercepts \ {"POPF"} \subseteq intercepts'
        /\ tf' = (tf \/ "STEP" \in itc_flag \ {"TASKSWITCH"})
    BY <1>15 DEF __handle_popf, Handles, guestVars, vm_is_process_tracked, vm_enable_intercept
  <2>2. tf' = tf
    BY <1>a, <2>1 DEF TfInv
  <2> QED BY <2>1, <2>2 DEF TfInv, Top
<1>16. CASE __handle_vm_vmmcall
  <2>1. /\ UNCHANGED <<itc_skip_flag, cur, stack, eventinj, tf>> /\ exitcode' = "NONE" /\ insn' = "run"
    BY <1>16 DEF __handle_vm_vmmcall, Handles
  <2>2. /\ itc_flag' \cap {"STEP", "UNPACK"} = {}
        /\ "IRET" \in intercepts => "IRET" \in intercepts'
    <3>1. PICK flags \in Requests, cmd \in Cmds, pname \in Dirs :
             LET ebx == GuestReg(cmd, "ENABLE")
                 ecx == GuestReg(flags, {})
             IN  \/ ebx = "ENABLE" /\ user_enable_intercept(ecx, pname)
                 \/ ebx = "DISABLE" /\ user_disable_intercept(ecx, pname)
                 \/ ebx \notin {"ENABLE", "DISABLE"} /\ UNCHANGED <<intercepts, ptracked, itc_flag>>
      BY <1>16 DEF __handle_vm_vmmcall
    <3> DEFINE ecx == GuestReg(flags, {})
    <3>2. ecx \cap {"STEP", "UNPACK"} = {}
      BY DEF GuestReg, NoStepping
    <3>3. \/ user_enable_intercept(ecx, pname)
          \/ user_disable_intercept(ecx, pname)
          \/ UNCHANGED <<intercepts, ptracked, itc_flag>>
      BY <3>1
    <3> HIDE DEF ecx
    <3> QED BY <3>2, <3>3 DEF user_enable_intercept, user_disable_intercept, TfInv
  <2> QED BY <2>1, <2>2 DEF TfInv, Top
<1>17. CASE __handle_vm_npf
  <2>1. /\ UNCHANGED <<itc_flag, itc_skip_flag, cur, stack, insn, eventinj, tf, intercepts>>
        /\ exitcode' = "NONE"
    BY <1>17 DEF __handle_vm_npf, Handles, vmVars, guestVars
  <2> QED BY <2>1 DEF TfInv, Top
<1>18. CASE Halted
  <2>1. UNCHANGED <<itc_flag, itc_skip_flag, cur, stack, insn, eventinj, tf, intercepts, exitcode>>
    BY <1>18 DEF Halted, vars, vmcbVars, vmVars, guestVars
  <2> QED BY <2>1 DEF TfInv, Top
<1> QED
  BY <1>1, <1>2, <1>3, <1>4, <1>5, <1>6, <1>7, <1>8, <1>9, <1>10, <1>11, <1>12, <1>13, <1>14,
     <1>15, <1>16, <1>17, <1>18 DEF Next, GuestStep, handle_vmexit

(* As long as nobody asks for single stepping or unpacking, the guest      *)
(* never executes with TF set unless the VMM intercepts the #DB: the TF    *)
(* that __handle_syscall leaves in the frame of the call, without turning  *)
(* the interception on, is popped inside a window of iret and nowhere      *)
(* else, whichever thread runs in between.                                 *)
THEOREM TrapFlagStaysOwned == ASSUME NoStepping PROVE Spec => []TrapFlagOwned
<1>1. Init => TfInv
  <2> SUFFICES ASSUME Init PROVE TfInv
    OBVIOUS
  <2>1. /\ Last(NewThread).tf = FALSE /\ \A i \in DOMAIN NewThread : NewThread[i].tf = FALSE
    BY DEF NewThread, Last
  <2>2. \A t \in Threads : stack[t] = IF t = cur THEN <<>> ELSE NewThread
    BY DEF Init, VmmInit
  <2>3. ~Saved(stack)
    BY <2>1, <2>2 DEF Saved
  <2>4. \A t \in Threads : t # cur => Top(t).tf = FALSE
    BY <2>1, <2>2 DEF Top
  <2> QED BY <2>3, <2>4 DEF Init, VmmInit, TfInv
<1>2. IndInv /\ TfInv /\ [Next]_vars => TfInv'
  <2>1. CASE UNCHANGED vars
    <3>1. UNCHANGED <<itc_flag, itc_skip_flag, cur, stack, insn, eventinj, tf, intercepts, exitcode>>
      BY <2>1 DEF vars, vmcbVars, vmVars, guestVars
    <3> QED BY <3>1 DEF TfInv, Top
  <2> QED BY <2>1, TfNext
<1>3. IndInv /\ TfInv => TrapFlagOwned
  <2> SUFFICES ASSUME IndInv, TfInv, Running, tf PROVE "DB" \in intercepts
    BY DEF TrapFlagOwned
  <2>1. tf = TRUE
    BY TfQuiet
  <2> QED BY <2>1, TfQuiet DEF Running
<1> QED
  BY <1>1, <1>2, <1>3, Invariance, PTL DEF Spec

-----------------------------------------------------------------------------
(* vm_remove_waiting_thread: one round of its scan, and the equation that  *)
(* the tables after each round satisfy.                                    *)
ScanStep(m, i, t) == IF i <= Len(m) /\ m[i].tid = t THEN RemoveAt(m, i) ELSE m

Scan(f, n, map, t) == [i \in 0 .. n |-> IF i = 0 THEN map ELSE ScanStep(f[i - 1], i, t)]

(* There are such tables for any number of rounds.                         *)
LEMMA ScanExists ==
    ASSUME NEW map, NEW t
    PROVE  \A n \in Nat : \E f : f = Scan(f, n, map, t)
<1> DEFINE S == {n \in Nat : \E f : f = Scan(f, n, map, t)}
<1>1. 0 \in S
  <2> DEFINE f == [i \in 0 .. 0 |-> map]
  <2>1. f = Scan(f, 0, map, t)
    BY DEF Scan
  <2> HIDE DEF f
  <2> QED BY <2>1
<1>2. ASSUME NEW n \in Nat, n \in S PROVE n + 1 \in S
  <2>1. PICK f : f = Scan(f, n, map, t)
    BY <1>2
  <2> DEFINE g == [i \in 0 .. n + 1 |-> IF i = n + 1 THEN ScanStep(f[n], n + 1, t) ELSE f[i]]
  <2>2. \A i \in 0 .. n : g[i] = f[i]
    OBVIOUS
  <2>3. g[n + 1] = ScanStep(f[n], n + 1, t)
    OBVIOUS
  <2>4. \A i \in 0 .. n : f[i] = IF i = 0 THEN map ELSE ScanStep(f[i - 1], i, t)
    <3> HIDE DEF g
    <3>1. f = [i \in 0 .. n |-> IF i = 0 THEN map ELSE ScanStep(f[i - 1], i, t)]
      BY <2>1 DEF Scan
    <3> QED BY <3>1
  <2>5. \A i \in 0 .. n + 1 : g[i] = IF i = 0 THEN map ELSE ScanStep(g[i - 1], i, t)
    <3> SUFFICES ASSUME NEW i \in 0 .. n + 1
                 PROVE g[i] = IF i = 0 THEN map ELSE ScanStep(g[i - 1], i, t)
      OBVIOUS
    <3> HIDE DEF g
    <3>1. CASE i = n + 1
      <4>1. i # 0 /\ i - 1 = n /\ n \in 0 .. n
        BY <3>1
      <4> QED BY <2>2, <2>3, <3>1, <4>1
    <3>2. CASE i # n + 1
      <4>1. i \in 0 .. n /\ (i # 0 => i - 1 \in 0 .. n)
        BY <3>2
      <4> QED BY <2>2, <2>4, <4>1
    <3> QED BY <3>1, <3>2
  <2>6. g = [i \in 0 .. n + 1 |-> g[i]]
    OBVIOUS
  <2>7. g = Scan(g, n + 1, map, t)
    <3> HIDE DEF g
    <3> QED BY <2>5, <2>6 DEF Scan
  <2> HIDE DEF g
  <2> QED BY <2>7
<1>3. \A n \in Nat : n \in S
  <2> HIDE DEF S
  <2> QED BY <1>1, <1>2, SetInduction
<1> QED BY <1>3

(* So the recursive function of vm_remove_waiting_thread satisfies it.     *)
LEMMA RemovalScans ==
    ASSUME NEW map, NEW t, Len(map) \in Nat
    PROVE  \E f : f = Scan(f, Len(map), map, t)
                  /\ vm_remove_waiting_thread(map, t) = f[Len(map)]
<1> DEFINE After[i \in 0 .. Len(map)] ==
            IF i = 0 THEN map
            ELSE LET m == After[i - 1]
                 IN  IF i <= Len(m) /\ m[i].tid = t THEN RemoveAt(m, i) ELSE m
<1>1. vm_remove_waiting_thread(map, t) = After[Len(map)]
  BY DEF vm_remove_waiting_thread
<1> DEFINE Ch == CHOOSE f : f = Scan(f, Len(map), map, t)
<1>2. After = Ch
  BY DEF Scan, ScanStep
<1>3. \E f : f = Scan(f, Len(map), map, t)
  BY ScanExists
<1>4. Ch = Scan(Ch, Len(map), map, t)
  BY <1>3, Zenon
<1> QED BY <1>1, <1>2, <1>4, Zenon

(* What is left of a sequence with one element taken out.                  *)
LEMMA RemoveAtFacts ==
    ASSUME NEW S, NEW m \in Seq(S), NEW j \in 1 .. Len(m)
    PROVE  /\ RemoveAt(m, j) \in Seq(S) /\ Len(RemoveAt(m, j)) = Len(m) - 1
           /\ \A k \in 1 .. Len(m) - 1 : RemoveAt(m, j)[k] = IF k < j THEN m[k] ELSE m[k + 1]
<1> DEFINE a == SubSeq(m, 1, j - 1)
           b == SubSeq(m, j + 1, Len(m))
<1>0. Len(m) \in Nat /\ j \in Nat /\ 1 <= j /\ j <= Len(m)
  BY LenProperties
<1>1. \A i \in 1 .. Len(m) : m[i] \in S
  BY ElementOfSeq
<1>2. a \in Seq(S) /\ Len(a) = j - 1 /\ \A i \in 1 .. j - 1 : a[i] = m[i]
  <2>1. \A i \in 1 .. j - 1 : m[i] \in S
    BY <1>0, <1>1
  <2>2. 1 \in Int /\ j - 1 \in Int
    BY <1>0
  <2>3. /\ a \in Seq(S) /\ Len(a) = IF 1 <= j - 1 THEN (j - 1) - 1 + 1 ELSE 0
        /\ \A i \in 1 .. (j - 1) - 1 + 1 : a[i] = m[1 + i - 1]
    BY <2>1, <2>2, SubSeqProperties
  <2> HIDE DEF a
  <2> QED BY <1>0, <2>3
<1>3. b \in Seq(S) /\ Len(b) = Len(m) - j /\ \A i \in 1 .. Len(m) - j : b[i] = m[j + i]
  <2>1. \A i \in j + 1 .. Len(m) : m[i] \in S
    BY <1>0, <1>1
  <2>2. j + 1 \in Int /\ Len(m) \in Int
    BY <1>0
  <2>3. /\ b \in Seq(S) /\ Len(b) = IF j + 1 <= Len(m) THEN Len(m) - (j + 1) + 1 ELSE 0
        /\ \A i \in 1 .. Len(m) - (j + 1) + 1 : b[i] = m[(j + 1) + i - 1]
    BY <2>1, <2>2, SubSeqProperties
  <2> HIDE DEF b
  <2>4. \A i \in 1 .. Len(m) - j : b[i] = m[(j + 1) + i - 1] /\ (j + 1) + i - 1 = j + i
    BY <1>0, <2>3
  <2> QED BY <1>0, <2>3, <2>4
<1>4. RemoveAt(m, j) = a \o b
  BY DEF RemoveAt
<1> HIDE DEF a, b
<1>5. /\ a \o b \in Seq(S) /\ Len(a \o b) = Len(a) + Len(b)
      /\ \A k \in 1 .. Len(a) + Len(b) : (a \o b)[k] = IF k <= Len(a) THEN a[k] ELSE b[k - Len(a)]
  BY <1>2, <1>3, ConcatProperties
<1>6. \A k \in 1 .. Len(m) - 1 : (a \o b)[k] = IF k < j THEN m[k] ELSE m[k + 1]
  <2> SUFFICES ASSUME NEW k \in 1 .. Len(m) - 1
               PROVE (a \o b)[k] = IF k < j THEN m[k] ELSE m[k + 1]
    OBVIOUS
  <2>1. (a \o b)[k] = IF k <= j - 1 THEN a[k] ELSE b[k - (j - 1)]
    BY <1>0, <1>2, <1>3, <1>5
  <2>2. CASE k < j
    BY <1>0, <1>2, <2>1, <2>2
  <2>3. CASE ~(k < j)
    <3>1. k - (j - 1) \in 1 .. Len(m) - j /\ j + (k - (j - 1)) = k + 1
      BY <1>0, <2>3
    <3> QED BY <1>0, <1>3, <2>1, <2>3, <3>1
  <2> QED BY <2>2, <2>3
<1> QED BY <1>0, <1>2, <1>3, <1>4, <1>5, <1>6

(* Removal leaves a table of entries, whatever it skips.                   *)
LEMMA RemovalTyped ==
    ASSUME NEW S, NEW map \in Seq(S), NEW t
    PROVE  vm_remove_waiting_thread(map, t) \in Seq(S)
<1>1. Len(map) \in Nat
  BY LenProperties
<1>2. PICK f : f = Scan(f, Len(map), map, t) /\ vm_remove_waiting_thread(map, t) = f[Len(map)]
  BY <1>1, RemovalScans
<1>3. \A i \in 0 .. Len(map) : f[i] = IF i = 0 THEN map ELSE ScanStep(f[i - 1], i, t)
  <2>1. f = [i \in 0 .. Len(map) |-> IF i = 0 THEN map ELSE ScanStep(f[i - 1], i, t)]
    BY <1>2 DEF Scan
  <2> QED BY <2>1
<1> DEFINE T == {i \in Nat : i <= Len(map) => f[i] \in Seq(S)}
<1>4. 0 \in T
  BY <1>1, <1>3
<1>5. ASSUME NEW n \in Nat, n \in T PROVE n + 1 \in T
  <2> SUFFICES ASSUME n + 1 <= Len(map) PROVE f[n + 1] \in Seq(S)
    OBVIOUS
  <2>1. f[n] \in Seq(S) /\ n + 1 \in 0 .. Len(map) /\ n + 1 # 0 /\ (n + 1) - 1 = n
    BY <1>1, <1>5
  <2>2. f[n + 1] = ScanStep(f[n], n + 1, t)
    BY <1>3, <2>1
  <2>3. CASE n + 1 <= Len(f[n]) /\ f[n][n + 1].tid = t
    <3>1. n + 1 \in 1 .. Len(f[n])
      BY <2>1, <2>3, LenProperties
    <3>2. RemoveAt(f[n], n + 1) \in Seq(S)
      BY <2>1, <3>1, RemoveAtFacts
    <3> QED BY <2>2, <2>3, <3>2 DEF ScanStep
  <2>4. CASE ~(n + 1 <= Len(f[n]) /\ f[n][n + 1].tid = t)
    BY <2>1, <2>2, <2>4 DEF ScanStep
  <2> QED BY <2>3, <2>4
<1>6. Len(map) \in T
  <2> HIDE DEF T
  <2> QED BY <1>1, <1>4, <1>5, SetInduction
<1> QED BY <1>1, <1>2, <1>6

(* In a table where nobody has two entries the scan, although it skips the *)
(* entry after the one it removes, takes out the thread's entry and        *)
(* nothing else.                                                           *)
LEMMA RemovalRemoves ==
    ASSUME NEW S, NEW map \in Seq(S), NEW t, Once(map)
    PROVE  \/ vm_remove_waiting_thread(map, t) = map /\ ~Waits(map, t)
           \/ \E j \in 1 .. Len(map) : /\ map[j].tid = t
                                       /\ vm_remove_waiting_thread(map, t) = RemoveAt(map, j)
<1>1. Len(map) \in Nat /\ DOMAIN map = 1 .. Len(map)
  BY LenProperties
<1>2. PICK f : f = Scan(f, Len(map), map, t) /\ vm_remove_waiting_thread(map, t) = f[Len(map)]
  BY <1>1, RemovalScans
<1>3. \A i \in 0 .. Len(map) : f[i] = IF i = 0 THEN map ELSE ScanStep(f[i - 1], i, t)
  <2>1. f = [i \in 0 .. Len(map) |-> IF i = 0 THEN map ELSE ScanStep(f[i - 1], i, t)]
    BY <1>2 DEF Scan
  <2> QED BY <2>1
<1> DEFINE P(i) == \/ f[i] = map /\ \A k \in 1 .. i : map[k].tid # t
                   \/ \E j \in 1 .. i : map[j].tid = t /\ f[i] = RemoveAt(map, j)
           T == {i \in Nat : i <= Len(map) => P(i)}
<1>4. 0 \in T
  BY <1>1, <1>3
<1>5. ASSUME NEW n \in Nat, n \in T PROVE n + 1 \in T
  <2> SUFFICES ASSUME n + 1 <= Len(map) PROVE P(n + 1)
    OBVIOUS
  <2>1. P(n) /\ n + 1 \in 0 .. Len(map) /\ n + 1 # 0 /\ (n + 1) - 1 = n
    BY <1>1, <1>5
  <2>2. f[n + 1] = ScanStep(f[n], n + 1, t)
    BY <1>3, <2>1
  <2>3. CASE f[n] = map /\ \A k \in 1 .. n : map[k].tid # t
    <3>1. CASE map[n + 1].tid = t
      <4>1. f[n + 1] = RemoveAt(map, n + 1)
        BY <2>2, <2>3, <3>1 DEF ScanStep
      <4> QED BY <3>1, <4>1
    <3>2. CASE map[n + 1].tid # t
      <4>1. f[n + 1] = map
        BY <2>2, <2>3, <3>2 DEF ScanStep
      <4> QED BY <2>3, <3>2, <4>1
    <3> QED BY <3>1, <3>2
  <2>4. CASE \E j \in 1 .. n : map[j].tid = t /\ f[n] = RemoveAt(map, j)
    <3>1. PICK j \in 1 .. n : map[j].tid = t /\ f[n] = RemoveAt(map, j)
      BY <2>4
    <3>2. j \in 1 .. Len(map)
      BY <1>1, <3>1
    <3>3. /\ Len(f[n]) = Len(map) - 1
          /\ \A k \in 1 .. Len(map) - 1 : f[n][k] = IF k < j THEN map[k] ELSE map[k + 1]
      BY <3>1, <3>2, RemoveAtFacts
    <3>4. ~(n + 1 <= Len(f[n]) /\ f[n][n + 1].tid = t)
      <4> SUFFICES ASSUME n + 1 <= Len(f[n]), f[n][n + 1].tid = t PROVE FALSE
        OBVIOUS
      <4>1. n + 1 \in 1 .. Len(map) - 1 /\ ~(n + 1 < j)
        BY <1>1, <3>1, <3>3
      <4>2. f[n][n + 1] = map[(n + 1) + 1]
        BY <3>3, <4>1
      <4>3. (n + 1) + 1 \in DOMAIN map /\ j \in DOMAIN map /\ j # (n + 1) + 1
        BY <1>1, <3>1, <4>1
      <4> QED BY <3>1, <4>2, <4>3 DEF Once
    <3>5. f[n + 1] = f[n]
      BY <2>2, <3>4 DEF ScanStep
    <3> QED BY <3>1, <3>5
  <2> QED BY <2>1, <2>3, <2>4
<1>6. Len(map) \in T
  <2> HIDE DEF T
  <2> QED BY <1>1, <1>4, <1>5, SetInduction
<1>7. P(Len(map))
  BY <1>1, <1>6
<1> QED BY <1>1, <1>2, <1>7 DEF Waits

(* So the thread waits no more, and nobody else is lost or added.          *)
LEMMA RemovalWorks ==
    ASSUME NEW S, NEW map \in Seq(S), NEW t, Once(map)
    PROVE  LET r == vm_remove_waiting_thread(map, t)
           IN  Once(r) /\ ~Waits(r, t) /\ \A u : Waits(r, u) => Waits(map, u)
<1> DEFINE r == vm_remove_waiting_thread(map, t)
<1>0. Len(map) \in Nat /\ DOMAIN map = 1 .. Len(map)
  BY LenProperties
<1>1. \/ r = map /\ ~Waits(map, t)
      \/ \E j \in 1 .. Len(map) : map[j].tid = t /\ r = RemoveAt(map, j)
  BY RemovalRemoves
<1> HIDE DEF r
<1>2. CASE r = map /\ ~Waits(map, t)
  BY <1>2 DEF r
<1>3. CASE \E j \in 1 .. Len(map) : map[j].tid = t /\ r = RemoveAt(map, j)
  <2>1. PICK j \in 1 .. Len(map) : map[j].tid = t /\ r = RemoveAt(map, j)
    BY <1>3
  <2>2. /\ r \in Seq(S) /\ Len(r) = Len(map) - 1
        /\ \A k \in 1 .. Len(map) - 1 : r[k] = IF k < j THEN map[k] ELSE map[k + 1]
    BY <2>1, RemoveAtFacts
  <2>3. DOMAIN r = 1 .. Len(map) - 1
    BY <2>2, LenProperties
  <2> DEFINE At(k) == IF k < j THEN k ELSE k + 1
  <2>4. \A k \in DOMAIN r : At(k) \in DOMAIN map /\ At(k) # j /\ r[k] = map[At(k)]
    BY <1>0, <2>2, <2>3
  <2>5. \A k, l \in DOMAIN r : At(k) = At(l) => k = l
    BY <1>0, <2>3
  <2>6. j \in DOMAIN map
    BY <1>0
  <2> HIDE DEF At
  <2>7. Once(r)
    BY <2>4, <2>5 DEF Once
  <2>8. ~Waits(r, t)
    BY <2>1, <2>4, <2>6 DEF Once, Waits
  <2>9. \A u : Waits(r, u) => Waits(map, u)
    BY <2>4 DEF Waits
  <2> QED BY <2>7, <2>8, <2>9 DEF r
<1> QED BY <1>1, <1>2, <1>3

(* A lookup that finds nothing: the thread has no entry.                   *)
LEMMA LookupFinds ==
    ASSUME NEW map \in Seq(Entries), NEW t, vm_get_waiting_syscall(map, t) = NULL
    PROVE  ~Waits(map, t)
<1>1. Len(map) \in Nat /\ DOMAIN map = 1 .. Len(map)
  BY LenProperties
<1> DEFINE I == {i \in 1 .. Len(map) : map[i].tid = t}
<1> SUFFICES ASSUME I # {} PROVE FALSE
  BY <1>1 DEF Waits
<1>2. I \subseteq Nat
  BY <1>1
<1>3. \E n \in I : \A m \in I : n <= m
  <2> HIDE DEF I
  <2> QED BY <1>2, LeastNat
<1>4. Min(I) \in I
  <2> HIDE DEF I
  <2> QED BY <1>3, Zenon DEF Min
<1>5. vm_get_waiting_syscall(map, t) = IF Min(I) = 0 THEN NULL ELSE map[Min(I)].syscallno
  BY DEF vm_get_waiting_syscall, SelectInSeq
<1>6. map[Min(I)] \in Entries
  <2>1. Min(I) \in 1 .. Len(map)
    BY <1>4
  <2> QED BY <2>1, ElementOfSeq
<1>7. Min(I) # 0
  BY <1>4
<1> HIDE DEF I
<1> QED BY <1>5, <1>6, <1>7 DEF Entries, Syscallnos, NULL

(* What a system call makes of the table: nothing, or one entry more, of   *)
(* the thread that makes it.                                               *)
LEMMA CallAdds ==
    ASSUME NEW no, __handle_syscall(no)
    PROVE  \/ UNCHANGED syscallmap
           \/ \E n \in Syscallnos : syscallmap' = Append(syscallmap, [tid |-> cur, syscallno |-> n])
<1>1. PICK map \in SyscallEffects(no, syscallmap) :
         syscallmap' = IF map = <<>> THEN vm_add_waiting_thread(map, get_cur_threadid, "0") ELSE map
  BY DEF __handle_syscall
<1>2. \/ map = syscallmap
      \/ \E n \in {"READ", "OPEN", "RECVFROM"} : map = Append(syscallmap, [tid |-> cur, syscallno |-> n])
  BY DEF SyscallEffects, sys_read, sys_open, sys_recvfrom, sys_socketcall, sys_write, sys_execve,
         PrintsOnly, vm_add_waiting_thread, get_cur_threadid
<1>3. CASE map = <<>>
  <2>1. syscallmap' = Append(map, [tid |-> cur, syscallno |-> "0"])
    BY <1>1, <1>3 DEF vm_add_waiting_thread, get_cur_threadid
  <2> QED BY <1>2, <1>3, <2>1 DEF Syscallnos
<1>4. CASE map # <<>>
  BY <1>1, <1>2, <1>4 DEF Syscallnos
<1> QED BY <1>3, <1>4

(* The tables keep their types, and an iret that the VMM lets through      *)
(* changes the table of waiting threads by the removal of its thread.      *)
LEMMA TablesNext ==
    ASSUME IndInv, TablesTyped, Next
    PROVE  TablesTyped'
<1>0. cur \in Threads
  BY DEF IndInv, StateOK
<1>1. CASE UNCHANGED <<syscallmap, fmap>>
  BY <1>1 DEF TablesTyped
<1>2. CASE __handle_vm_swint
  <2>1. UNCHANGED fmap
    BY <1>2 DEF __handle_vm_swint
  <2>2. UNCHANGED syscallmap \/ \E no \in Syscalls : __handle_syscall(no)
    BY <1>2 DEF __handle_vm_swint
  <2>3. \/ UNCHANGED syscallmap
        \/ \E n \in Syscallnos : syscallmap' = Append(syscallmap, [tid |-> cur, syscallno |-> n])
    BY <2>2, CallAdds
  <2>4. \A n \in Syscallnos : [tid |-> cur, syscallno |-> n] \in Entries
    BY <1>0 DEF Entries
  <2>5. UNCHANGED syscallmap \/ \E e \in Entries : syscallmap' = Append(syscallmap, e)
    BY <2>3, <2>4
  <2> QED BY <2>1, <2>5 DEF TablesTyped
<1>3. CASE __handle_vm_iret
  <2>1. syscallmap' \in Seq(Entries)
    <3>1. \/ UNCHANGED syscallmap
          \/ syscallmap' = vm_remove_waiting_thread(syscallmap, cur)
      BY <1>3 DEF __handle_vm_iret, get_cur_threadid
    <3> QED BY <3>1, RemovalTyped DEF TablesTyped
  <2>2. fmap' \in Seq(Opened)
    <3>1. UNCHANGED fmap \/ sys_open_iret
      BY <1>3 DEF __handle_vm_iret
    <3>2. CASE sys_open_iret
      <4>1. PICK rax \in Fds, name \in Names : fmap' = Append(fmap, [fid |-> rax, fname |-> name])
        BY <3>2 DEF sys_open_iret, vm_add_fileid2name_map
      <4>2. [fid |-> rax, fname |-> name] \in Opened
        BY DEF Opened
      <4> QED BY <4>1, <4>2 DEF TablesTyped
    <3> QED BY <3>1, <3>2 DEF TablesTyped
  <2> QED BY <2>1, <2>2 DEF TablesTyped
<1> QED
  BY <1>1, <1>2, <1>3
     DEF Next, GuestStep, handle_vmexit, ExecRun, ExecStore, StoreFault, ExecInt, ExecVmmcall,
         ExecTouch, ExecIret, ExecMovCr3, ExecSwtch, ExecPopf, VmExit, Interrupt, VmrunInject,
         __handle_db, __handle_pf, __handle_cr3_write, __handle_popf, __handle_vm_vmmcall,
         __handle_vm_npf, Halted, vars, vmVars

(* The tables as they are set up at boot.                                   *)
LEMMA InitTables == Init => TablesTyped
<1> SUFFICES ASSUME Init PROVE TablesTyped
  OBVIOUS
<1>1. \A x \in {"stdin", "stdout", "stderr"}, i \in 0 .. 2 : [fid |-> i, fname |-> x] \in Opened
  BY DEF Opened
<1>2. /\ [fid |-> 0, fname |-> "stdin"] \in Opened
      /\ [fid |-> 1, fname |-> "stdout"] \in Opened
      /\ [fid |-> 2, fname |-> "stderr"] \in Opened
  BY <1>1
<1>3. fmap = <<[fid |-> 0, fname |-> "stdin"], [fid |-> 1, fname |-> "stdout"],
               [fid |-> 2, fname |-> "stderr"]>> /\ syscallmap = <<>>
  BY DEF Init, VmmInit
<1> QED BY <1>2, <1>3 DEF TablesTyped

(* The two tables of vm_info hold what the handlers take them to hold, for *)
(* any guest and with no bound on their lengths; with the invariant of     *)
(* InterceptProofs that is the type invariant of the whole state.          *)
THEOREM TypeCorrect == Spec => []TypeOK
<1>1. Init => TablesTyped
  BY InitTables
<1>2. IndInv /\ TablesTyped /\ [Next]_vars => TablesTyped'
  <2>1. CASE UNCHANGED vars
    BY <2>1 DEF TablesTyped, vars, vmVars
  <2> QED BY <2>1, TablesNext
<1>3. IndInv /\ TablesTyped => TypeOK
  BY DEF IndInv, TablesTyped, TypeOK, Entries, Opened
<1> QED
  BY <1>1, <1>2, <1>3, Invariance, PTL DEF Spec

-----------------------------------------------------------------------------
(* A push onto the current stack keeps every system call, and if the frame *)
(* is of the kind of a system call, starts one.                            *)
LEMMA PushCalls ==
    ASSUME StateOK, NEW k \in Kinds, NEW b \in BOOLEAN, NEW n \in Interruptible,
           stack' = [stack EXCEPT ![cur] = Append(@, [kind |-> k, tf |-> b, insn |-> n])]
    PROVE  \A t \in Threads : InSyscall(t) \/ (t = cur /\ k = "sys") => InSyscall(t)'
<1>1. Pushed(stack', k, b, n)
  BY PushTops
<1>2. ASSUME NEW t \in Threads, InSyscall(t) PROVE InSyscall(t)'
  <2>1. PICK i \in DOMAIN stack[t] : stack[t][i].kind = "sys"
    BY <1>2 DEF InSyscall
  <2>2. i \in DOMAIN stack'[t] /\ stack'[t][i] = stack[t][i]
    BY <1>1 DEF Pushed
  <2> QED BY <2>1, <2>2 DEF InSyscall
<1>3. ASSUME NEW t \in Threads, t = cur, k = "sys" PROVE InSyscall(t)'
  BY <1>1, <1>3 DEF Pushed, InSyscall
<1> QED BY <1>2, <1>3

(* A push of a frame left at an int 0x80 happens in user mode only.        *)
LEMMA PushInt80 ==
    ASSUME StateOK, CallInv, NEW k \in Kinds, NEW b \in BOOLEAN, NEW n \in Interruptible,
           stack' = [stack EXCEPT ![cur] = Append(@, [kind |-> k, tf |-> b, insn |-> n])],
           n = "int80" => stack[cur] = <<>>
    PROVE  \A t \in Threads : \A i \in DOMAIN stack'[t] : stack'[t][i].insn = "int80" => i = 1
<1>1. Pushed(stack', k, b, n)
  BY PushTops
<1> SUFFICES ASSUME NEW t \in Threads, NEW i \in DOMAIN stack'[t], stack'[t][i].insn = "int80"
             PROVE  i = 1
  OBVIOUS
<1>2. CASE t # cur
  BY <1>1, <1>2 DEF Pushed, CallInv
<1>3. CASE t = cur /\ i \in DOMAIN stack[cur]
  BY <1>1, <1>3 DEF Pushed, CallInv
<1>4. CASE t = cur /\ i = Len(stack[cur]) + 1
  <2>1. stack[cur] = <<>>
    BY <1>1, <1>4 DEF Pushed
  <2> QED BY <1>4, <2>1
<1> QED BY <1>1, <1>2, <1>3, <1>4 DEF Pushed

(* Every step keeps the shape of the kernel stacks.                        *)
LEMMA CallNext ==
    ASSUME IndInv, CallInv, Next
    PROVE  CallInv'
<1>0. StateOK /\ ExitInsn /\ StackShape
  BY DEF IndInv
<1>1. CASE UNCHANGED <<stack, cur>> /\ insn' \in {insn, "run", "store", "swtch"}
  BY <1>1 DEF CallInv, Top
<1>2. CASE ExecRun
  <2>1. UNCHANGED <<stack, cur>> /\ insn' # "popf"
    BY <1>2, OpsAssumption DEF ExecRun
  <2>2. insn' = "int80" => stack[cur] = <<>>
    BY <1>2, OpsAssumption DEF ExecRun, UserMode
  <2> QED BY <2>1, <2>2 DEF CallInv, Top
<1>3. ASSUME UNCHANGED cur, insn' # "popf", insn' # "int80",
             NEW k \in Kinds, NEW b \in BOOLEAN, NEW n \in Interruptible,
             stack' = [stack EXCEPT ![cur] = Append(@, [kind |-> k, tf |-> b, insn |-> n])],
             n = "int80" => stack[cur] = <<>>
      PROVE  CallInv'
  <2>1. \A t \in Threads : \A i \in DOMAIN stack'[t] : stack'[t][i].insn = "int80" => i = 1
    BY <1>0, <1>3, PushInt80
  <2>2. \A t \in Threads : t # cur => stack'[t] = stack[t]
    BY <1>0, <1>3, PushTops DEF Pushed
  <2> QED BY <1>3, <2>1, <2>2 DEF CallInv, Top
<1>4. CASE ExecStore
  <2>1. \/ UNCHANGED <<stack, cur>> /\ insn' \in {insn, "run"}
        \/ Deliver("irq") /\ UNCHANGED cur /\ insn = "store"
    BY <1>4 DEF ExecStore, StoreFault
  <2>2. CASE Deliver("irq") /\ UNCHANGED cur /\ insn = "store"
    <3>1. insn \in Interruptible /\ "irq" \in Kinds /\ tf \in BOOLEAN
      BY <1>0, <2>2 DEF StateOK, Insns, InterruptsOff, Kinds
    <3> QED BY <1>3, <2>2, <3>1 DEF Deliver
  <2> QED BY <1>1, <2>1, <2>2
<1>5. CASE ExecInt
  <2>1. CASE VmExit("SWINT")
    BY <1>1, <2>1 DEF VmExit, guestVars
  <2>2. CASE "INTN" \notin intercepts
    <3>1. /\ UNCHANGED cur /\ insn' = "run"
          /\ \E k \in Kinds :
               stack' = [stack EXCEPT ![cur] = Append(@, [kind |-> k, tf |-> tf, insn |-> "run"])]
      BY <1>5, <2>2 DEF ExecInt, Kinds
    <3>2. "run" \in Interruptible /\ tf \in BOOLEAN
      BY <1>0 DEF StateOK, Interruptible
    <3> QED BY <1>3, <3>1, <3>2
  <2> QED BY <1>5, <2>1, <2>2 DEF ExecInt
<1>6. CASE Interrupt \/ VmrunInject
  <2>1. UNCHANGED cur /\ insn \in Interruptible /\ tf \in BOOLEAN /\ insn' = "run"
    BY <1>0, <1>6 DEF Interrupt, VmrunInject, Deliver, StateOK, Insns, ExitInsn
  <2>2. \E k \in Kinds : Deliver(k)
    BY <1>6 DEF Interrupt, VmrunInject, Kinds
  <2>3. insn = "int80" => stack[cur] = <<>>
    BY DEF CallInv
  <2> QED BY <1>3, <2>1, <2>2, <2>3 DEF Deliver
<1>7. ASSUME UNCHANGED cur, insn' # "popf", stack[cur] # <<>>,
             stack' = [stack EXCEPT ![cur] = Front(@)], insn' = "int80" => insn' = Top(cur).insn
      PROVE  CallInv'
  <2>1. /\ \A t \in Threads : t # cur => stack'[t] = stack[t]
        /\ Len(stack[cur]) \in DOMAIN stack[cur] /\ Top(cur) = stack[cur][Len(stack[cur])]
        /\ DOMAIN stack'[cur] = DOMAIN stack[cur] \ {Len(stack[cur])}
        /\ \A j \in DOMAIN stack'[cur] : stack'[cur][j] = stack[cur][j]
    BY <1>0, <1>7, PopTops
  <2>2. cur \in Threads /\ stack[cur] \in Seq(Frames) /\ stack'[cur] \in Seq(Frames)
    BY <1>0, <1>7, Pop DEF StateOK
  <2>3. \A t \in Threads : \A i \in DOMAIN stack'[t] : stack'[t][i].insn = "int80" => i = 1
    BY <2>1, <2>2 DEF CallInv
  <2>4. ASSUME insn' = "int80" PROVE stack'[cur] = <<>>
    <3>1. Len(stack[cur]) = 1
      BY <1>7, <2>1, <2>2, <2>4 DEF CallInv
    <3>2. DOMAIN stack'[cur] = {}
      BY <2>1, <2>2, <3>1
    <3>3. ~(1 \in DOMAIN stack'[cur]) /\ DOMAIN stack'[cur] = 1 .. Len(stack'[cur])
      BY <2>2, <3>2, LenProperties
    <3>4. stack'[cur] # <<>> => Len(stack'[cur]) \in Nat \ {0}
      BY <2>2, EmptySeq
    <3> QED BY <3>3, <3>4
  <2> QED BY <1>7, <2>1, <2>3, <2>4 DEF CallInv, Top
<1>8. CASE ExecIret
  <2>1. CASE VmExit("IRET")
    BY <1>1, <2>1 DEF VmExit, guestVars
  <2>2. CASE "IRET" \notin intercepts
    <3>1. /\ UNCHANGED cur /\ insn' = Top(cur).insn /\ insn = "iret"
          /\ stack' = [stack EXCEPT ![cur] = Front(@)]
      BY <1>8, <2>2 DEF ExecIret
    <3>2. stack[cur] # <<>>
      BY <1>0, <3>1 DEF StackShape, InterruptsOff
    <3>3. insn' # "popf"
      BY <1>0, <3>1, <3>2, Pop, OpsAssumption DEF Interruptible
    <3> QED BY <1>7, <3>1, <3>2, <3>3
  <2> QED BY <1>8, <2>1, <2>2 DEF ExecIret
<1>9. CASE ExecPopf
  <2>1. CASE VmExit("POPF")
    BY <1>1, <2>1 DEF VmExit, guestVars
  <2>2. CASE "POPF" \notin intercepts
    <3>1. /\ UNCHANGED cur /\ insn' = "run" /\ insn = "popf"
          /\ stack' = [stack EXCEPT ![cur] = Front(@)]
      BY <1>9, <2>2 DEF ExecPopf
    <3>2. stack[cur] # <<>>
      BY <1>0, <3>1 DEF StackShape, InterruptsOff
    <3> QED BY <1>7, <3>1, <3>2
  <2> QED BY <1>9, <2>1, <2>2 DEF ExecPopf
<1>10. CASE ExecSwtch
  <2>1. insn = "swtch" /\ insn' = "popf" /\ cur' = next
    BY <1>10 DEF ExecSwtch
  <2>2. next # cur /\ next \in Threads /\ cur \in Threads
    BY <1>0, <2>1 DEF StackShape, StateOK
  <2>3. /\ \A t \in Threads : t # cur => stack'[t] = stack[t]
        /\ Last(stack'[cur]).kind = "sw"
        /\ \A t \in Threads : \A i \in DOMAIN stack'[t] : stack'[t][i].insn = "int80" => i = 1
    <3>1. CASE dying
      <4>1. stack' = [stack EXCEPT ![cur] = NewThread]
        BY <1>10, <3>1 DEF ExecSwtch
      <4>2. stack'[cur] = NewThread /\ \A t \in Threads : t # cur => stack'[t] = stack[t]
        BY <1>0, <2>2, <4>1 DEF StateOK
      <4>3. Last(NewThread).kind = "sw" /\ \A i \in DOMAIN NewThread : NewThread[i].insn = "run"
        BY DEF NewThread, Last
      <4> QED BY <4>2, <4>3 DEF CallInv
    <3>2. CASE ~dying
      <4>1. stack' = [stack EXCEPT ![cur] = Append(@, [kind |-> "sw", tf |-> tf, insn |-> "run"])]
        BY <1>10, <3>2 DEF ExecSwtch
      <4>2. "sw" \in Kinds /\ "run" \in Interruptible /\ tf \in BOOLEAN
        BY <1>0 DEF Kinds, Interruptible, StateOK
      <4>3. Pushed(stack', "sw", tf, "run")
        BY <1>0, <4>1, <4>2, PushTops
      <4>4. \A t \in Threads : \A i \in DOMAIN stack'[t] : stack'[t][i].insn = "int80" => i = 1
        BY <1>0, <4>1, <4>2, PushInt80
      <4> QED BY <4>3, <4>4 DEF Pushed
    <3> QED BY <3>1, <3>2
  <2>4. \A t \in Threads : t # next => Last(stack'[t]).kind = "sw"
    BY <2>3 DEF CallInv, Top
  <2>5. Last(stack'[next]).kind = "sw"
    BY <2>2, <2>3 DEF CallInv, Top
  <2> QED BY <2>1, <2>3, <2>4, <2>5 DEF CallInv, Top
<1>11. CASE ExecVmmcall \/ ExecTouch \/ ExecMovCr3 \/ handle_vmexit \/ Halted
  <2>1. UNCHANGED <<stack, cur>> /\ insn' \in {insn, "run", "swtch"}
    BY <1>11 DEF ExecVmmcall, ExecTouch, ExecMovCr3, VmExit, handle_vmexit, __handle_vm_swint,
       __handle_vm_iret, __handle_db, __handle_pf, __handle_cr3_write, __handle_popf,
       __handle_vm_vmmcall, __handle_vm_npf, Halted, vars, guestVars
  <2> QED BY <1>1, <2>1
<1> QED
  BY <1>2, <1>4, <1>5, <1>6, <1>8, <1>9, <1>10, <1>11 DEF Next, GuestStep

(* Every step keeps syscallmap a map of the threads inside a call.         *)
LEMMA WaitNext ==
    ASSUME Kill = FALSE, IndInv, TablesTyped, CallInv, WaitInv, Next
    PROVE  WaitInv'
<1>0. StateOK /\ ExitInsn /\ StackShape /\ OpenWindow /\ ReturnWillBeSeen /\ cur \in Threads
  BY DEF IndInv, StateOK
<1>a. /\ exitcode # "NONE" => eventinj = "NONE"
      /\ "IRET" \in itc_skip_flag => exitcode = "DB" \/ (exitcode = "NONE" /\ insn = "iret")
      /\ "IRET" \in itc_skip_flag => eventinj = "NONE"
  BY <1>0 DEF ExitInsn, OpenWindow, InterruptsOff
<1>b. ASSUME UNCHANGED syscallmap, \A t \in Threads : Inside(t) => Inside(t)',
             "IRET" \notin itc_skip_flag' \/ exitcode' # "NONE"
      PROVE  WaitInv'
  BY <1>b DEF WaitInv
<1>c. ASSUME UNCHANGED <<cur, stack, eventinj>>
      PROVE  \A t \in Threads : Inside(t) => Inside(t)'
  BY <1>c DEF Inside, InSyscall
<1>1. CASE ExecRun \/ ExecVmmcall \/ ExecTouch \/ ExecMovCr3
  <2>1. UNCHANGED <<syscallmap, itc_skip_flag, cur, stack, eventinj>> /\ insn # "iret" /\ exitcode = "NONE"
    BY <1>1 DEF ExecRun, ExecVmmcall, ExecTouch, ExecMovCr3, VmExit, Running, vmVars, guestVars
  <2> QED BY <1>a, <1>b, <1>c, <2>1
<1>2. ASSUME UNCHANGED <<syscallmap, itc_skip_flag, cur>>, "IRET" \notin itc_skip_flag,
             NEW k \in Kinds, NEW b \in BOOLEAN, NEW n \in Interruptible,
             stack' = [stack EXCEPT ![cur] = Append(@, [kind |-> k, tf |-> b, insn |-> n])],
             UNCHANGED eventinj \/ (eventinj = "INT80" => k = "sys")
      PROVE  WaitInv'
  <2>1. \A t \in Threads : InSyscall(t) \/ (t = cur /\ k = "sys") => InSyscall(t)'
    BY <1>0, <1>2, PushCalls
  <2>2. \A t \in Threads : Inside(t) => Inside(t)'
    BY <1>2, <2>1 DEF Inside
  <2> QED BY <1>2, <1>b, <2>2
<1>3. CASE ExecStore
  <2>1. /\ UNCHANGED <<syscallmap, itc_skip_flag, cur, eventinj>> /\ insn = "store" /\ exitcode = "NONE"
        /\ UNCHANGED stack \/ Deliver("irq")
    BY <1>3 DEF ExecStore, StoreFault, Running, vmVars
  <2>2. insn \in Interruptible /\ "irq" \in Kinds /\ tf \in BOOLEAN
    BY <1>0, <2>1 DEF StateOK, Insns, InterruptsOff, Kinds
  <2>3. "IRET" \notin itc_skip_flag
    BY <1>a, <2>1
  <2>4. CASE UNCHANGED stack
    BY <1>b, <1>c, <2>1, <2>3, <2>4
  <2>5. CASE Deliver("irq")
    BY <1>2, <2>1, <2>2, <2>3, <2>5 DEF Deliver
  <2> QED BY <2>1, <2>4, <2>5
<1>4. CASE ExecInt
  <2>1. /\ UNCHANGED <<syscallmap, itc_skip_flag, cur, eventinj>> /\ insn # "iret" /\ exitcode = "NONE"
        /\ \/ UNCHANGED stack
           \/ \E k \in Kinds :
                stack' = [stack EXCEPT ![cur] = Append(@, [kind |-> k, tf |-> tf, insn |-> "run"])]
    BY <1>4 DEF ExecInt, VmExit, Running, vmVars, guestVars, Kinds
  <2>2. "run" \in Interruptible /\ tf \in BOOLEAN
    BY <1>0 DEF StateOK, Interruptible
  <2>3. "IRET" \notin itc_skip_flag
    BY <1>a, <2>1
  <2>4. CASE UNCHANGED stack
    BY <1>b, <1>c, <2>1, <2>3, <2>4
  <2>5. CASE \E k \in Kinds :
                stack' = [stack EXCEPT ![cur] = Append(@, [kind |-> k, tf |-> tf, insn |-> "run"])]
    BY <1>2, <2>1, <2>2, <2>3, <2>5
  <2> QED BY <2>1, <2>4, <2>5
<1>5. CASE Interrupt \/ VmrunInject
  <2>1. /\ UNCHANGED <<syscallmap, itc_skip_flag, cur>> /\ exitcode = "NONE"
        /\ insn \in Interruptible /\ tf \in BOOLEAN /\ insn # "iret"
    BY <1>0, <1>5 DEF Interrupt, VmrunInject, Running, StateOK, Insns, ExitInsn, vmVars, InterruptsOff
  <2>2. \E k \in Kinds : Deliver(k) /\ (UNCHANGED eventinj \/ (eventinj = "INT80" => k = "sys"))
    BY <1>5 DEF Interrupt, VmrunInject, Kinds
  <2>3. "IRET" \notin itc_skip_flag
    BY <1>a, <2>1
  <2> QED BY <1>2, <2>1, <2>2, <2>3 DEF Deliver
<1>6. CASE ExecIret
  <2>1. CASE VmExit("IRET")
    <3>1. UNCHANGED <<syscallmap, cur, stack, eventinj>> /\ exitcode' # "NONE"
      BY <2>1 DEF VmExit, vmVars, guestVars
    <3> QED BY <1>b, <1>c, <3>1
  <2>2. CASE "IRET" \notin intercepts
    <3>1. /\ UNCHANGED <<syscallmap, itc_skip_flag, cur, eventinj>> /\ insn = "iret" /\ Running
          /\ stack' = [stack EXCEPT ![cur] = Front(@)]
          /\ StepTrap(Top(cur).tf)
      BY <1>6, <2>2 DEF ExecIret, vmVars
    <3>2. stack[cur] # <<>>
      BY <1>0, <3>1 DEF StackShape, InterruptsOff
    <3>3. ~Waits(syscallmap, cur)
      <4>1. CASE "IRET" \in itc_skip_flag
        BY <3>1, <4>1 DEF WaitInv, Running
      <4>2. CASE "IRET" \notin itc_skip_flag
        <5>1. syscallmap = <<>>
          BY <1>0, <2>2, <4>2 DEF ReturnWillBeSeen
        <5> QED BY <5>1 DEF Waits
      <4> QED BY <4>1, <4>2
    <3>4. "IRET" \in itc_skip_flag => exitcode' = "DB"
      BY <1>0, <3>1 DEF OpenWindow, Running, StepTrap
    <3>5. \A t \in Threads : t # cur /\ Inside(t) => Inside(t)'
      BY <1>0, <3>1, <3>2, PopTops DEF Inside, InSyscall
    <3> QED BY <3>1, <3>3, <3>4, <3>5 DEF WaitInv
  <2> QED BY <1>6, <2>1, <2>2 DEF ExecIret
<1>7. CASE ExecSwtch
  <2>1. /\ UNCHANGED <<syscallmap, itc_skip_flag, eventinj>> /\ exitcode = "NONE" /\ insn # "iret"
        /\ eventinj = "NONE"
    BY <1>7 DEF ExecSwtch, Running, vmVars
  <2>2. stack' = [stack EXCEPT ![cur] = Append(@, [kind |-> "sw", tf |-> tf, insn |-> "run"])]
    BY <1>0, <1>7 DEF ExecSwtch, StateOK
  <2>3. "sw" \in Kinds /\ "run" \in Interruptible /\ tf \in BOOLEAN
    BY <1>0 DEF Kinds, Interruptible, StateOK
  <2>4. \A t \in Threads : InSyscall(t) => InSyscall(t)'
    BY <1>0, <2>2, <2>3, PushCalls
  <2> QED BY <1>a, <1>b, <2>1, <2>4 DEF Inside
<1>8. CASE ExecPopf
  <2>1. CASE VmExit("POPF")
    <3>1. UNCHANGED <<syscallmap, cur, stack, eventinj>> /\ exitcode' # "NONE"
      BY <2>1 DEF VmExit, vmVars, guestVars
    <3> QED BY <1>b, <1>c, <3>1
  <2>2. CASE "POPF" \notin intercepts
    <3>1. /\ UNCHANGED <<syscallmap, itc_skip_flag, cur, eventinj>> /\ insn = "popf" /\ Running
          /\ stack' = [stack EXCEPT ![cur] = Front(@)]
      BY <1>8, <2>2 DEF ExecPopf, vmVars
    <3>2. stack[cur] # <<>>
      BY <1>0, <3>1 DEF StackShape, InterruptsOff
    <3>3. "IRET" \notin itc_skip_flag
      BY <1>a, <3>1 DEF Running
    <3>4. /\ \A t \in Threads : t # cur => stack'[t] = stack[t]
          /\ stack[cur][Len(stack[cur])].kind = "sw"
          /\ DOMAIN stack'[cur] = DOMAIN stack[cur] \ {Len(stack[cur])}
          /\ \A j \in DOMAIN stack'[cur] : stack'[cur][j] = stack[cur][j]
      BY <1>0, <3>1, <3>2, PopTops DEF CallInv
    <3>5. \A t \in Threads : InSyscall(t) => InSyscall(t)'
      BY <3>4 DEF InSyscall
    <3> QED BY <1>b, <3>1, <3>3, <3>5 DEF Inside
  <2> QED BY <1>8, <2>1, <2>2 DEF ExecPopf
<1>9. CASE __handle_vm_swint
  <2>1. /\ UNCHANGED <<itc_skip_flag, cur, stack>> /\ exitcode = "SWINT" /\ eventinj = "NONE"
        /\ "IRET" \notin itc_skip_flag
    BY <1>a, <1>9 DEF __handle_vm_swint, Handles
  <2>2. CASE UNCHANGED syscallmap
    <3>1. \A t \in Threads : Inside(t) => Inside(t)'
      BY <2>1 DEF Inside, InSyscall
    <3> QED BY <1>b, <2>1, <2>2, <3>1
  <2>3. CASE insn = "int80" /\ eventinj' = "INT80" /\ \E no \in Syscalls : __handle_syscall(no)
    <3>1. ~Waits(syscallmap, cur)
      <4>1. stack[cur] = <<>>
        BY <2>3 DEF CallInv
      <4>2. ~Inside(cur)
        BY <2>1, <4>1 DEF Inside, InSyscall
      <4> QED BY <1>0, <4>2 DEF WaitInv
    <3>2. CASE \E n \in Syscallnos : syscallmap' = Append(syscallmap, [tid |-> cur, syscallno |-> n])
      <4>1. PICK n \in Syscallnos : syscallmap' = Append(syscallmap, [tid |-> cur, syscallno |-> n])
        BY <3>2
      <4> DEFINE e == [tid |-> cur, syscallno |-> n]
      <4>2. e \in Entries /\ e.tid = cur
        BY <1>0 DEF Entries
      <4>3. syscallmap' = Append(syscallmap, e) /\ syscallmap \in Seq(Entries)
        BY <4>1 DEF TablesTyped
      <4> HIDE DEF e
      <4>4. /\ DOMAIN syscallmap' = DOMAIN syscallmap \cup {Len(syscallmap) + 1}
            /\ syscallmap'[Len(syscallmap) + 1] = e
            /\ \A i \in DOMAIN syscallmap : syscallmap'[i] = syscallmap[i]
        BY <4>2, <4>3
      <4>5. Once(syscallmap')
        BY <3>1, <4>2, <4>4 DEF WaitInv, Once, Waits
      <4>6. \A t \in Threads : Waits(syscallmap', t) => t = cur \/ Waits(syscallmap, t)
        BY <4>2, <4>4 DEF Waits
      <4>7. \A t \in Threads : Inside(t) \/ t = cur => Inside(t)'
        BY <2>1, <2>3 DEF Inside, InSyscall
      <4> QED BY <2>1, <4>5, <4>6, <4>7 DEF WaitInv
    <3> QED BY <2>2, <2>3, <3>2, CallAdds
  <2> QED BY <1>9, <2>2, <2>3 DEF __handle_vm_swint
<1>10. CASE __handle_vm_iret
  <2>1. UNCHANGED <<cur, stack, eventinj>>
    BY <1>10 DEF __handle_vm_iret, guestVars
  <2>2. \/ UNCHANGED syscallmap /\ vm_get_waiting_syscall(syscallmap, cur) = NULL
        \/ syscallmap' = vm_remove_waiting_thread(syscallmap, cur)
    BY <1>10 DEF __handle_vm_iret, get_cur_threadid
  <2>3. CASE UNCHANGED syscallmap /\ vm_get_waiting_syscall(syscallmap, cur) = NULL
    <3>1. ~Waits(syscallmap, cur)
      BY <2>3, LookupFinds DEF TablesTyped
    <3> QED BY <1>c, <2>1, <2>3, <3>1 DEF WaitInv
  <2>4. CASE syscallmap' = vm_remove_waiting_thread(syscallmap, cur)
    <3>1. /\ Once(syscallmap') /\ ~Waits(syscallmap', cur)
          /\ \A u : Waits(syscallmap', u) => Waits(syscallmap, u)
      BY <2>4, RemovalWorks DEF TablesTyped, WaitInv
    <3> QED BY <1>c, <2>1, <3>1 DEF WaitInv
  <2> QED BY <2>2, <2>3, <2>4
<1>11. CASE __handle_db
  <2>1. UNCHANGED <<syscallmap, cur, stack, eventinj>> /\ itc_skip_flag' = {}
    BY <1>11 DEF __handle_db, guestVars
  <2> QED BY <1>b, <1>c, <2>1
<1>12. CASE __handle_pf \/ __handle_cr3_write \/ __handle_popf \/ __handle_vm_vmmcall \/ __handle_vm_npf
  <2>1. /\ UNCHANGED <<syscallmap, cur, stack>> /\ exitcode \notin {"NONE", "DB"}
        /\ itc_skip_flag' \subseteq itc_skip_flag \cup {"UNPACK", "TASKSWITCH"}
    BY <1>12 DEF __handle_pf, __handle_cr3_write, __handle_popf, __handle_vm_vmmcall,
       __handle_vm_npf, __skip_intercpt_cur_instr, Handles, vmVars, guestVars
  <2>2. "IRET" \notin itc_skip_flag' /\ eventinj = "NONE"
    BY <1>a, <2>1
  <2>3. \A t \in Threads : Inside(t) => Inside(t)'
    BY <2>1, <2>2 DEF Inside, InSyscall
  <2> QED BY <1>b, <2>1, <2>2, <2>3
<1>13. CASE Halted
  <2>1. UNCHANGED <<syscallmap, cur, stack, eventinj, itc_skip_flag, exitcode>>
    BY <1>13 DEF Halted, vars, vmcbVars, vmVars, guestVars
  <2> QED BY <1>c, <2>1 DEF WaitInv
<1> QED
  BY <1>1, <1>3, <1>4, <1>5, <1>6, <1>7, <1>8, <1>9, <1>10, <1>11, <1>12, <1>13
     DEF Next, GuestStep, handle_vmexit

(* When no thread dies inside the kernel, syscallmap has at most one entry *)
(* for a thread and only threads inside a system call are in it: the scan  *)
(* that skips an entry never has one to skip, and no interrupt, switch or  *)
(* nested return leaves an entry behind.                                   *)
THEOREM WaitersAreInside == ASSUME Kill = FALSE PROVE Spec => []WaitingIsCurrent
<1> DEFINE Inv == TablesTyped /\ CallInv /\ WaitInv
<1>1. Init => Inv
  <2> SUFFICES ASSUME Init PROVE CallInv /\ WaitInv /\ TablesTyped
    OBVIOUS
  <2>0. TablesTyped
    BY InitTables
  <2>1. /\ Last(NewThread).kind = "sw" /\ \A i \in DOMAIN NewThread : NewThread[i].insn = "run"
    BY DEF NewThread, Last
  <2>2. \A t \in Threads : stack[t] = IF t = cur THEN <<>> ELSE NewThread
    BY DEF Init, VmmInit
  <2>3. CallInv
    BY <2>1, <2>2 DEF CallInv, Top, Init, VmmInit
  <2>4. syscallmap = <<>> /\ itc_skip_flag = {}
    BY DEF Init, VmmInit
  <2> QED BY <2>0, <2>3, <2>4 DEF WaitInv, Once, Waits
<1>2. IndInv /\ Inv /\ [Next]_vars => Inv'
  <2>1. ASSUME UNCHANGED vars, Inv PROVE Inv'
    <3>1. UNCHANGED <<syscallmap, fmap, cur, stack, insn, eventinj, itc_skip_flag, exitcode>>
      BY <2>1 DEF vars, vmcbVars, vmVars, guestVars
    <3> QED BY <2>1, <3>1 DEF TablesTyped, CallInv, WaitInv, Top, Inside, InSyscall
  <2> QED BY <2>1, TablesNext, CallNext, WaitNext
<1>3. Inv => WaitingIsCurrent
  <2> SUFFICES ASSUME Inv, NEW i \in DOMAIN syscallmap
               PROVE  LET t == syscallmap[i].tid
                      IN  /\ InSyscall(t) \/ (t = cur /\ eventinj = "INT80")
                          /\ \A j \in DOMAIN syscallmap : syscallmap[j].tid = t => i = j
    BY DEF WaitingIsCurrent
  <2>1. syscallmap[i] \in Entries
    <3>1. syscallmap \in Seq(Entries) /\ i \in 1 .. Len(syscallmap)
      BY LenProperties DEF TablesTyped
    <3> QED BY <3>1, ElementOfSeq
  <2>2. syscallmap[i].tid \in Threads /\ Waits(syscallmap, syscallmap[i].tid)
    BY <2>1 DEF Entries, Waits
  <2>3. Inside(syscallmap[i].tid)
    BY <2>2 DEF WaitInv
  <2> QED BY <2>3 DEF Inside, WaitInv, Once
<1> HIDE DEF Inv
<1> QED
  BY <1>1, <1>2, <1>3, Invariance, PTL DEF Spec
=============================================================================
