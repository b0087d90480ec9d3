------------------------------- MODULE MCBoot -------------------------------
(* Machines whose VMM starts on and off a 2 MB boundary (4 pages here) and *)
(* whose pool is plentiful, has holes, has no run of three pages, ends at  *)
(* max_page or runs out at one of the allocations; processors of each      *)
(* vendor with every combination of the features the VMM asks for; memory  *)
(* that is zero when the VMM starts and memory that is not.                *)
EXTENDS Boot

Machine(s, n, f) == [start |-> s, size |-> n, free |-> f]

SmallMachines ==
    {Machine(8, 24, 10 .. 31), Machine(9, 25, 12 .. 33), Machine(8, 24, (10 .. 31) \ {13, 20}),
     Machine(10, 25, {p \in 10 .. 34 : p % 3 # 0})}
    \cup {Machine(8, 24, 10 .. k) : k \in 9 .. 30}
    \cup {Machine(8, 28, k .. 35) : k \in 19 .. 22}
    \cup {Machine(9, 25, k .. 33) : k \in {14, 18}}

AmdCpus ==
    {[vendor |-> "AuthenticAMD", std1 |-> TRUE, ext1 |-> x, ecx1 |-> {}, ecx81 |-> s, npt |-> n,
      true |-> FALSE, low |-> {}, truelow |-> {}, seclow |-> {}] :
        x \in BOOLEAN, s \in {{}, {"SVM"}}, n \in BOOLEAN}

(* No processor requires the secondary controls.                           *)
IntelCpus ==
    {[vendor |-> "GenuineIntel", std1 |-> TRUE, ext1 |-> TRUE, ecx1 |-> v, ecx81 |-> {},
      npt |-> FALSE, true |-> t, low |-> {}, truelow |-> {}, seclow |-> {}] :
        v \in {{}, {"VMX"}}, t \in BOOLEAN}

OtherCpus ==
    {[vendor |-> "CentaurHauls", std1 |-> s, ext1 |-> FALSE, ecx1 |-> {}, ecx81 |-> {},
      npt |-> FALSE, true |-> FALSE, low |-> {}, truelow |-> {}, seclow |-> {}] : s \in BOOLEAN}

(* The stack and the page of the vmcb happen to be zero, or are not.       *)
UsedVm ==
    [n_cr3 |-> 1, itc_flag |-> {"STEP"}, itc_skip_flag |-> {"UNPACK"}, btrackcurrent |-> 1,
     ptracked |-> <<"loop">>, syscallmap |-> <<[tid |-> 1, syscallno |-> "OPEN"]>>,
     fmap |-> <<[fid |-> 3, fname |-> "old"]>>, handlers |-> {"vm_exit"}]
UsedVmcb ==
    [efer |-> {"LME", "HIGH"}, cr0 |-> {"PG", "NW"}, cr4 |-> {"HIGH"}, dr6 |-> {"HIGH"},
     dr7 |-> {"HIGH"}, cs |-> {"L", "D"}, rflags |-> {"TF"}, intercepts |-> {"INTN"},
     general2 |-> {}, eventinj |-> "PF", np |-> 0, asid |-> 0,
     ncr3 |-> 1, iopm |-> 1, msrpm |-> 1]
StackContents == {ZeroVm, UsedVm}
PageContents == {Zero, UsedVmcb}

SmallCpus == AmdCpus \cup IntelCpus \cup OtherCpus
=============================================================================
