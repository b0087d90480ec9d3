CONSTANTS
    t1 = t1
    t2 = t2
    mm1 = mm1
    mm2 = mm2
    f1 = f1
    Threads = {t1, t2}
    FirstThread = t1
    Mm <- OwnMm
    Requests <- SyscallRequests
    Cmds = {"ENABLE", "DISABLE", "TEST"}
    UserOps = {"int80", "intn", "vmmcall", "touch"}
    KernelOps = {}
    Syscalls = {"READ", "OPEN", "SOCKETCALL", "OTHER"}
    Fds <- OpenResults
    Names = {f1}
    MaxDepth = 2
    MaxWaiting = 3
    MaxFiles = 4
    Preempt = TRUE
    Kill = FALSE
    SaveGuestStates = TRUE
SPECIFICATION FairSpec
INVARIANT TypeOK
INVARIANT WindowClosable
INVARIANT TaskSwitchExact
INVARIANT WindowIsOneInstruction
INVARIANT PopfPaired
INVARIANT TrapFlagOwned
INVARIANT ReturnWillBeSeen
INVARIANT WaitingIsCurrent
PROPERTY SwitchArms
PROPERTY InterceptedCompletes
