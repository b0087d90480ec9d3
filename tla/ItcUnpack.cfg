CONSTANTS
    t1 = t1
    t2 = t2
    mm1 = mm1
    mm2 = mm2
    f1 = f1
    Threads = {t1, t2}
    FirstThread = t1
    Mm <- OwnMm
    Requests <- UnpackRequests
    Cmds = {"ENABLE", "DISABLE", "TEST"}
    UserOps = {"store", "vmmcall"}
    KernelOps = {"store"}
    Syscalls = {"READ", "OTHER"}
    Fds <- OpenResults
    Names = {f1}
    MaxDepth = 2
    MaxWaiting = 3
    MaxFiles = 4
    Preempt = TRUE
    Kill = FALSE
    SaveGuestStates = TRUE
SPECIFICATION Spec
INVARIANT WindowClosable
PROPERTY SwitchArms
