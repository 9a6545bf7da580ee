SPECIFICATION Spec
CONSTANTS
    MAX_PROCESS = 3
    MaxTime = 2
    Roots = {1, 2, 3}
    MaxPid = 3
    THREAD_BASE = 10
    Addrs = {1}
    Waiters = {0, 1}
    MaxSleep = 1
    WaitArgs <- FewWaits
    StackOk = {TRUE}
    Uses = {"fork", "vfork"}
INVARIANT VforkParentWaits
