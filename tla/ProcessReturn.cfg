SPECIFICATION Spec
CONSTANTS
    MAX_PROCESS = 3
    MaxTime = 1
    Roots = {1, 2, 3}
    MaxPid = 2
    THREAD_BASE = 10
    Addrs = {1}
    Waiters = {0, 1}
    MaxSleep = 1
    WaitArgs <- FewWaits
    StackOk = {TRUE}
    Uses = {"fork", "futex"}
INVARIANT ReturnsWhenAllExited
