SPECIFICATION Spec
CONSTANTS
    MAX_PROCESS = 3
    MaxTime = 3
    Roots = {1, 2, 3}
    MaxPid = 3
    THREAD_BASE = 10
    Addrs = {1}
    Waiters = {0, 1}
    MaxSleep = 1
    WaitArgs <- FewWaits
    StackOk = {TRUE}
    Uses = {"fork", "vfork", "nanosleep", "wait4"}
PROPERTY VforkWaitLasts
