SPECIFICATION Spec
CONSTANTS
    MAX_PROCESS = 3
    MaxTime = 1
    Roots = {1, 2, 3}
    MaxPid = 4
    THREAD_BASE = 10
    Addrs = {1}
    Waiters = {0, 1}
    MaxSleep = 1
    WaitArgs <- ForkWaits
    StackOk = {TRUE}
    Uses = {"fork", "vfork", "execve", "wait4"}
INVARIANTS
    TypeOK
    NoUseAfterFree
    NoMissedChild
