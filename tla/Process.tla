------------------------------- MODULE Process -------------------------------
(***************************************************************************)
(* The life of a BlockOS process: boot, fork, vfork, clone, execve, exit   *)
(* and wait4, the calls that put a task to sleep (futex, nanosleep,        *)
(* sched_yield) and the reclamation of address spaces.  Translated from    *)
(* kernel/process.cpp and the dispatcher of kernel/user_syscall.cpp.       *)
(*                                                                         *)
(* int 0x80 enters through an interrupt gate, so a system call is one      *)
(* uninterruptible step.  Descriptors and sockets are left out.            *)
(* The fields of an EMPTY slot are never read; they are kept at NoProcess. *)
(***************************************************************************)
EXTENDS Preempt, FiniteSets

CONSTANTS
    Roots,          \* the page-table roots the heap can hand out
    MaxPid,         \* bound: the last pid fork may hand out
    THREAD_BASE,    \* offset of thread ids (1000 in the code)
    Addrs,          \* user addresses used as futex words
    Waiters,        \* indices of the futex_waiters table
    MaxSleep,       \* bound: longest nanosleep, in clock ticks
    WaitArgs,       \* the process ids that programs pass to wait4
    StackOk,        \* the outcomes of isolation_ok's test of a user's rsp
    Uses            \* what the programs of an instance do: system calls, faults

ASSUME RootAssumption   == Roots \subseteq Nat \ {NoRoot}
ASSUME PidAssumption    == MaxPid \in Nat /\ THREAD_BASE \in Nat
ASSUME AddrAssumption   == Addrs \subseteq Nat \ {0}
ASSUME WaiterAssumption == Waiters \subseteq Nat
ASSUME SleepAssumption  == MaxSleep \in Nat
ASSUME WaitAssumption   == WaitArgs \subseteq Int
ASSUME StackAssumption  == StackOk \subseteq BOOLEAN /\ TRUE \in StackOk

VARIABLES
    next_pid,       \* the next pid fork and spawn hand out
    spaces,         \* the roots of the address spaces that are allocated
    futex_waiters   \* the futex wait table: index -> [used, addr, pid]

vars == <<schedVars, next_pid, spaces, futex_waiters>>

Calls == {"user", "fork", "vfork", "clone", "wait4", "futex", "nanosleep", "sched_yield"}

\* What rax holds when the frame is loaded: the user's own value, the 0 or the
\* pid the kernel stored there, or still the number of the system call.
RaxValues == {"user", "zero", "pid", "number"}

Frame == [call : Calls, rax : RaxValues, sane : BOOLEAN]
Frames(call, rax) == [call : {call}, rax : {rax}, sane : StackOk]

NoFrame == [call |-> "user", rax |-> "zero", sane |-> TRUE]

\* memset(p, 0, sizeof(*p))
NoProcess ==
    [state |-> "EMPTY", pid |-> 0, tid |-> 0, parent_pid |-> 0,
     pml4 |-> NoRoot, pml4_owned |-> FALSE, pml4_pending_free |-> NoRoot,
     vfork_child |-> FALSE, vfork_parent_pid |-> 0, wait_target_pid |-> 0,
     wake_deadline |-> 0, clear_tid |-> 0, frame |-> NoFrame, frame_valid |-> FALSE,
     fresh |-> FALSE]

Proc ==
    [state : States, pid : Nat, tid : Nat, parent_pid : Nat,
     pml4 : Roots \cup {NoRoot}, pml4_owned : BOOLEAN,
     pml4_pending_free : Roots \cup {NoRoot},
     vfork_child : BOOLEAN, vfork_parent_pid : Nat, wait_target_pid : Nat,
     wake_deadline : Nat, clear_tid : Addrs \cup {0}, frame : Frame, frame_valid : BOOLEAN,
     fresh : BOOLEAN]

NoWaiter == [used |-> FALSE, addr |-> 0, pid |-> 0]

Init ==
    /\ ps = [s \in Slots |-> NoProcess]
    /\ current = NoTask
    /\ rr_cursor = 0
    /\ cr3 = NoRoot
    /\ now = 1    \* the clock ticks long before the first process runs
    /\ mode = "boot"
    /\ next_pid = 1
    /\ spaces = {}
    /\ futex_waiters = [w \in Waiters |-> NoWaiter]

(***************************************************************************)
(* The process table.                                                      *)
(***************************************************************************)

\* The lowest EMPTY slot; no slot when the table is full.
free_slot(q) ==
    {s \in Slots : ~Live(q[s]) /\ \A t \in 0 .. s - 1 : Live(q[t])}

\* process::get: the lowest live slot with that pid, TERMINATED ones included.
get(q, pid) ==
    {s \in Slots : /\ pid # 0 /\ Live(q[s]) /\ q[s].pid = pid
                   /\ \A t \in 0 .. s - 1 : ~(Live(q[t]) /\ q[t].pid = pid)}

count(q) == Cardinality({s \in Slots : Live(q[s])})

Bug_pml4_used_elsewhere(q, root, self) ==   \* only owners count as users
    \E s \in Slots \ {self} : Live(q[s]) /\ q[s].pml4_owned /\ q[s].pml4 = root
pml4_used_elsewhere(q, root, self) ==
    \E s \in Slots \ {self} : Live(q[s]) /\ q[s].pml4 = root

\* if (x->state == BLOCKED) x->state = READY, for the slots of S.
Wake(q, S) ==
    [s \in Slots |-> IF s \in S /\ q[s].state = "BLOCKED"
                     THEN [q[s] EXCEPT !.state = "READY"] ELSE q[s]]

(***************************************************************************)
(* Boot: the first process is created from /bin/sh and entered; when it    *)
(* cannot be created, or ring 3 is left for good, the kernel halts.        *)
(***************************************************************************)
BootHalt ==
    /\ mode' = "halted"
    /\ UNCHANGED <<ps, current, rr_cursor, cr3, now, futex_waiters>>

Spawned(root) ==
    [NoProcess EXCEPT !.state = "READY", !.pid = next_pid, !.tid = next_pid,
                      !.pml4 = root, !.frame_valid = TRUE]

\* kernel.cpp: process::create, then process::run enters ring 3 at once.
Boot ==
    /\ mode = "boot"
    /\ \/ \E s \in free_slot(ps), root \in Roots :
            /\ ps' = [ps EXCEPT ![s] = [Spawned(root) EXCEPT !.state = "RUNNING"]]
            /\ current' = s
            /\ cr3' = root
            /\ next_pid' = next_pid + 1
            /\ spaces' = {root}
            /\ mode' = "user"
            /\ UNCHANGED <<rr_cursor, now, futex_waiters>>
       \/ BootHalt /\ UNCHANGED <<next_pid, spaces>>
\* boot_error_halt never returns.
Halted == mode = "halted" /\ UNCHANGED vars

(***************************************************************************)
(* System calls of the current task.  The dispatcher first frees the space *)
(* that an earlier execve replaced, unless another process still uses it.  *)
(***************************************************************************)
Entered == [ps EXCEPT ![current].pml4_pending_free = NoRoot]

Bug_Reclaimed == spaces \ {ps[current].pml4_pending_free}   \* freed unconditionally
Reclaimed ==
    LET old == ps[current].pml4_pending_free
    IN  IF old # NoRoot /\ ~pml4_used_elsewhere(ps, old, current)
        THEN spaces \ {old} ELSE spaces

\* The task goes on in ring 3 with the table q.
Continue(q) == ps' = q /\ UNCHANGED <<current, rr_cursor, cr3, mode>>

\* An allocation failed; a root that was handed out before is not given back.
Leaked == {Reclaimed} \cup {Reclaimed \cup {root} : root \in Roots \ Reclaimed}

\* Every call that touches none of this state: getpid, write to the tty...
SYS_other ==
    /\ mode = "user"
    /\ Continue(Entered)
    /\ spaces' = Reclaimed
    /\ UNCHANGED <<now, next_pid, futex_waiters>>

\* process::fork_like.  A child that cannot get its page tables has still
\* consumed a pid.
Forked(vf, root, fx) ==
    [NoProcess EXCEPT !.state = "READY", !.pid = next_pid, !.tid = next_pid,
                      !.parent_pid = ps[current].pid, !.pml4 = root,
                      !.vfork_child = vf, !.vfork_parent_pid = ps[current].pid,
                      !.frame = [fx EXCEPT !.rax = "zero"], !.frame_valid = TRUE,
                      !.fresh = TRUE]

SYS_fork ==
    /\ mode = "user"
    /\ next_pid <= MaxPid
    /\ \E child \in free_slot(ps) :
         \/ \E root \in Roots \ Reclaimed, fx \in Frames("fork", "pid") :
              /\ Continue([Entered EXCEPT ![child] = Forked(FALSE, root, fx)])
              /\ spaces' = Reclaimed \cup {root}
         \/ /\ Continue(Entered)
            /\ spaces' \in Leaked
    /\ next_pid' = next_pid + 1
    /\ UNCHANGED <<now, futex_waiters>>

SYS_vfork ==
    /\ mode = "user"
    /\ next_pid <= MaxPid
    /\ \E child \in free_slot(ps), fx \in Frames("vfork", "pid") :
         LET q == [Entered EXCEPT ![child] = Forked(TRUE, ps[current].pml4, fx),
                                  ![current].state = "BLOCKED"]
         IN  block_from_syscall(q, fx) \/ NoSwitch(q)
    /\ spaces' = Reclaimed
    /\ next_pid' = next_pid + 1
    /\ UNCHANGED <<now, futex_waiters>>

\* A thread shares its creator's space, which nobody owns from then on.  Its
\* tid is where the search for a free pid starts, not where it ends.
Bug_ThreadPids(q) == {count(q) + THREAD_BASE}   \* no search for a free pid
ThreadPids(q) ==
    LET base == count(q) + THREAD_BASE
    IN  {x \in base .. base + MAX_PROCESS :
            get(q, x) = {} /\ \A y \in base .. x - 1 : get(q, y) # {}}

Bug_SYS_clone ==    \* the thread becomes a second owner of the space
    /\ mode = "user"
    /\ \E child \in free_slot(ps), pid \in ThreadPids(ps), fx \in Frames("clone", "zero") :
         Continue([Entered EXCEPT
             ![child] = [NoProcess EXCEPT !.state = "READY", !.pid = pid,
                             !.tid = count(ps) + THREAD_BASE, !.parent_pid = ps[current].tid,
                             !.pml4 = ps[current].pml4, !.pml4_owned = ps[current].pml4_owned,
                             !.frame = fx, !.frame_valid = TRUE, !.fresh = TRUE]])
    /\ spaces' = Reclaimed
    /\ UNCHANGED <<now, next_pid, futex_waiters>>
SYS_clone ==
    /\ mode = "user"
    /\ \E child \in free_slot(ps), pid \in ThreadPids(ps), fx \in Frames("clone", "zero") :
         Continue([Entered EXCEPT
             ![child] = [NoProcess EXCEPT !.state = "READY", !.pid = pid,
                             !.tid = count(ps) + THREAD_BASE, !.parent_pid = ps[current].tid,
                             !.pml4 = ps[current].pml4, !.frame = fx,
                             !.frame_valid = TRUE, !.fresh = TRUE],
             ![current].pml4_owned = FALSE])
    /\ spaces' = Reclaimed
    /\ UNCHANGED <<now, next_pid, futex_waiters>>

\* prepare_execve.  A failure leaves the process as it was, but a root that
\* was already allocated is not given back.
VforkDone(q) ==
    IF q[current].vfork_child
    THEN [Wake(q, get(q, q[current].vfork_parent_pid)) EXCEPT
             ![current].vfork_child = FALSE, ![current].vfork_parent_pid = 0]
    ELSE q

Replaced(q, root) ==
    [q EXCEPT ![current].pml4_pending_free =
                  IF q[current].pml4_owned /\ q[current].pml4 # NoRoot
                  THEN q[current].pml4 ELSE @,
              ![current].pml4 = root,
              ![current].pml4_owned = TRUE]

SYS_execve ==
    /\ mode = "user"
    /\ \/ \E root \in Roots \ Reclaimed :
            /\ ps' = VforkDone(Replaced(Entered, root))
            /\ cr3' = root
            /\ spaces' = Reclaimed \cup {root}
       \/ /\ ps' = Entered
          /\ cr3' = cr3
          /\ spaces' \in Leaked
    /\ UNCHANGED <<current, rr_cursor, mode, now, next_pid, futex_waiters>>

SYS_sched_yield ==
    /\ mode = "user"
    /\ \E fx \in Frames("sched_yield", "zero") : yield_from_syscall(Entered, fx)
    /\ spaces' = Reclaimed
    /\ UNCHANGED <<now, next_pid, futex_waiters>>

\* The result is not stored before the switch: rax is still the call number.
SYS_nanosleep ==
    /\ mode = "user"
    /\ \/ \E d \in 0 .. MaxSleep, fx \in Frames("nanosleep", "number") :
            /\ now + d <= MaxTime
            /\ block_until_from_syscall(Entered, fx, now + d)
       \/ NoSwitch(Entered)
    /\ spaces' = Reclaimed
    /\ UNCHANGED <<now, next_pid, futex_waiters>>

SYS_set_tid_address ==
    /\ mode = "user"
    /\ \E a \in Addrs : Continue([Entered EXCEPT ![current].clear_tid = a])
    /\ spaces' = Reclaimed
    /\ UNCHANGED <<now, next_pid, futex_waiters>>

(***************************************************************************)
(* Futexes.  Waiters are keyed by the virtual address alone and name the   *)
(* task by its tid, which the waker looks up as a pid.  The word's value   *)
(* is user memory: the call either matches it and sleeps or does nothing   *)
(* (SYS_other).                                                            *)
(***************************************************************************)
FutexSlot ==
    {w \in Waiters : /\ ~futex_waiters[w].used
                     /\ \A v \in Waiters : v < w => futex_waiters[v].used}

SYS_futex_wait ==
    /\ mode = "user"
    /\ \E w \in FutexSlot, a \in Addrs :
         \/ /\ futex_waiters' = [futex_waiters EXCEPT ![w] =
                  [used |-> TRUE, addr |-> a, pid |-> ps[current].tid]]
            /\ \E fx \in Frames("futex", "number") : block_from_syscall(Entered, fx)
         \/ /\ futex_waiters' = futex_waiters
            /\ NoSwitch(Entered)
    /\ spaces' = Reclaimed
    /\ UNCHANGED <<now, next_pid>>

\* wake_futex scans the table in order and stops after n tasks were woken; an
\* entry it passes is dropped even when it wakes nobody.
Waiting(a) == {w \in Waiters : futex_waiters[w].used /\ futex_waiters[w].addr = a}
Wakes(q, a, w) ==
    /\ w \in Waiting(a)
    /\ \E s \in get(q, futex_waiters[w].pid) : q[s].state = "BLOCKED"
    /\ \A v \in Waiting(a) : v < w => futex_waiters[v].pid # futex_waiters[w].pid
Scanned(q, a, n) ==
    {w \in Waiting(a) : Cardinality({v \in Waiting(a) : v < w /\ Wakes(q, a, v)}) < n}
Woken(q, a, n) == UNION {get(q, futex_waiters[w].pid) : w \in Scanned(q, a, n)}
Unqueue(S) == [w \in Waiters |-> IF w \in S
                  THEN NoWaiter ELSE futex_waiters[w]]

SYS_futex_wake ==
    /\ mode = "user"
    /\ \E a \in Addrs, n \in {1, MAX_PROCESS} :
         /\ Continue(Wake(Entered, Woken(Entered, a, n)))
         /\ futex_waiters' = Unqueue(Scanned(Entered, a, n))
    /\ spaces' = Reclaimed
    /\ UNCHANGED <<now, next_pid>>
(***************************************************************************)
(* exit and wait4.  An exit wakes a vfork parent, answers any BLOCKED      *)
(* parent whose wait_target_pid is 0 or this pid, clears the tid word and  *)
(* leaves the slot TERMINATED for wait4 to reap.                           *)
(***************************************************************************)
Bug_AnswerParent(q) ==      \* a wait for any child (0) is not recognised
    [s \in Slots |->
        IF /\ s \in get(q, q[current].parent_pid)
           /\ q[s].state = "BLOCKED"
           /\ q[s].wait_target_pid = q[current].pid
        THEN [q[s] EXCEPT !.state = "READY", !.wait_target_pid = 0, !.frame.rax = "pid"]
        ELSE q[s]]
AnswerParent(q) ==
    [s \in Slots |->
        IF /\ s \in get(q, q[current].parent_pid)
           /\ q[s].state = "BLOCKED"
           /\ q[s].wait_target_pid \in {0, q[current].pid}
        THEN [q[s] EXCEPT !.state = "READY", !.wait_target_pid = 0, !.frame.rax = "pid"]
        ELSE q[s]]

\* The tid word may be unmapped since an execve: then nobody is woken.
SYS_exit ==
    /\ mode = "user"
    /\ LET q == AnswerParent(VforkDone(Entered))
           a == ps[current].clear_tid
       IN  \/ /\ a # 0
              /\ on_exit(Wake(q, Woken(q, a, 1)))
              /\ futex_waiters' = Unqueue(Scanned(q, a, 1))
           \/ /\ on_exit(q)
              /\ futex_waiters' = futex_waiters
    /\ spaces' = Reclaimed
    /\ UNCHANGED <<now, next_pid>>

Children(q) == {x \in Slots : Live(q[x]) /\ q[x].parent_pid = q[current].tid}
Zombies(q, wanted) ==
    {x \in Children(q) : q[x].state = "TERMINATED" /\ wanted \in {0, q[x].pid}}

\* The slot becomes free; its space is destroyed if the process owned it and
\* nobody else uses it.
SYS_wait4_reap(wanted) ==
    /\ mode = "user"
    /\ \E x \in Zombies(Entered, wanted) :
         /\ \A y \in Zombies(Entered, wanted) : x <= y
         /\ Continue([Entered EXCEPT ![x] = NoProcess])
         /\ spaces' = IF /\ ps[x].pml4_owned
                         /\ ps[x].pml4 \notin {NoRoot, cr3}
                         /\ ~pml4_used_elsewhere(Entered, ps[x].pml4, x)
                      THEN Reclaimed \ {ps[x].pml4} ELSE Reclaimed
    /\ UNCHANGED <<now, next_pid, futex_waiters>>

\* Some child is alive and none has ended.  The task is marked BLOCKED before
\* block_from_syscall, and stays so when there is nothing to switch to.
SYS_wait4_block(wanted) ==
    /\ mode = "user"
    /\ Children(Entered) # {}
    /\ Zombies(Entered, wanted) = {}
    /\ LET q == [Entered EXCEPT ![current].wait_target_pid = wanted,
                                ![current].state = "BLOCKED"]
       IN  \/ \E fx \in Frames("wait4", "zero") : block_from_syscall(q, fx)
           \/ NoSwitch(q)
    /\ spaces' = Reclaimed
    /\ UNCHANGED <<now, next_pid, futex_waiters>>

\* The argument is any number, the pid of a child or not; -1 and 0 ask for any
\* child.
Bug_SYS_wait4 ==    \* the request -1 (any child) is not turned into 0
    \E arg \in WaitArgs : SYS_wait4_reap(arg) \/ SYS_wait4_block(arg)
SYS_wait4 ==
    \E arg \in WaitArgs :
        LET wanted == IF arg <= 0 THEN 0 ELSE arg
        IN  SYS_wait4_reap(wanted) \/ SYS_wait4_block(wanted)

\* A fault in ring 3 ends the system, not only the process.
UserFault ==
    /\ mode = "user"
    /\ ReturnToKernel(ps)
    /\ UNCHANGED <<rr_cursor, now, next_pid, spaces, futex_waiters>>

Timer ==
    /\ \E fx \in Frames("user", "user") : on_timer(fx)
    /\ UNCHANGED <<next_pid, spaces, futex_waiters>>

Next ==
    \/ Boot \/ Halted \/ Timer \/ SYS_other \/ SYS_exit
    \/ "fault" \in Uses /\ UserFault
    \/ "fork" \in Uses /\ SYS_fork
    \/ "vfork" \in Uses /\ SYS_vfork
    \/ "clone" \in Uses /\ SYS_clone
    \/ "execve" \in Uses /\ SYS_execve
    \/ "wait4" \in Uses /\ SYS_wait4
    \/ "sched_yield" \in Uses /\ SYS_sched_yield
    \/ "nanosleep" \in Uses /\ SYS_nanosleep
    \/ "futex" \in Uses /\ (SYS_futex_wait \/ SYS_futex_wake)
    \/ "set_tid_address" \in Uses /\ SYS_set_tid_address

\* Interrupts are enabled in ring 3, so the timer keeps firing there.
Spec == Init /\ [][Next]_vars /\ WF_vars(Timer)
(***************************************************************************)
(* Properties.                                                             *)
(***************************************************************************)
FutexWaiter == [used : BOOLEAN, addr : Addrs \cup {0}, pid : Nat]

\* The process table and the globals of process.cpp, preempt.cpp and the futex
\* table hold values of their types after every call, fork to wait4.
TypeOK ==
    /\ ps \in [Slots -> Proc]
    /\ current \in Slots \cup {NoTask}
    /\ rr_cursor \in Slots
    /\ cr3 \in Roots \cup {NoRoot}
    /\ now \in Nat
    /\ mode \in {"boot", "user", "halted"}
    /\ next_pid \in Nat \ {0}
    /\ spaces \subseteq Roots
    /\ futex_waiters \in [Waiters -> FutexWaiter]

\* switch_to, the block calls and on_exit: while ring 3 is entered there is a current task, no other task is
\* RUNNING, and the CPU is on the current task's own page tables.
OneRunner ==
    mode = "user" =>
        /\ current \in Slots
        /\ ps[current].state \in {"RUNNING", "READY", "BLOCKED"}
        /\ \A s \in Slots : ps[s].state = "RUNNING" => s = current
        /\ cr3 = ps[current].pml4

\* Reclamation (the pending free of the dispatcher, and wait4) never destroys
\* page tables that a process still points to or that the CPU is using.
NoUseAfterFree ==
    /\ \A s \in Slots : Live(ps[s]) => ps[s].pml4 \in spaces
    /\ \A s \in Slots : ps[s].pml4_pending_free # NoRoot => ps[s].pml4_pending_free \in spaces
    /\ mode = "user" => cr3 \in spaces

\* The root that slot s will free, at its next call or when it is reaped.
WillFree(s) ==
    {ps[s].pml4_pending_free} \cup (IF ps[s].pml4_owned THEN {ps[s].pml4} ELSE {})

\* No address space has two owners that would each free it, and no process
\* is about to free the space it runs in.
SoleOwner ==
    /\ \A s, t \in Slots : s # t => WillFree(s) \cap WillFree(t) \subseteq {NoRoot}
    /\ \A s \in Slots : Live(ps[s]) => ps[s].pml4_pending_free # ps[s].pml4

\* Fork's counter and clone's search never give two live tasks one pid, however
\* threads end and slots are reused, while fewer than THREAD_BASE pids have been
\* handed out by fork.
PidsDistinct ==
    \A s, t \in Slots : Live(ps[s]) /\ Live(ps[t]) /\ ps[s].pid = ps[t].pid => s = t

\* The task in slot s was put to sleep by the given call and is off the CPU.
Sleeping(s, call) ==
    /\ s # current
    /\ ps[s].state = "BLOCKED"
    /\ ps[s].fresh
    /\ ps[s].frame.call = call

\* on_exit alone drops the saved frame: x ended by exit, and was not refused by
\* the switcher.
Exited(x) == ps[x].state = "TERMINATED" /\ ~ps[x].frame_valid

\* A task that sleeps in wait4 was not overtaken by the exit it waits for: no
\* child that matches its request has exited in the meantime.  exit looks the
\* parent up by pid and wait4 finds children by tid, so a thread whose pid is
\* not its tid is not promised this; neither is the parent of a child that the
\* switcher refused, since nobody is told of that end.
NoMissedChild ==
    \A s, x \in Slots :
        /\ Sleeping(s, "wait4") /\ ps[s].tid = ps[s].pid
        /\ Exited(x) /\ ps[x].parent_pid = ps[s].tid
        => ps[s].wait_target_pid \notin {0, ps[x].pid}

\* pick_next's round robin: every READY task gets the CPU, whatever the others
\* do.
ReadyRuns ==
    \A s \in Slots :
        ps[s].state = "READY" ~> (ps[s].state # "READY" \/ current = s \/ mode = "halted")

\* A sleep with a deadline ends: the timer (wake_timed_tasks) or an exit wakes
\* every timed sleeper.
SleepersWake ==
    \A s \in Slots :
        (ps[s].state = "BLOCKED" /\ ps[s].wake_deadline # 0)
            ~> (ps[s].state # "BLOCKED" \/ current = s \/ mode = "halted")

(***************************************************************************)
(* What the code's own comments say, and the code does not do.             *)
(***************************************************************************)

\* preempt.cpp: "we only ever switch tasks at a point where the outgoing
\* task's entire kernel-side state has already been copied out into its
\* Process::saved_frame".  A task that is off the CPU can be resumed from
\* where it left.
FrameSaved ==
    \A s \in Slots \ {current} : ps[s].state \in {"READY", "BLOCKED"} => ps[s].fresh

\* user_syscall.cpp: "vfork: the parent waits until the child execs or
\* exits."  While the child borrows its space the parent does not run.
VforkParentWaits ==
    \A c \in Slots : ps[c].vfork_child /\ ps[c].state \in {"READY", "RUNNING", "BLOCKED"} =>
        \A s \in get(ps, ps[c].vfork_parent_pid) : ps[s].state # "RUNNING"

\* The program of the task in slot x ends or is replaced in this step.
ExecsOrExits(x) ==
    \/ ps[x].state # "TERMINATED" /\ ps'[x].state = "TERMINATED"
    \/ ps'[x].pml4 # ps[x].pml4

\* process.cpp: "The parent is blocked by the syscall layer until the child
\* execs or exits."  Whatever else may be wrong with the wake-up, a vfork wait
\* ends in a step in which some child of the sleeper execs or exits.
VforkWaitLasts ==
    [][\A s \in Slots : Sleeping(s, "vfork") /\ ps'[s].state # "BLOCKED" =>
          \E x \in Slots : ps[x].parent_pid = ps[s].pid /\ ExecsOrExits(x)]_vars

\* preempt.hpp: "The blocked task is resumed later from the same saved frame
\* with whatever return value the caller placed in rax."  Only wait4 leaves
\* its return value to be filled in by somebody else.
ResumedAsLeft ==
    [][\A s \in Slots : Sleeping(s, ps[s].frame.call) /\ ps[s].frame.call # "wait4"
            => ps'[s].frame = ps[s].frame]_vars

\* process.cpp, of run: it "only falls back to returning into the kernel when the
\* last task has exited".  The kernel halts with no task left.
ReturnsWhenAllExited ==
    mode = "halted" => \A s \in Slots : ps[s].state \in {"EMPTY", "TERMINATED"}
=============================================================================
