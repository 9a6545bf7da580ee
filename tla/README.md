# BlockOS: a TLA+ verification project

BlockOS is an x86-64 operating system in C++ with its own C library and user
programs. This directory holds TLA+ models of its parts, the TLC configurations
that check them, and TLAPS proofs. Paths below are relative to the repository.

## Status

| Module | Role |
| --- | --- |
| `Preempt` | the task switcher, `kernel/preempt.cpp` |
| `Process` | the process table, the process system calls, the reclamation of address spaces |
| `MCProcess` | the module TLC runs, with ten configurations |
| `SwitchProofs` | lemmas: what the switcher guarantees to the handlers that use it |
| `ProcessProofs` | the inductive invariant and the theorems |

Everything else in the inventory is planned or left out, with reasons.

## Inventory

### Processes and scheduling (modelled)

- State: 128 process slots (`kernel/process.cpp`), the current task, the
  round-robin cursor, CR3, the uptime clock, the next pid, 128 futex waiters,
  the set of allocated page-table roots.
- Operations: boot, timer interrupt, user fault, and the system calls fork,
  vfork, clone, execve, exit, wait4, futex, nanosleep, sched_yield and
  set_tid_address.
- Interactions: every call that sleeps edits the table and then asks the
  switcher for another task. exit wakes a parent, a vfork parent and a futex
  waiter. execve leaves its old space to be freed at the next call.
- Hard behaviours: a free that happens one call later than the decision to free;
  spaces shared by vfork children and threads; wake-ups aimed at a sleeper in
  the wrong call; a switch refused half way.
- Properties: one runner on its own tables, no space destroyed in use, none
  freed twice, no exit of a child overtaking its parent's wait4 (with the two
  exceptions given under Runs), no starvation, every timed sleep ends.

### Parts to be modelled

| Part | State | Operations | What is hard | Properties wanted |
| --- | --- | --- | --- | --- |
| Pipes, unix sockets, descriptors (`kernel/user_syscall.cpp`) | socket table, descriptor tables, blocked readers and writers | socketpair, pipe, connect, accept, read, write, close, dup, exit, execve | references counted by scanning tables; index reuse; sleeping ends | bytes arrive once and in order; no lost wake-up; end of file is seen |
| Kernel heap (`kernel/allocator.cpp`) | chain of block headers, bump pointer | alloc, free, reset | split, lead-in padding, coalescing both ways | blocks tile the heap, allocated blocks never overlap |
| Page tables (`arch/86_64x/paging.cpp`) | tables, share counts | clone_for_fork, destroy, map, protect | failure half way, saturation | a mapped page is never free |
| TCP (`net/tcp.cpp`) | connection records, one tracked segment each, clock | listen, connect, receive, send, close, tick | loss, duplication, reordering, retries, wrap-around | stream integrity, connection states agree, close terminates |
| IP, ARP, DHCP, DNS (`net/net.cpp`, `drivers/dhcp_dns_stack.cpp`) | caches, sockets | demultiplex, resolve, expire | late and repeated answers | no answer applied to the wrong request |
| File tree (`fs/vfs.cpp`) | entry list, descriptors that cache data pointers | create, write, remove, rename, mount | stale pointers, rename of a directory | every entry has a parent, no descriptor points at freed data |
| Console (`kernel/tty.cpp`) | line buffer, input ring, modes | receive a character, read, set modes | full buffers, mode changes with a line pending | each byte is delivered once |
| RCU and locks (`kernel/rcu.cpp`, `kernel/spinlock.cpp`) | generations, callbacks | read lock and unlock, call, synchronize | generation 0, nesting | no callback while an earlier reader is inside |
| io_uring (`kernel/io_uring.cpp`) | two rings | submit, poll, reap | full completion ring, wrap | each submission completes exactly once |
| Policy scheduler (`kernel/scheduler.cpp`) | tasks, policies | create, tick, register, select, unregister | policy removed while selected | the decision is a runnable task |
| UEFI-time scheduler (`kernel/scheduler_preempt.cpp`) | circular run queue | create, yield, tick, exit | unlinking the current task | the queue stays a ring of live tasks |
| Live patching (`kernel/livepatch/livepatch.cpp`) | patches, targets | register, apply, roll back, unregister | two patches of one target | roll back of all restores the original |
| Virtqueues and drivers (`drivers/virtqueue_ops.cpp`, `drivers/virtio_*.cpp`) | descriptors, rings | submit, complete, time out, reclaim | late completion, failed notify | a buffer the device may write is not reused |
| Threads library (`userspace/libc/src/pthread.c`) | mutex, condition, rwlock words | lock, wait, signal, create, join | interleavings around the futex | mutual exclusion, no lost wake-up |
| Device manager, watchdog, adapters, SMP start | tables, rings, mailbox | register, probe, tick, send | rings at their limits | ownership of ring slots |

### Parts left out

On-disk formats (ext2/3/4, btrfs, FAT32, exFAT, ISO 9660, UDF, UFS2, NTFS, JFS)
and ELF loading are sequential decoders: their correctness is in byte layouts.
procfs and the kernel commands render text. Register programming (USB, ATA,
audio, PCI, ACPI, power, display) depends on hardware that the source does not
describe. Graphics and the X11 server draw and encode. `kernel/login.cpp`,
`kernel/panic.cpp`, `fs/EROFS.cpp`, `fs/tmpfs.cpp`, `fs/ramfs.cpp`,
`fs/files.cpp` and `fs/lua_elf.cpp` are not part of the build.
`PROJECT.json` lists every part with its status, and the main hazards with their
lines, including those of parts that no module covers yet.

## Plan

Most important behaviour first. Each step adds a module, its runs and its
mutants; the proofs follow once TLC agrees.

1. Processes, switcher, reclamation: done, with proofs.
2. `UnixSocket` over `Preempt`: two processes, sockets of capacity 2, reuse of
   indices. Abstract specification: a pair of byte queues with closed ends.
3. `Allocator`: a heap of about a dozen units, against the abstract
   specification of disjoint intervals. Theorem: blocks tile the heap.
4. `TCP`: two endpoints, a network that loses, repeats and reorders, sequence
   numbers modulo a small power of two, two retries. Abstract specification: a
   reliable stream.
5. `Pthread` over the futex: three threads on mutex, condition and rwlock.
   Theorem: mutual exclusion of the mutex.
6. `VFS`, `TTY`, `IoUring`, `RCU`, `LivePatch`, `Virtqueue` with the block and
   net drivers, `Paging` share counts, the two other schedulers. Theorems for
   the ring indices and for the patch table.
7. Device manager, watchdog, adapters, ARP and DHCP caches.

## How `Preempt` and `Process` follow the code

There is one CPU and one kernel stack, and `int 0x80` is an interrupt gate. A
system call or interrupt handler therefore runs to its end undisturbed, and is
one action. Interleaving happens between handlers: the timer can take the CPU
from ring 3 at any point, and any task may make any call when it runs.

| Code | Model |
| --- | --- |
| `Process` slots, `set_current`, CR3 | `ps`, `current`, `cr3` |
| `pick_next`, `wake_timed_tasks`, `switch_to`, `isolation_ok` | operators of the same names |
| `on_timer`, `yield_from_syscall`, `block_from_syscall`, `block_until_from_syscall`, `on_exit` | operators of the same names |
| `fork_like` | `Forked`, used by `SYS_fork` and `SYS_vfork` |
| start of the dispatcher (pending free) | `Entered` and `Reclaimed`, part of every system call |
| `prepare_execve` | `SYS_execve`, `Replaced`, `VforkDone` |
| `SYS_exit`, `SYS_wait4`, `SYS_futex`, `wake_futex` | actions and operators of the same names |
| return into `process::run`, then `boot_error_halt` | `ReturnToKernel`, `Halted` |

Abstractions. A register frame keeps the call it returns from, what `rax`
holds, and whether its stack pointer passes `isolation_ok`. An address space is
its root. The contents of user memory are not kept: a futex word either matches
or does not. Allocation may fail at any time; a root allocated before a failure
may leak, as in the code. `fresh` is a history field: the saved frame is the
task's latest user state. `Uses` selects the calls the programs of an instance
make; it restricts the users, never a handler.

A call that touches none of this state, in particular all descriptor and socket
calls, is `SYS_other`. Socket calls that put a task to sleep are thus not in the
model, and the runs say nothing about them.

## Runs

| Run | Checks | Result |
| --- | --- | --- |
| `process_lifecycle` | `TypeOK`, `NoUseAfterFree`, `NoMissedChild` under fork, vfork, execve, wait4 | holds |
| `process_threads` | `SoleOwner`, `NoMissedChild`, `PidsDistinct` under clone, fork, execve, wait4 | holds |
| `process_futex` | `OneRunner` with threads, futexes and tid words | holds |
| `process_faults` | `OneRunner`, `NoUseAfterFree`, `NoMissedChild` with faults and refused tasks | holds |
| `process_fairness` | `ReadyRuns`, `SleepersWake` | holds |
| `frame_saved` | `FrameSaved` | violated |
| `vfork_parent` | `VforkParentWaits` | violated |
| `vfork_timer` | `VforkWaitLasts` | violated |
| `resumed_as_left` | `ResumedAsLeft` | violated |
| `returns_all_exited` | `ReturnsWhenAllExited` | violated |

What `NoMissedChild` says and does not say. A task asleep in wait4 has no child
that matches its request and has exited. Two cases are excluded, because the
code does not deliver there. `SYS_exit` looks the parent up by pid while `wait4`
finds children by tid, so a thread whose pid differs from its tid is not woken
(`kernel/user_syscall.cpp:657`, `:671`, `:789`). A child that `isolation_ok`
refuses is TERMINATED by the switcher, and its parent is not told
(`kernel/preempt.cpp:132`). Both cases occur in the instances: without the first
condition `process_threads` violates the property, without the second
`process_faults` does.

Bounds. Three slots: a parent, a child and a third task that interferes, which
is what every hazard on the list needs. Three roots, so that a root is freed and
handed out again while an execve has another one pending; `process_futex`, which
frees none, has two, so that the CPU can be on the wrong one. `MaxPid` bounds the
forks of a run. `MaxTime` bounds the clock; at the bound it stands still and
ticks go on. `WaitArgs` holds the pids that programs pass to wait4: any child
(-1), one child, and in `process_lifecycle` a pid that nobody has; with threads,
a pid that two of them have one after the other. `THREAD_BASE` is 10 instead of
1000, and `MaxPid` stays below it. The code never compares `next_pid` with live
pids: with `MaxPid` in the thread range a fork takes the pid of a live thread,
so `PidsDistinct` is a statement about fewer than a thousand forks per boot.

Fairness. The only assumption is weak fairness of `Timer`: interrupts are
enabled in ring 3 and the timer is periodic. Nothing is assumed of programs,
which may compute or make calls for ever.

### Where code and comments disagree

- `frame_saved`. A `wait4` that finds nothing to switch to returns to ring 3
  with its caller marked BLOCKED. The next tick switches away without saving its
  registers, because `switch_to` saves only a RUNNING task. The comment at
  `kernel/preempt.cpp:50` says that the whole state has been copied out.
- `vfork_parent`. The exit of any child makes a parent blocked in vfork READY,
  although the vfork child still borrows its space; at the next tick the parent
  runs in it. See the comment at `kernel/user_syscall.cpp:822`.
- `vfork_timer`. An exit ends its parent's nanosleep early and the parent is
  entered with its deadline still set (`kernel/preempt.cpp:169` and `:241` do not
  clear it). If it then calls vfork, the first tick past that deadline wakes it,
  although no child has exited or called execve. See the comment at
  `kernel/process.cpp:196`. A wait4 or a futex wait is cut short in the same way.
- `resumed_as_left`. The same wake-up ends a nanosleep or a futex wait of the
  parent and replaces its saved `rax`. See `kernel/preempt.hpp:72`.
- `returns_all_exited`. When the last runnable task exits while another sleeps
  without a deadline, the kernel returns from `run` and halts. See
  `kernel/process.cpp:163`, and `kernel/process.hpp:85` for `run_scheduler`.

## Proofs

The theorems of `ProcessProofs` hold for every number of slots, roots, pids,
futex waiters, every `WaitArgs` and `Uses`, and with or without tasks that fail `isolation_ok`.

| Theorem | Statement |
| --- | --- |
| `Invariance` | `Spec => []IInv` |
| `TypeCorrect` | `Spec => []TypeOK` |
| `SingleRunner` | `Spec => []OneRunner` |
| `ReclamationSafe` | `Spec => []NoUseAfterFree` |
| `NoDoubleFree` | `Spec => []SoleOwner` |

Assumptions: the named ASSUMEs of `Preempt` and `Process` (the constants have
their types, the arguments of wait4 are integers, there is at least one slot,
roots and addresses are not 0). TLC
evaluates them in every run.

The invariant. `NoUseAfterFree` is not inductive: two processes about to free
one space would satisfy it until the second one frees. `IInv` adds `FreedOnce`
(a root has at most one process that will free it), `PendingReplaced` (a process
does not run in the space it is about to free), `EmptyBlank` (an EMPTY slot
holds no root) and an empty table before boot. The heart of the argument: a
space is destroyed only by the one process that may free it, after
`pml4_used_elsewhere` found no other user; so afterwards nobody points to it,
and nobody else will free it.

The layout. A handler edits the table in stages and then calls the switcher, so
the invariant is stated of any table (`SpaceInv(q, sp)`). `SwitchProofs` shows
that every operation of `Preempt`, given a `Schedulable` table, leaves one
runner and no field that reclamation reads changed (`Switched`).
`ProcessProofs` then needs one lemma per system call, about the stages alone.

Only model-checked: `PidsDistinct` (it needs the bound on forks),
`NoMissedChild`, and the liveness properties `ReadyRuns` and `SleepersWake`,
since fairness is outside what TLAPS can handle here.
