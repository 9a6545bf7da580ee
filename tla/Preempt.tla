------------------------------- MODULE Preempt -------------------------------
(***************************************************************************)
(* The task switcher of kernel/preempt.cpp over the process table of       *)
(* kernel/process.cpp.  There is one CPU and one kernel stack; a system    *)
(* call and a timer interrupt each run to completion, so each is one step. *)
(*                                                                         *)
(* The operators take the process table q as the handler has left it so    *)
(* far, because every caller edits the table before it switches.  Of a     *)
(* saved register frame only what the properties tell apart is kept: the   *)
(* call it returns from, what rax holds, and whether its stack pointer is  *)
(* one that isolation_ok accepts.  The field fresh is a history variable:  *)
(* it holds while saved_frame is the task's latest user state, that is     *)
(* from the save until the task is entered again.                          *)
(***************************************************************************)
EXTENDS Integers

CONSTANTS
    MAX_PROCESS,    \* number of process slots (128 in the code)
    MaxTime         \* bound: the uptime clock stops advancing here

ASSUME SlotAssumption == MAX_PROCESS \in Nat \ {0}
ASSUME TimeAssumption == MaxTime \in Nat

VARIABLES
    ps,         \* the process table: slot -> Process record
    current,    \* the slot running in ring 3, or NoTask
    rr_cursor,  \* the slot pick_next chose last
    cr3,        \* root of the page tables the CPU uses
    now,        \* timer_uptime_ms()
    mode        \* "boot", "user" (ring 3 was entered) or "halted"

schedVars == <<ps, current, rr_cursor, cr3, now, mode>>

Slots  == 0 .. MAX_PROCESS - 1
NoTask == -1
NoRoot == 0

States == {"EMPTY", "READY", "RUNNING", "BLOCKED", "TERMINATED"}

Live(p) == p.state # "EMPTY"

\* The round-robin choice: scanning from the slot after rr_cursor, the first
\* READY slot other than skip.  A set with at most one element.
Ready(q, skip) == {i \in Slots \ {skip} : q[i].state = "READY"}
Turn(i) == (i + MAX_PROCESS - rr_cursor - 1) % MAX_PROCESS
Bug_pick_next(q, skip) ==   \* the scan starts at slot 0, not after rr_cursor
    {i \in Ready(q, skip) : \A j \in Ready(q, skip) : i <= j}
pick_next(q, skip) ==
    {i \in Ready(q, skip) : \A j \in Ready(q, skip) : Turn(i) <= Turn(j)}

isolation_ok(p) == p.pml4 # NoRoot /\ p.frame_valid /\ p.frame.sane

\* A sleeper whose deadline has passed becomes READY; its deadline stays set.
Bug_wake_timed_tasks(q, t) ==   \* now == deadline instead of now >= deadline
    [i \in Slots |->
        IF q[i].state = "BLOCKED" /\ q[i].wake_deadline = t
        THEN [q[i] EXCEPT !.state = "READY"] ELSE q[i]]
wake_timed_tasks(q, t) ==
    [i \in Slots |->
        IF q[i].state = "BLOCKED" /\ q[i].wake_deadline # 0 /\ t >= q[i].wake_deadline
        THEN [q[i] EXCEPT !.state = "READY"]
        ELSE q[i]]

Save(q, i, fx, st) ==
    [q EXCEPT ![i].frame = fx, ![i].frame_valid = TRUE, ![i].state = st, ![i].fresh = TRUE]

\* Load n's saved frame and address space: n is the task iretq returns to.
Bug_Resume(q, n) ==             \* switch_pml4 is forgotten
    /\ ps' = [q EXCEPT ![n].state = "RUNNING", ![n].fresh = FALSE]
    /\ current' = n
    /\ cr3' = cr3
Resume(q, n) ==
    /\ ps' = [q EXCEPT ![n].state = "RUNNING", ![n].fresh = FALSE]
    /\ current' = n
    /\ cr3' = q[n].pml4

\* No switch happens: nothing is READY, or the chosen task fails the isolation
\* test and is terminated on the spot.
NoSwitch(q) ==
    /\ \/ /\ Ready(q, current) = {}
          /\ ps' = q
          /\ rr_cursor' = rr_cursor
       \/ \E n \in pick_next(q, current) :
            /\ ~isolation_ok(q[n])
            /\ rr_cursor' = n
            /\ ps' = [q EXCEPT ![n].state = "TERMINATED"]
    /\ UNCHANGED <<current, cr3, mode>>

\* switch_to: only an outgoing task that is RUNNING has its frame saved.
switch_to(q, fx, n) ==
    LET running == q[current].state = "RUNNING"
        left    == IF running THEN Save(q, current, fx, "READY") ELSE q
    IN  Resume([left EXCEPT ![n].wake_deadline = 0], n)

SwitchAway(q, fx) ==
    \/ NoSwitch(q)
    \/ \E n \in pick_next(q, current) :
         /\ isolation_ok(q[n])
         /\ rr_cursor' = n
         /\ switch_to(q, fx, n)
         /\ mode' = mode

\* A timer interrupt taken in ring 3, fx being the interrupted registers.
on_timer(fx) ==
    /\ mode = "user"
    /\ now' = IF now < MaxTime THEN now + 1 ELSE now
    /\ SwitchAway(wake_timed_tasks(ps, now'), fx)

yield_from_syscall(q, fx) == SwitchAway(q, fx)

\* The calls that return true: the caller is parked as BLOCKED and the next
\* READY task is entered directly.  They return false exactly when NoSwitch.
Park(q, n) ==
    /\ rr_cursor' = n
    /\ Resume(q, n)
    /\ mode' = mode

Bug_block_from_syscall(q, fx) ==    \* the caller is not marked BLOCKED
    \E n \in pick_next(q, current) :
        /\ isolation_ok(q[n])
        /\ Park(Save(q, current, fx, q[current].state), n)
block_from_syscall(q, fx) ==
    \E n \in pick_next(q, current) :
        /\ isolation_ok(q[n])
        /\ Park(Save(q, current, fx, "BLOCKED"), n)

block_until_from_syscall(q, fx, deadline) ==
    \E n \in pick_next(q, current) :
        /\ isolation_ok(q[n])
        /\ Park([Save(q, current, fx, "BLOCKED") EXCEPT
                    ![current].wake_deadline = deadline,
                    ![n].wake_deadline = 0], n)

\* Control goes back into process::run, which never returns to ring 3: the
\* boot task (slot 0) is marked dead if it was running and the kernel halts.
ReturnToKernel(q) ==
    /\ ps' = [q EXCEPT ![0].state = IF @ = "RUNNING" THEN "TERMINATED" ELSE @]
    /\ current' = NoTask
    /\ cr3' = NoRoot
    /\ mode' = "halted"

Sleepers(q) ==
    {i \in Slots \ {current} : q[i].state = "BLOCKED" /\ q[i].wake_deadline # 0}

\* The sleeper with the earliest deadline, the lowest slot among equals.
EarliestSleeper(q) ==
    {i \in Sleepers(q) : \A j \in Sleepers(q) :
        \/ q[i].wake_deadline < q[j].wake_deadline
        \/ q[i].wake_deadline = q[j].wake_deadline /\ i <= j}

ExitTo(q, n) ==
    \/ /\ isolation_ok(q[n])
       /\ Resume(q, n)
       /\ mode' = mode
    \/ /\ ~isolation_ok(q[n])
       /\ ReturnToKernel([q EXCEPT ![n].state = "TERMINATED"])

\* The current task ends; q still holds it as the exit handler left it.
on_exit(q) ==
    LET dead == [i \in Slots |-> IF i = current
                    THEN [q[i] EXCEPT !.state = "TERMINATED", !.frame_valid = FALSE]
                    ELSE q[i]]
    IN  \/ \E n \in pick_next(dead, current) :
             rr_cursor' = n /\ ExitTo(dead, n)
        \/ /\ Ready(dead, current) = {}
           /\ rr_cursor' = rr_cursor
           /\ \E n \in EarliestSleeper(dead) :
                ExitTo([i \in Slots |-> IF i = n
                           THEN [dead[i] EXCEPT !.state = "READY", !.wake_deadline = 0]
                           ELSE dead[i]], n)
        \/ /\ Ready(dead, current) = {}
           /\ Sleepers(dead) = {}
           /\ rr_cursor' = rr_cursor
           /\ ReturnToKernel(dead)
=============================================================================
