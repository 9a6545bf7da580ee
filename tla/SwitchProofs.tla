----------------------------- MODULE SwitchProofs -----------------------------
(***************************************************************************)
(* What the task switcher guarantees to the system call handlers that use  *)
(* it, for any number of process slots: each operation of Preempt, applied *)
(* to a table that a handler may hand to it, keeps the table well-typed,   *)
(* keeps every field that reclamation looks at, and leaves one runner.     *)
(***************************************************************************)
EXTENDS Process, TLAPS

Table == [Slots -> Proc]

\* Two tables agree on everything that reclamation looks at.
SameSpaces(q, r) ==
    \A s \in Slots :
        /\ Live(r[s]) <=> Live(q[s])
        /\ ~Live(q[s]) => r[s] = q[s]
        /\ r[s].pml4 = q[s].pml4
        /\ r[s].pml4_owned = q[s].pml4_owned
        /\ r[s].pml4_pending_free = q[s].pml4_pending_free

\* What a handler guarantees of the table it hands to the switcher.
Schedulable(q) ==
    /\ q \in Table
    /\ current \in Slots
    /\ q[current].state \in {"RUNNING", "READY", "BLOCKED"}
    /\ \A s \in Slots : q[s].state = "RUNNING" => s = current
    /\ cr3 = q[current].pml4

SchedTypes ==
    /\ current \in Slots \cup {NoTask}
    /\ rr_cursor \in Slots
    /\ cr3 \in Roots \cup {NoRoot}
    /\ mode \in {"boot", "user", "halted"}

Switched(q) ==
    /\ ps' \in Table
    /\ SameSpaces(q, ps')
    /\ SchedTypes'
    /\ OneRunner'
    /\ mode' # "boot"

\* r differs from q only in slot i, where the address space is the same.
Touches(q, r, i) ==
    /\ r \in Table
    /\ \A s \in Slots : s # i => r[s] = q[s]
    /\ r[i].pml4 = q[i].pml4
    /\ r[i].pml4_owned = q[i].pml4_owned
    /\ r[i].pml4_pending_free = q[i].pml4_pending_free

\* r is q with some BLOCKED tasks made READY.
Eased(q, r) ==
    /\ r \in Table
    /\ SameSpaces(q, r)
    /\ \A s \in Slots : \/ r[s].state = q[s].state
                        \/ q[s].state = "BLOCKED" /\ r[s].state = "READY"

USE DEF Live

(***************************************************************************)
(* The switcher: each of its operations, applied to a table a handler may  *)
(* hand to it, keeps the types, the address spaces and the single runner.  *)
(***************************************************************************)

\* Writing one slot keeps a table a table.
LEMMA UpdateTable ==
    ASSUME NEW q \in Table, NEW n \in Slots, NEW p \in Proc
    PROVE  [q EXCEPT ![n] = p] \in Table
BY DEF Table

\* A frame captured on kernel entry is a frame.
LEMMA FramesType ==
    ASSUME NEW c \in Calls, NEW x \in RaxValues, NEW fx \in Frames(c, x)
    PROVE  fx \in Frame
BY StackAssumption DEF Frames, Frame

\* pick_next returns a READY slot other than the one to skip.
LEMMA PickReady ==
    ASSUME NEW q, NEW skip, NEW n \in pick_next(q, skip)
    PROVE  n \in Slots /\ n # skip /\ q[n].state = "READY"
BY DEF pick_next, Ready

\* Saving a frame changes only the saved slot, and not its address space.
LEMMA SaveKeeps ==
    ASSUME NEW q \in Table, NEW i \in Slots, NEW fx \in Frame, NEW st \in States
    PROVE  /\ Touches(q, Save(q, i, fx, st), i)
           /\ Save(q, i, fx, st)[i].state = st
<1> DEFINE p == [q[i] EXCEPT !.frame = fx, !.frame_valid = TRUE, !.state = st, !.fresh = TRUE]
<1>1. q[i] \in Proc
  BY DEF Table
<1>2. p \in Proc
  BY <1>1 DEF Proc
<1>3. Save(q, i, fx, st) = [q EXCEPT ![i] = p]
  BY DEF Save, Table
<1>4. /\ p.state = st
      /\ p.pml4 = q[i].pml4
      /\ p.pml4_owned = q[i].pml4_owned
      /\ p.pml4_pending_free = q[i].pml4_pending_free
  BY <1>1 DEF Proc
<1> HIDE DEF p
<1> QED
  BY <1>2, <1>3, <1>4, UpdateTable DEF Table, Touches

\* Changing only the scheduling fields of one slot keeps its address space.
LEMMA SetState ==
    ASSUME NEW q \in Table, NEW n \in Slots, NEW st \in States, NEW r,
           r = [q EXCEPT ![n].state = st]
    PROVE  Touches(q, r, n) /\ r[n].state = st
<1> DEFINE p == [q[n] EXCEPT !.state = st]
<1>1. q[n] \in Proc
  BY DEF Table
<1>2. p \in Proc
  BY <1>1 DEF Proc
<1>3. r = [q EXCEPT ![n] = p]
  BY DEF Table
<1>4. /\ p.state = st
      /\ p.pml4 = q[n].pml4
      /\ p.pml4_owned = q[n].pml4_owned
      /\ p.pml4_pending_free = q[n].pml4_pending_free
  BY <1>1 DEF Proc
<1> HIDE DEF p
<1> QED
  BY <1>2, <1>3, <1>4, UpdateTable DEF Table, Touches

\* The same for the deadline of a sleep.
LEMMA SetDeadline ==
    ASSUME NEW q \in Table, NEW n \in Slots, NEW d \in Nat, NEW r,
           r = [q EXCEPT ![n].wake_deadline = d]
    PROVE  Touches(q, r, n) /\ r[n].state = q[n].state
<1> DEFINE p == [q[n] EXCEPT !.wake_deadline = d]
<1>1. q[n] \in Proc
  BY DEF Table
<1>2. p \in Proc
  BY <1>1 DEF Proc
<1>3. r = [q EXCEPT ![n] = p]
  BY DEF Table
<1>4. /\ p.state = q[n].state
      /\ p.pml4 = q[n].pml4
      /\ p.pml4_owned = q[n].pml4_owned
      /\ p.pml4_pending_free = q[n].pml4_pending_free
  BY <1>1 DEF Proc
<1> HIDE DEF p
<1> QED
  BY <1>2, <1>3, <1>4, UpdateTable DEF Table, Touches

\* Resume enters n in n's own address space.
LEMMA ResumeSwitches ==
    ASSUME NEW q \in Table, NEW n \in Slots, SchedTypes, rr_cursor' \in Slots,
           q[n].state # "EMPTY",
           \A s \in Slots : q[s].state = "RUNNING" => s = n,
           mode' = "user",
           Resume(q, n)
    PROVE  Switched(q)
<1>0. q[n] \in Proc
  BY DEF Table
<1>a. [q[n] EXCEPT !.state = "RUNNING", !.fresh = FALSE] \in Proc
  BY <1>0 DEF Proc, States
<1>b. ps' = [q EXCEPT ![n] = [q[n] EXCEPT !.state = "RUNNING", !.fresh = FALSE]]
  BY DEF Resume, Table
<1>1. ps' \in Table
  BY <1>a, <1>b DEF Table
<1>2. \A s \in Slots : s # n => ps'[s] = q[s]
  BY DEF Resume, Table
<1>3. /\ ps'[n].state = "RUNNING"
      /\ ps'[n].pml4 = q[n].pml4
      /\ ps'[n].pml4_owned = q[n].pml4_owned
      /\ ps'[n].pml4_pending_free = q[n].pml4_pending_free
  BY DEF Resume, Table, Proc
<1>4. SameSpaces(q, ps')
  BY <1>2, <1>3 DEF SameSpaces
<1>5. q[n].pml4 \in Roots \cup {NoRoot}
  BY DEF Table, Proc
<1>6. SchedTypes'
  BY <1>5 DEF SchedTypes, Resume
<1>7. OneRunner'
  BY <1>2, <1>3 DEF OneRunner, Resume
<1> QED
  BY <1>1, <1>4, <1>6, <1>7 DEF Switched

\* SameSpaces is an equivalence as far as it is needed.
LEMMA SameSpacesTrans ==
    ASSUME NEW q, NEW r, NEW t, SameSpaces(q, r), SameSpaces(r, t)
    PROVE  SameSpaces(q, t)
BY DEF SameSpaces

\* When nothing is switched the running task goes on.
LEMMA NoSwitchKeeps ==
    ASSUME NEW q, Schedulable(q), SchedTypes, mode = "user", NoSwitch(q)
    PROVE  Switched(q)
<1>1. CASE Ready(q, current) = {} /\ ps' = q /\ rr_cursor' = rr_cursor
  <2>1. SameSpaces(q, ps')
    BY <1>1 DEF SameSpaces
  <2> QED
    BY <1>1, <2>1 DEF Schedulable, SchedTypes, NoSwitch, Switched, OneRunner
<1>2. CASE \E n \in pick_next(q, current) :
              /\ ~isolation_ok(q[n])
              /\ rr_cursor' = n
              /\ ps' = [q EXCEPT ![n].state = "TERMINATED"]
  <2>1. PICK n \in pick_next(q, current) :
              rr_cursor' = n /\ ps' = [q EXCEPT ![n].state = "TERMINATED"]
    BY <1>2
  <2>2. n \in Slots /\ n # current /\ q[n].state = "READY"
    BY PickReady
  <2>3. q \in Table
    BY DEF Schedulable
  <2>4. Touches(q, ps', n) /\ ps'[n].state = "TERMINATED"
    <3>1. "TERMINATED" \in States
      BY DEF States
    <3> QED
      BY <2>1, <2>2, <2>3, <3>1, SetState
  <2>5. SameSpaces(q, ps')
    BY <2>2, <2>4 DEF SameSpaces, Touches
  <2> QED
    BY <2>1, <2>2, <2>4, <2>5 DEF Touches, Schedulable, SchedTypes, NoSwitch, Switched, OneRunner
<1> QED
  BY <1>1, <1>2 DEF NoSwitch

\* Touching a live slot without emptying it keeps the address spaces.
LEMMA TouchSame ==
    ASSUME NEW q, NEW r, NEW i \in Slots, Touches(q, r, i),
           q[i].state # "EMPTY", r[i].state # "EMPTY"
    PROVE  SameSpaces(q, r)
BY DEF Touches, SameSpaces

\* The tail of every switch: from a table that differs from q only in
\* scheduling fields, with nobody but n RUNNING, n is entered.
LEMMA EnterNext ==
    ASSUME NEW q, NEW r \in Table, NEW n \in Slots, SchedTypes, mode' = "user",
           SameSpaces(q, r), rr_cursor' \in Slots, r[n].state # "EMPTY",
           \A s \in Slots : r[s].state = "RUNNING" => s = n,
           Resume(r, n)
    PROVE  Switched(q)
<1>1. Switched(r)
  BY ResumeSwitches
<1>2. SameSpaces(q, ps')
  BY <1>1, SameSpacesTrans DEF Switched
<1> QED
  BY <1>1, <1>2 DEF Switched

\* switch_to, the way on_timer and yield_from_syscall call it.
LEMMA SwitchAwaySwitches ==
    ASSUME NEW q, NEW fx \in Frame, Schedulable(q), SchedTypes, mode = "user",
           SwitchAway(q, fx)
    PROVE  Switched(q)
<1>1. CASE NoSwitch(q)
  BY <1>1, NoSwitchKeeps
<1>2. CASE \E n \in pick_next(q, current) :
              /\ isolation_ok(q[n])
              /\ rr_cursor' = n
              /\ switch_to(q, fx, n)
              /\ mode' = mode
  <2>1. PICK n \in pick_next(q, current) :
              rr_cursor' = n /\ switch_to(q, fx, n) /\ mode' = mode
    BY <1>2
  <2>2. n \in Slots /\ n # current /\ q[n].state = "READY"
    BY PickReady
  <2>3. q \in Table /\ current \in Slots /\ q[current].state # "EMPTY"
    BY DEF Schedulable
  <2> DEFINE left == IF q[current].state = "RUNNING" THEN Save(q, current, fx, "READY") ELSE q
             r == [left EXCEPT ![n].wake_deadline = 0]
  <2>4. /\ left \in Table
        /\ SameSpaces(q, left)
        /\ left[n].state = "READY"
        /\ \A s \in Slots : left[s].state # "RUNNING"
    <3>1. CASE q[current].state = "RUNNING"
      <4>1. "READY" \in States
        BY DEF States
      <4>2. /\ Touches(q, left, current)
            /\ left[current].state = "READY"
        BY <2>3, <3>1, <4>1, SaveKeeps
      <4> HIDE DEF left
      <4>3. SameSpaces(q, left)
        BY <2>3, <4>2, TouchSame
      <4> QED
        BY <2>2, <4>2, <4>3 DEF Touches, Schedulable
    <3>2. CASE q[current].state # "RUNNING"
      <4>1. left = q
        BY <3>2
      <4>2. SameSpaces(q, q)
        BY DEF SameSpaces
      <4> QED
        BY <2>2, <2>3, <3>2, <4>1, <4>2 DEF Schedulable
    <3> QED
      BY <3>1, <3>2
  <2>5. Resume(r, n)
    BY <2>1 DEF switch_to
  <2> HIDE DEF left
  <2>6. Touches(left, r, n) /\ r[n].state = left[n].state
    BY <2>2, <2>4, SetDeadline
  <2> HIDE DEF r
  <2>7. SameSpaces(left, r)
    BY <2>2, <2>4, <2>6, TouchSame
  <2>8. SameSpaces(q, r)
    BY <2>4, <2>7, SameSpacesTrans
  <2>9. r \in Table /\ \A s \in Slots : r[s].state = "RUNNING" => s = n
    BY <2>4, <2>6 DEF Touches
  <2> QED
    BY <2>1, <2>2, <2>4, <2>5, <2>6, <2>8, <2>9, EnterNext
<1> QED
  BY <1>1, <1>2 DEF SwitchAway

\* Parking the caller leaves nobody RUNNING until the next task is entered.
LEMMA ParkedTable ==
    ASSUME NEW q, NEW fx \in Frame, NEW n \in Slots, Schedulable(q),
           n # current, q[n].state = "READY"
    PROVE  LET r == Save(q, current, fx, "BLOCKED")
           IN  /\ r \in Table
               /\ SameSpaces(q, r)
               /\ r[n].state = "READY"
               /\ r[current].state = "BLOCKED"
               /\ \A s \in Slots : r[s].state # "RUNNING"
<1>1. "BLOCKED" \in States
  BY DEF States
<1>2. q \in Table /\ current \in Slots /\ q[current].state # "EMPTY"
  BY DEF Schedulable
<1> DEFINE r == Save(q, current, fx, "BLOCKED")
<1>3. Touches(q, r, current) /\ r[current].state = "BLOCKED"
  BY <1>1, <1>2, SaveKeeps
<1> HIDE DEF r
<1>4. SameSpaces(q, r)
  BY <1>2, <1>3, TouchSame
<1>5. /\ r \in Table
      /\ r[n].state = "READY"
      /\ \A s \in Slots : r[s].state # "RUNNING"
  BY <1>3 DEF Touches, Schedulable
<1> QED
  BY <1>3, <1>4, <1>5 DEF r

\* block_from_syscall parks the caller and enters the next task.
LEMMA BlockSwitches ==
    ASSUME NEW q, NEW fx \in Frame, Schedulable(q), SchedTypes, mode = "user",
           block_from_syscall(q, fx)
    PROVE  Switched(q)
<1>1. PICK n \in pick_next(q, current) : Park(Save(q, current, fx, "BLOCKED"), n)
  BY DEF block_from_syscall
<1>2. n \in Slots /\ n # current /\ q[n].state = "READY"
  BY PickReady
<1> DEFINE r == Save(q, current, fx, "BLOCKED")
<1>3. /\ r \in Table
      /\ SameSpaces(q, r)
      /\ r[n].state = "READY"
      /\ \A s \in Slots : r[s].state # "RUNNING"
  BY <1>2, ParkedTable
<1>4. rr_cursor' = n /\ mode' = mode /\ Resume(r, n)
  BY <1>1 DEF Park
<1> HIDE DEF r
<1> QED
  BY <1>2, <1>3, <1>4, EnterNext

\* block_until_from_syscall does the same and sets the caller's deadline.
LEMMA BlockUntilSwitches ==
    ASSUME NEW q, NEW fx \in Frame, NEW d \in Nat, Schedulable(q), SchedTypes,
           mode = "user", block_until_from_syscall(q, fx, d)
    PROVE  Switched(q)
<1> DEFINE b == Save(q, current, fx, "BLOCKED")
           c == [b EXCEPT ![current].wake_deadline = d]
           r(n) == [c EXCEPT ![n].wake_deadline = 0]
<1>1. PICK n \in pick_next(q, current) :
          Park([b EXCEPT ![current].wake_deadline = d, ![n].wake_deadline = 0], n)
  BY DEF block_until_from_syscall
<1>2. n \in Slots /\ n # current /\ q[n].state = "READY"
  BY PickReady
<1>3. current \in Slots
  BY DEF Schedulable
<1>4. /\ b \in Table
      /\ SameSpaces(q, b)
      /\ b[n].state = "READY"
      /\ b[current].state = "BLOCKED"
      /\ \A s \in Slots : b[s].state # "RUNNING"
  BY <1>2, ParkedTable
<1>5. rr_cursor' = n /\ mode' = mode /\ Resume(r(n), n)
  BY <1>1 DEF Park
<1> HIDE DEF b
<1>6. Touches(b, c, current) /\ c[current].state = b[current].state
  BY <1>3, <1>4, SetDeadline
<1> HIDE DEF c
<1>7. SameSpaces(b, c)
  BY <1>3, <1>4, <1>6, TouchSame
<1>8. c \in Table /\ c[n].state = "READY" /\ \A s \in Slots : c[s].state # "RUNNING"
  BY <1>2, <1>4, <1>6 DEF Touches
<1>9. Touches(c, r(n), n) /\ r(n)[n].state = c[n].state
  BY <1>2, <1>8, SetDeadline
<1> HIDE DEF r
<1>10. SameSpaces(c, r(n))
  BY <1>2, <1>8, <1>9, TouchSame
<1>11. SameSpaces(q, r(n))
  BY <1>4, <1>7, <1>10, SameSpacesTrans
<1>12. r(n) \in Table /\ r(n)[n].state = "READY" /\ \A s \in Slots : r(n)[s].state # "RUNNING"
  BY <1>8, <1>9 DEF Touches
<1> QED
  BY <1>2, <1>5, <1>11, <1>12, EnterNext

\* Leaving ring 3 for good: only slot 0 may change, from RUNNING to TERMINATED.
LEMMA ReturnSwitches ==
    ASSUME NEW q, NEW r \in Table, SameSpaces(q, r), SchedTypes, rr_cursor' \in Slots,
           ReturnToKernel(r)
    PROVE  Switched(q)
<1>0. 0 \in Slots
  BY SlotAssumption DEF Slots
<1> DEFINE st == IF r[0].state = "RUNNING" THEN "TERMINATED" ELSE r[0].state
<1>1. r[0].state \in States
  BY <1>0 DEF Table, Proc
<1>2. st \in States /\ (r[0].state # "EMPTY" <=> st # "EMPTY")
  BY <1>1 DEF States
<1>3. ps' = [r EXCEPT ![0].state = st]
  BY <1>0 DEF ReturnToKernel, Table
<1> HIDE DEF st
<1>4. Touches(r, ps', 0) /\ ps'[0].state = st
  <2> DEFINE z == 0
  <2>1. z \in Slots /\ ps' = [r EXCEPT ![z].state = st]
    BY <1>0, <1>3
  <2> HIDE DEF z
  <2>2. st \in States
    BY <1>2
  <2>3. \A t \in States : \A u : u = [r EXCEPT ![z].state = t] => Touches(r, u, z) /\ u[z].state = t
    BY <2>1, SetState
  <2>4. Touches(r, ps', z) /\ ps'[z].state = st
    BY <2>1, <2>2, <2>3
  <2> QED
    BY <2>4 DEF z
<1>5. SameSpaces(r, ps')
  <2>1. CASE r[0].state # "EMPTY"
    BY <1>0, <1>2, <1>4, <2>1, TouchSame
  <2>2. CASE r[0].state = "EMPTY"
    <3>1. st = r[0].state
      BY <2>2 DEF st
    <3>2. ps' = r
      BY <1>0, <1>3, <3>1 DEF Table, Proc
    <3> QED
      BY <3>2 DEF SameSpaces
  <2> QED
    BY <2>1, <2>2
<1>6. SameSpaces(q, ps')
  BY <1>5, SameSpacesTrans
<1> QED
  BY <1>4, <1>6 DEF Switched, Touches, SchedTypes, OneRunner, ReturnToKernel

\* Entering the task an exit chose, or giving up when it is not resumable.
LEMMA ExitToSwitches ==
    ASSUME NEW q, NEW r \in Table, NEW n \in Slots, SchedTypes, mode = "user",
           SameSpaces(q, r), rr_cursor' \in Slots, r[n].state # "EMPTY",
           \A s \in Slots : r[s].state # "RUNNING",
           ExitTo(r, n)
    PROVE  Switched(q)
<1>1. CASE Resume(r, n) /\ mode' = mode
  BY <1>1, EnterNext
<1>2. CASE ReturnToKernel([r EXCEPT ![n].state = "TERMINATED"])
  <2> DEFINE t == [r EXCEPT ![n].state = "TERMINATED"]
  <2>1. "TERMINATED" \in States
    BY DEF States
  <2>2. t = [r EXCEPT ![n].state = "TERMINATED"]
    OBVIOUS
  <2>3. ReturnToKernel(t)
    BY <1>2
  <2> HIDE DEF t
  <2>6. Touches(r, t, n) /\ t[n].state = "TERMINATED"
    <3>1. \A st \in States : \A u :
             u = [r EXCEPT ![n].state = st] => Touches(r, u, n) /\ u[n].state = st
      BY SetState
    <3> QED
      BY <2>1, <2>2, <3>1
  <2>4. SameSpaces(r, t)
    BY <2>6, TouchSame
  <2>5. SameSpaces(q, t) /\ t \in Table
    BY <2>4, <2>6, SameSpacesTrans DEF Touches
  <2> QED
    BY <2>3, <2>5, ReturnSwitches
<1> QED
  BY <1>1, <1>2 DEF ExitTo

\* on_exit enters a READY task, else the earliest sleeper, else leaves ring 3.
LEMMA ExitSwitches ==
    ASSUME NEW q, Schedulable(q), SchedTypes, mode = "user", on_exit(q)
    PROVE  Switched(q)
<1> DEFINE dead == [i \in Slots |-> IF i = current
                       THEN [q[i] EXCEPT !.state = "TERMINATED", !.frame_valid = FALSE]
                       ELSE q[i]]
           woken(n) == [i \in Slots |-> IF i = n
                          THEN [dead[i] EXCEPT !.state = "READY", !.wake_deadline = 0]
                          ELSE dead[i]]
<1>0. q \in Table /\ current \in Slots /\ q[current].state # "EMPTY"
  BY DEF Schedulable
<1>1. q[current] \in Proc
  BY <1>0 DEF Table
<1>2. /\ dead[current] \in Proc
      /\ dead[current].state = "TERMINATED"
      /\ dead[current].pml4 = q[current].pml4
      /\ dead[current].pml4_owned = q[current].pml4_owned
      /\ dead[current].pml4_pending_free = q[current].pml4_pending_free
  BY <1>0, <1>1 DEF Proc, States
<1>3. \A s \in Slots : s # current => dead[s] = q[s]
  OBVIOUS
<1>4. dead = [i \in Slots |-> dead[i]]
  OBVIOUS
<1>5. \/ \E n \in pick_next(dead, current) : rr_cursor' = n /\ ExitTo(dead, n)
      \/ \E n \in EarliestSleeper(dead) : rr_cursor' = rr_cursor /\ ExitTo(woken(n), n)
      \/ rr_cursor' = rr_cursor /\ ReturnToKernel(dead)
  BY DEF on_exit
<1> HIDE DEF dead
<1>6. dead \in Table
  <2>1. \A s \in Slots : dead[s] \in Proc
    BY <1>0, <1>2, <1>3 DEF Table
  <2> QED
    BY <2>1, <1>4 DEF Table
<1>7. Touches(q, dead, current)
  BY <1>2, <1>3, <1>6 DEF Touches
<1>8. SameSpaces(q, dead)
  BY <1>0, <1>2, <1>7, TouchSame
<1>9. \A s \in Slots : dead[s].state # "RUNNING"
  BY <1>2, <1>3 DEF Schedulable
<1>10. CASE \E n \in pick_next(dead, current) : rr_cursor' = n /\ ExitTo(dead, n)
  <2>1. PICK n \in pick_next(dead, current) : rr_cursor' = n /\ ExitTo(dead, n)
    BY <1>10
  <2>2. n \in Slots /\ dead[n].state = "READY"
    BY PickReady
  <2> QED
    BY <1>6, <1>8, <1>9, <2>1, <2>2, ExitToSwitches
<1>11. CASE \E n \in EarliestSleeper(dead) : rr_cursor' = rr_cursor /\ ExitTo(woken(n), n)
  <2>1. PICK n \in EarliestSleeper(dead) : rr_cursor' = rr_cursor /\ ExitTo(woken(n), n)
    BY <1>11
  <2>2. n \in Slots /\ dead[n].state = "BLOCKED"
    BY DEF EarliestSleeper, Sleepers
  <2>3. dead[n] \in Proc
    BY <1>6, <2>2 DEF Table
  <2>4. /\ woken(n)[n] \in Proc
        /\ woken(n)[n].state = "READY"
        /\ woken(n)[n].pml4 = dead[n].pml4
        /\ woken(n)[n].pml4_owned = dead[n].pml4_owned
        /\ woken(n)[n].pml4_pending_free = dead[n].pml4_pending_free
    BY <2>2, <2>3 DEF Proc, States
  <2>5. \A s \in Slots : s # n => woken(n)[s] = dead[s]
    OBVIOUS
  <2>6. woken(n) = [i \in Slots |-> woken(n)[i]]
    OBVIOUS
  <2> HIDE DEF woken
  <2>7. \A s \in Slots : woken(n)[s] \in Proc
    BY <1>6, <2>4, <2>5 DEF Table
  <2>8. woken(n) \in Table
    BY <2>6, <2>7 DEF Table
  <2>9. Touches(dead, woken(n), n)
    BY <2>4, <2>5, <2>8 DEF Touches
  <2>10. SameSpaces(dead, woken(n))
    BY <2>2, <2>4, <2>9, TouchSame
  <2>11. SameSpaces(q, woken(n))
    BY <1>8, <2>10, SameSpacesTrans
  <2>12. \A s \in Slots : woken(n)[s].state # "RUNNING"
    BY <1>9, <2>4, <2>5
  <2>13. rr_cursor' \in Slots
    BY <2>1 DEF SchedTypes
  <2> QED
    BY <2>1, <2>2, <2>4, <2>8, <2>11, <2>12, <2>13, ExitToSwitches
<1>12. CASE rr_cursor' = rr_cursor /\ ReturnToKernel(dead)
  <2>1. rr_cursor' \in Slots
    BY <1>12 DEF SchedTypes
  <2> QED
    BY <1>6, <1>8, <1>12, <2>1, ReturnSwitches
<1> QED
  BY <1>5, <1>10, <1>11, <1>12

\* Waking tasks leaves a table that may be handed to the switcher.
LEMMA EasedSchedulable ==
    ASSUME NEW q, NEW r, Schedulable(q), Eased(q, r)
    PROVE  Schedulable(r)
BY DEF Schedulable, Eased, SameSpaces

\* Waking some tasks and then some more is waking tasks.
LEMMA EasedTrans ==
    ASSUME NEW q, NEW r, NEW t, Eased(q, r), Eased(r, t)
    PROVE  Eased(q, t)
<1>1. SameSpaces(q, t)
  BY SameSpacesTrans DEF Eased
<1> QED
  BY <1>1 DEF Eased

\* A slot p that is made READY, possibly with a new frame and wait target.
Woke(p, r) ==
    /\ r \in Proc
    /\ p.state = "BLOCKED"
    /\ r.state = "READY"
    /\ r.pml4 = p.pml4
    /\ r.pml4_owned = p.pml4_owned
    /\ r.pml4_pending_free = p.pml4_pending_free

\* The plain wake-up: BLOCKED becomes READY.
LEMMA ReadyWoke ==
    ASSUME NEW p \in Proc, p.state = "BLOCKED"
    PROVE  Woke(p, [p EXCEPT !.state = "READY"])
BY DEF Woke, Proc, States

\* The wake-up of a parent that waits in wait4: its rax is filled in as well.
LEMMA AnswerWoke ==
    ASSUME NEW p \in Proc, p.state = "BLOCKED"
    PROVE  Woke(p, [p EXCEPT !.state = "READY", !.wait_target_pid = 0, !.frame.rax = "pid"])
<1> DEFINE fx == [p.frame EXCEPT !.rax = "pid"]
           r == [p EXCEPT !.state = "READY", !.wait_target_pid = 0, !.frame = fx]
<1>1. fx \in Frame
  BY DEF Proc, Frame, RaxValues
<1>2. [p EXCEPT !.state = "READY", !.wait_target_pid = 0, !.frame.rax = "pid"] = r
  BY DEF Proc
<1> HIDE DEF fx
<1>3. Woke(p, r)
  BY <1>1 DEF Woke, Proc, States
<1> QED
  BY <1>2, <1>3

\* A table in which every changed slot was woken is an eased table.
LEMMA WokeEases ==
    ASSUME NEW q \in Table, NEW r, r = [s \in Slots |-> r[s]],
           \A s \in Slots : r[s] = q[s] \/ Woke(q[s], r[s])
    PROVE  Eased(q, r)
<1>1. \A s \in Slots : r[s] \in Proc
  BY DEF Table, Woke
<1>2. r \in Table
  BY <1>1 DEF Table
<1>3. SameSpaces(q, r)
  BY DEF SameSpaces, Woke
<1> QED
  BY <1>2, <1>3 DEF Eased, Woke

\* The wake-ups of wake_futex and of a vfork parent.
LEMMA WakeEases ==
    ASSUME NEW q \in Table, NEW S
    PROVE  Eased(q, Wake(q, S))
<1> DEFINE r == Wake(q, S)
<1>1. ASSUME NEW s \in Slots
      PROVE  r[s] = q[s] \/ Woke(q[s], r[s])
  <2>1. q[s] \in Proc
    BY DEF Table
  <2>2. \/ r[s] = q[s]
        \/ q[s].state = "BLOCKED" /\ r[s] = [q[s] EXCEPT !.state = "READY"]
    BY DEF Wake
  <2> QED
    BY <2>1, <2>2, ReadyWoke
<1>2. r = [s \in Slots |-> r[s]]
  BY DEF Wake
<1> QED
  BY <1>1, <1>2, WokeEases

\* The wake-ups of wake_timed_tasks.
LEMMA TimedEases ==
    ASSUME NEW q \in Table, NEW t
    PROVE  Eased(q, wake_timed_tasks(q, t))
<1> DEFINE r == wake_timed_tasks(q, t)
<1>1. ASSUME NEW s \in Slots
      PROVE  r[s] = q[s] \/ Woke(q[s], r[s])
  <2>1. q[s] \in Proc
    BY DEF Table
  <2>2. \/ r[s] = q[s]
        \/ q[s].state = "BLOCKED" /\ r[s] = [q[s] EXCEPT !.state = "READY"]
    BY DEF wake_timed_tasks
  <2> QED
    BY <2>1, <2>2, ReadyWoke
<1>2. r = [s \in Slots |-> r[s]]
  BY DEF wake_timed_tasks
<1> QED
  BY <1>1, <1>2, WokeEases

\* The wake-up of the parent by an exit.
LEMMA AnswerEases ==
    ASSUME NEW q \in Table
    PROVE  Eased(q, AnswerParent(q))
<1> DEFINE r == AnswerParent(q)
<1>1. ASSUME NEW s \in Slots
      PROVE  r[s] = q[s] \/ Woke(q[s], r[s])
  <2>1. q[s] \in Proc
    BY DEF Table
  <2>2. \/ r[s] = q[s]
        \/ /\ q[s].state = "BLOCKED"
           /\ r[s] = [q[s] EXCEPT !.state = "READY", !.wait_target_pid = 0, !.frame.rax = "pid"]
    BY DEF AnswerParent
  <2> QED
    BY <2>1, <2>2, AnswerWoke
<1>2. r = [s \in Slots |-> r[s]]
  BY DEF AnswerParent
<1> QED
  BY <1>1, <1>2, WokeEases

\* The end of a vfork child's borrowing wakes its parent and nothing else.
LEMMA VforkDoneEases ==
    ASSUME NEW q \in Table, current \in Slots, q[current].state # "EMPTY"
    PROVE  Eased(q, VforkDone(q))
<1>1. CASE ~q[current].vfork_child
  BY <1>1 DEF VforkDone, Eased, SameSpaces
<1>2. CASE q[current].vfork_child
  <2> DEFINE w == Wake(q, get(q, q[current].vfork_parent_pid))
             p == [w[current] EXCEPT !.vfork_child = FALSE, !.vfork_parent_pid = 0]
             r == [w EXCEPT ![current] = p]
  <2>1. Eased(q, w)
    BY WakeEases
  <2>2. VforkDone(q) = [w EXCEPT ![current].vfork_child = FALSE, ![current].vfork_parent_pid = 0]
    BY <1>2 DEF VforkDone
  <2> HIDE DEF w
  <2>3. w \in Table /\ w[current] \in Proc
    BY <2>1 DEF Eased, Table
  <2>4. /\ p \in Proc
        /\ p.state = w[current].state
        /\ p.pml4 = w[current].pml4
        /\ p.pml4_owned = w[current].pml4_owned
        /\ p.pml4_pending_free = w[current].pml4_pending_free
    BY <2>3 DEF Proc
  <2>5. VforkDone(q) = r
    BY <2>2, <2>3 DEF Table
  <2> HIDE DEF p
  <2>6. Touches(w, r, current) /\ r[current].state = w[current].state
    BY <2>3, <2>4, UpdateTable DEF Touches, Table
  <2> HIDE DEF r
  <2>7. w[current].state # "EMPTY"
    BY <2>1 DEF Eased
  <2>8. SameSpaces(w, r)
    BY <2>6, <2>7, TouchSame
  <2>9. Eased(w, r)
    BY <2>6, <2>8 DEF Eased, Touches
  <2> QED
    BY <2>1, <2>5, <2>9, EasedTrans
<1> QED
  BY <1>1, <1>2
=============================================================================
