---------------------------- MODULE ProcessProofs ----------------------------
(***************************************************************************)
(* The safety of process management, for any number of slots, address      *)
(* spaces and pids: one runner on its own page tables, and no address      *)
(* space destroyed while a process or the CPU still uses it.               *)
(***************************************************************************)
EXTENDS SwitchProofs, FiniteSetTheorems

USE DEF Live

(***************************************************************************)
(* The inductive invariant.  SpaceInv relates a table q to the set sp of   *)
(* allocated roots.  It is stated of any table because a handler edits the *)
(* table in several stages before the switcher stores it.                  *)
(***************************************************************************)

\* Slot s would free root: it is its pending root, or the root it owns.
Frees(q, s, root) ==
    \/ q[s].pml4_pending_free = root
    \/ q[s].pml4_owned /\ q[s].pml4 = root

PmlAllocated(q, sp)     == \A s \in Slots : Live(q[s]) => q[s].pml4 \in sp
PendingAllocated(q, sp) ==
    \A s \in Slots : q[s].pml4_pending_free # NoRoot => q[s].pml4_pending_free \in sp
FreedOnce(q) ==
    \A s, t \in Slots, root \in Roots : Frees(q, s, root) /\ Frees(q, t, root) => s = t
PendingReplaced(q) == \A s \in Slots : Live(q[s]) => q[s].pml4_pending_free # q[s].pml4
EmptyBlank(q)      == \A s \in Slots : ~Live(q[s]) => q[s] = NoProcess

SpaceInv(q, sp) ==
    /\ sp \subseteq Roots
    /\ PmlAllocated(q, sp)
    /\ PendingAllocated(q, sp)
    /\ FreedOnce(q)
    /\ PendingReplaced(q)
    /\ EmptyBlank(q)

OtherTypes ==
    /\ now \in Nat
    /\ next_pid \in Nat \ {0}
    /\ futex_waiters \in [Waiters -> FutexWaiter]

IInv ==
    /\ ps \in Table
    /\ SchedTypes
    /\ OtherTypes
    /\ OneRunner
    /\ SpaceInv(ps, spaces)
    /\ mode = "boot" => \A s \in Slots : ps[s] = NoProcess

\* The blank slot is a process record.
LEMMA NoProcessType == NoProcess \in Proc
BY RootAssumption, AddrAssumption
   DEF NoProcess, Proc, States, NoFrame, Frame, Calls, RaxValues, NoRoot

\* The invariant implies the properties that the runs check.
LEMMA InvImplies ==
    ASSUME IInv
    PROVE  TypeOK /\ OneRunner /\ NoUseAfterFree /\ SoleOwner
<1>1. TypeOK
  BY DEF IInv, TypeOK, Table, SchedTypes, OtherTypes, SpaceInv
<1>2. OneRunner
  BY DEF IInv
<1>3. NoUseAfterFree
  <2>1. ASSUME mode = "user"
        PROVE  cr3 \in spaces
    <3>1. current \in Slots /\ ps[current].state # "EMPTY" /\ cr3 = ps[current].pml4
      BY <2>1 DEF IInv, OneRunner
    <3> QED
      BY <3>1 DEF IInv, SpaceInv, PmlAllocated
  <2> QED
    BY <2>1 DEF IInv, SpaceInv, NoUseAfterFree, PmlAllocated, PendingAllocated
<1>4. SoleOwner
  <2>1. ASSUME NEW s \in Slots, NEW t \in Slots, s # t, NEW root \in WillFree(s) \cap WillFree(t)
        PROVE  root = NoRoot
    <3>1. Frees(ps, s, root) /\ Frees(ps, t, root)
      BY <2>1 DEF Frees, WillFree
    <3>2. root \in Roots \cup {NoRoot}
      BY <3>1 DEF Frees, IInv, Table, Proc
    <3> QED
      BY <2>1, <3>1, <3>2 DEF IInv, SpaceInv, FreedOnce
  <2>2. \A s \in Slots : Live(ps[s]) => ps[s].pml4_pending_free # ps[s].pml4
    BY DEF IInv, SpaceInv, PendingReplaced
  <2> QED
    BY <2>1, <2>2 DEF SoleOwner
<1> QED
  BY <1>1, <1>2, <1>3, <1>4

\* The switcher changes no field that SpaceInv looks at.
LEMMA SameSpacesKeeps ==
    ASSUME NEW q, NEW r, NEW sp, SameSpaces(q, r), SpaceInv(q, sp)
    PROVE  SpaceInv(r, sp)
<1>1. \A s \in Slots : \A root : Frees(r, s, root) <=> Frees(q, s, root)
  BY DEF SameSpaces, Frees
<1>2. FreedOnce(r)
  BY <1>1 DEF SpaceInv, FreedOnce
<1>3. PmlAllocated(r, sp) /\ PendingAllocated(r, sp)
  BY DEF SameSpaces, SpaceInv, PmlAllocated, PendingAllocated
<1>4. PendingReplaced(r) /\ EmptyBlank(r)
  BY DEF SameSpaces, SpaceInv, PendingReplaced, EmptyBlank
<1> QED
  BY <1>2, <1>3, <1>4 DEF SpaceInv

\* Allocating a root that nobody uses (a failed fork leaks it) is harmless.
LEMMA MoreSpaces ==
    ASSUME NEW q, NEW sp, NEW sp2, SpaceInv(q, sp), sp \subseteq sp2, sp2 \subseteq Roots
    PROVE  SpaceInv(q, sp2)
BY DEF SpaceInv, PmlAllocated, PendingAllocated

\* A handler that ends in the switcher with a sound table ends soundly.
LEMMA StepKeeps ==
    ASSUME NEW q, Switched(q), SpaceInv(q, spaces'), OtherTypes'
    PROVE  IInv'
<1>1. SpaceInv(ps', spaces')
  BY SameSpacesKeeps DEF Switched
<1> QED
  BY <1>1 DEF IInv, Switched

\* A handler that returns to its caller is a switch that does not happen.
LEMMA ContinueSwitches ==
    ASSUME NEW q, Schedulable(q), SchedTypes, mode = "user", Continue(q)
    PROVE  Switched(q)
<1>1. SameSpaces(q, q)
  BY DEF SameSpaces
<1> QED
  BY <1>1 DEF Continue, Schedulable, SchedTypes, Switched, OneRunner

(***************************************************************************)
(* The stages of the handlers.                                             *)
(***************************************************************************)

\* The dispatcher's reclamation: the pending root of the current task may be
\* freed, because nobody runs in it and nobody else will free it.
LEMMA EnteredSound ==
    ASSUME IInv, mode = "user"
    PROVE  /\ Schedulable(Entered)
           /\ SpaceInv(Entered, Reclaimed)
           /\ Entered[current].pml4_pending_free = NoRoot
           /\ \A s \in Slots : s # current => Entered[s] = ps[s]
           /\ \A s \in Slots : Entered[s].state = ps[s].state
           /\ \A s \in Slots : Entered[s].pml4 = ps[s].pml4
           /\ \A s \in Slots : Entered[s].pml4_owned = ps[s].pml4_owned
<1> DEFINE p == [ps[current] EXCEPT !.pml4_pending_free = NoRoot]
           q == Entered
<1>1. /\ ps \in Table
      /\ current \in Slots
      /\ ps[current].state \in {"RUNNING", "READY", "BLOCKED"}
      /\ \A s \in Slots : ps[s].state = "RUNNING" => s = current
      /\ cr3 = ps[current].pml4
  BY DEF IInv, OneRunner
<1>2. ps[current] \in Proc
  BY <1>1 DEF Table
<1>3. p \in Proc
  BY <1>2 DEF Proc
<1>4. q = [ps EXCEPT ![current] = p]
  BY <1>1 DEF Entered, Table
<1>5. /\ p.pml4_pending_free = NoRoot
      /\ p.state = ps[current].state
      /\ p.pml4 = ps[current].pml4
      /\ p.pml4_owned = ps[current].pml4_owned
  BY <1>2 DEF Proc
<1> HIDE DEF p, q
<1>6. q \in Table
  BY <1>1, <1>3, <1>4, UpdateTable
<1>7. /\ q[current] = p
      /\ \A s \in Slots : s # current => q[s] = ps[s]
  BY <1>1, <1>4 DEF Table
<1>8. /\ q[current].pml4_pending_free = NoRoot
      /\ \A s \in Slots : q[s].state = ps[s].state
      /\ \A s \in Slots : q[s].pml4 = ps[s].pml4
      /\ \A s \in Slots : q[s].pml4_owned = ps[s].pml4_owned
  BY <1>5, <1>7
<1>9. Schedulable(q)
  BY <1>1, <1>6, <1>8 DEF Schedulable
<1>10. SpaceInv(q, Reclaimed)
  <2>0. SpaceInv(ps, spaces)
    BY DEF IInv
  <2> DEFINE old == ps[current].pml4_pending_free
  <2>1. \/ Reclaimed = spaces
        \/ /\ Reclaimed = spaces \ {old}
           /\ old # NoRoot
           /\ \A s \in Slots : s # current /\ ps[s].state # "EMPTY" => ps[s].pml4 # old
    BY DEF Reclaimed, pml4_used_elsewhere
  <2>2. Reclaimed \subseteq Roots
    BY <2>0, <2>1 DEF SpaceInv
  <2>3. PmlAllocated(q, Reclaimed)
    <3>1. \A s \in Slots : ps[s].state # "EMPTY" => ps[s].pml4 \in spaces
      BY <2>0 DEF SpaceInv, PmlAllocated
    <3>2. ps[current].pml4 # old
      BY <1>1, <2>0 DEF SpaceInv, PendingReplaced
    <3>3. \A s \in Slots : ps[s].state # "EMPTY" => ps[s].pml4 \in Reclaimed
      BY <2>1, <3>1, <3>2
    <3> QED
      BY <1>8, <3>3 DEF PmlAllocated
  <2>4. \A s \in Slots : \A root : root # NoRoot /\ Frees(q, s, root) => Frees(ps, s, root)
    BY <1>7, <1>8 DEF Frees
  <2>5. PendingAllocated(q, Reclaimed)
    <3>1. SUFFICES ASSUME NEW s \in Slots, q[s].pml4_pending_free # NoRoot
                   PROVE  q[s].pml4_pending_free \in Reclaimed
      BY DEF PendingAllocated
    <3>2. s # current
      BY <1>8, <3>1
    <3>3. q[s].pml4_pending_free = ps[s].pml4_pending_free
      BY <1>7, <3>2
    <3>4. ps[s].pml4_pending_free \in spaces
      BY <2>0, <3>1, <3>3 DEF SpaceInv, PendingAllocated
    <3>5. spaces \subseteq Roots
      BY <2>0 DEF SpaceInv
    <3>6. ps[s].pml4_pending_free # old
      <4>1. Frees(ps, s, ps[s].pml4_pending_free) /\ Frees(ps, current, old)
        BY DEF Frees
      <4> QED
        BY <1>1, <2>0, <3>2, <3>4, <3>5, <4>1 DEF SpaceInv, FreedOnce
    <3> QED
      BY <2>1, <3>3, <3>4, <3>6
  <2>6. FreedOnce(q)
    <3>1. \A root \in Roots : root # NoRoot
      BY RootAssumption
    <3> QED
      BY <2>0, <2>4, <3>1 DEF SpaceInv, FreedOnce
  <2>7. PendingReplaced(q)
    <3>1. ps[current].pml4 # NoRoot
      BY <1>1, <2>0, RootAssumption DEF SpaceInv, PmlAllocated
    <3> QED
      BY <1>7, <1>8, <2>0, <3>1 DEF SpaceInv, PendingReplaced
  <2>8. EmptyBlank(q)
    BY <1>1, <1>7, <1>8, <2>0 DEF SpaceInv, EmptyBlank
  <2> QED
    BY <2>2, <2>3, <2>5, <2>6, <2>7, <2>8 DEF SpaceInv
<1> QED
  BY <1>7, <1>8, <1>9, <1>10 DEF q

\* A new process that owns nothing may be put into an empty slot.
LEMMA AddChild ==
    ASSUME NEW q, NEW sp, NEW sp2, NEW child \in Slots, NEW p \in Proc,
           Schedulable(q), SpaceInv(q, sp), sp \subseteq sp2, sp2 \subseteq Roots,
           q[child].state = "EMPTY", p.state = "READY", p.pml4 \in sp2,
           p.pml4_owned = FALSE, p.pml4_pending_free = NoRoot
    PROVE  LET r == [q EXCEPT ![child] = p]
           IN  /\ Schedulable(r)
               /\ SpaceInv(r, sp2)
               /\ child # current
               /\ r[current] = q[current]
<1> DEFINE r == [q EXCEPT ![child] = p]
<1>0. q \in Table
  BY DEF Schedulable
<1>1. /\ r \in Table
      /\ r[child] = p
      /\ \A s \in Slots : s # child => r[s] = q[s]
  BY <1>0, UpdateTable DEF Table
<1>2. child # current
  BY DEF Schedulable
<1> HIDE DEF r
<1>3. Schedulable(r)
  BY <1>1, <1>2 DEF Schedulable
<1>4. \A root \in Roots : root # NoRoot
  BY RootAssumption
<1>5. \A s \in Slots, root \in Roots : Frees(r, s, root) => Frees(q, s, root)
  BY <1>1, <1>4 DEF Frees
<1>6. FreedOnce(r)
  BY <1>5 DEF SpaceInv, FreedOnce
<1>7. PmlAllocated(r, sp2) /\ PendingAllocated(r, sp2)
  BY <1>1 DEF SpaceInv, PmlAllocated, PendingAllocated
<1>8. PendingReplaced(r) /\ EmptyBlank(r)
  BY <1>1, <1>4 DEF SpaceInv, PendingReplaced, EmptyBlank
<1>9. SpaceInv(r, sp2)
  BY <1>6, <1>7, <1>8 DEF SpaceInv
<1> QED
  BY <1>1, <1>2, <1>3, <1>9 DEF r, Schedulable

\* execve: the new root is owned, and the old one is pending if it was owned.
LEMMA ReplacedSound ==
    ASSUME NEW q, NEW sp, NEW root \in Roots \ sp, Schedulable(q), SpaceInv(q, sp),
           q[current].pml4_pending_free = NoRoot
    PROVE  LET r == Replaced(q, root)
           IN  /\ r \in Table
               /\ SpaceInv(r, sp \cup {root})
               /\ r[current].pml4 = root
               /\ \A s \in Slots : r[s].state = q[s].state
<1> DEFINE r == Replaced(q, root)
           old == IF q[current].pml4_owned /\ q[current].pml4 # NoRoot
                  THEN q[current].pml4 ELSE q[current].pml4_pending_free
           p == [q[current] EXCEPT !.pml4_pending_free = old, !.pml4 = root, !.pml4_owned = TRUE]
<1>1. q \in Table /\ current \in Slots /\ q[current].state # "EMPTY"
  BY DEF Schedulable
<1>2. q[current] \in Proc
  BY <1>1 DEF Table
<1>3. /\ old \in Roots \cup {NoRoot}
      /\ old # NoRoot => q[current].pml4_owned /\ old = q[current].pml4
  BY <1>2 DEF Proc
<1>4. r = [q EXCEPT ![current] = p]
  BY <1>1 DEF Replaced, Table, Proc
<1> HIDE DEF old
<1>5. /\ p \in Proc
      /\ p.state = q[current].state
      /\ p.pml4 = root
      /\ p.pml4_owned
      /\ p.pml4_pending_free = old
  BY <1>2, <1>3 DEF Proc
<1> HIDE DEF p, r
<1>6. /\ r \in Table
      /\ r[current] = p
      /\ \A s \in Slots : s # current => r[s] = q[s]
  BY <1>1, <1>4, <1>5, UpdateTable DEF Table
<1>7. \A s \in Slots : r[s].state = q[s].state
  BY <1>5, <1>6
<1>8. q[current].pml4 \in sp /\ root # NoRoot
  BY <1>1, RootAssumption DEF SpaceInv, PmlAllocated
<1>9. \A s \in Slots : \A x \in Roots :
          Frees(r, s, x) => (Frees(q, s, x) /\ x \in sp) \/ (s = current /\ x = root)
  <2>1. SUFFICES ASSUME NEW s \in Slots, NEW x \in Roots, Frees(r, s, x), ~(s = current /\ x = root)
                 PROVE  Frees(q, s, x) /\ x \in sp
    OBVIOUS
  <2>2. x # NoRoot
    BY RootAssumption
  <2>3. CASE s = current
    <3>1. x = old
      BY <1>5, <1>6, <2>1, <2>3 DEF Frees
    <3> QED
      BY <1>3, <1>8, <2>2, <2>3, <3>1 DEF Frees
  <2>4. CASE s # current
    <3>1. Frees(q, s, x)
      BY <1>6, <2>1, <2>4 DEF Frees
    <3>2. CASE q[s].pml4_pending_free = x
      BY <2>2, <3>1, <3>2 DEF SpaceInv, PendingAllocated
    <3>3. CASE q[s].pml4_owned /\ q[s].pml4 = x
      <4>1. q[s].state # "EMPTY"
        BY <2>2, <3>3 DEF SpaceInv, EmptyBlank, NoProcess
      <4> QED
        BY <3>1, <3>3, <4>1 DEF SpaceInv, PmlAllocated
    <3> QED
      BY <3>1, <3>2, <3>3 DEF Frees
  <2> QED
    BY <2>3, <2>4
<1>10. FreedOnce(r)
  <2>1. SUFFICES ASSUME NEW s \in Slots, NEW t \in Slots, NEW x \in Roots,
                        Frees(r, s, x), Frees(r, t, x)
                 PROVE  s = t
    BY DEF FreedOnce
  <2>2. root \notin sp
    OBVIOUS
  <2>3. CASE x = root
    BY <1>9, <2>1, <2>2, <2>3
  <2>4. CASE x # root
    <3>1. Frees(q, s, x) /\ Frees(q, t, x)
      BY <1>9, <2>1, <2>4
    <3> QED
      BY <3>1 DEF SpaceInv, FreedOnce
  <2> QED
    BY <2>3, <2>4
<1>11. PmlAllocated(r, sp \cup {root}) /\ PendingAllocated(r, sp \cup {root})
  BY <1>3, <1>5, <1>6, <1>8 DEF SpaceInv, PmlAllocated, PendingAllocated
<1>12. PendingReplaced(r) /\ EmptyBlank(r)
  <2>1. old # root
    BY <1>3, <1>8
  <2> QED
    BY <1>1, <1>5, <1>6, <2>1 DEF SpaceInv, PendingReplaced, EmptyBlank
<1>13. SpaceInv(r, sp \cup {root})
  BY <1>10, <1>11, <1>12 DEF SpaceInv
<1> QED
  BY <1>5, <1>6, <1>7, <1>13 DEF r

\* clone: the creator gives up the ownership of its space.
LEMMA DisownSound ==
    ASSUME NEW q, NEW sp, Schedulable(q), SpaceInv(q, sp)
    PROVE  LET r == [q EXCEPT ![current].pml4_owned = FALSE]
           IN  Schedulable(r) /\ SpaceInv(r, sp)
<1> DEFINE r == [q EXCEPT ![current].pml4_owned = FALSE]
           p == [q[current] EXCEPT !.pml4_owned = FALSE]
<1>1. q \in Table /\ current \in Slots /\ q[current] \in Proc
  BY DEF Schedulable, Table
<1>2. /\ p \in Proc
      /\ p.state = q[current].state
      /\ p.pml4 = q[current].pml4
      /\ p.pml4_owned = FALSE
      /\ p.pml4_pending_free = q[current].pml4_pending_free
  BY <1>1 DEF Proc
<1>3. r = [q EXCEPT ![current] = p]
  BY <1>1 DEF Table
<1> HIDE DEF p, r
<1>4. /\ r \in Table
      /\ r[current] = p
      /\ \A s \in Slots : s # current => r[s] = q[s]
  BY <1>1, <1>2, <1>3, UpdateTable DEF Table
<1>5. Schedulable(r)
  BY <1>2, <1>4 DEF Schedulable
<1>6. \A s \in Slots, root \in Roots : Frees(r, s, root) => Frees(q, s, root)
  BY <1>2, <1>4 DEF Frees
<1>7. FreedOnce(r)
  BY <1>6 DEF SpaceInv, FreedOnce
<1>8. PmlAllocated(r, sp) /\ PendingAllocated(r, sp)
  BY <1>1, <1>2, <1>4 DEF SpaceInv, PmlAllocated, PendingAllocated
<1>9. PendingReplaced(r) /\ EmptyBlank(r)
  BY <1>1, <1>2, <1>4 DEF SpaceInv, PendingReplaced, EmptyBlank, Schedulable
<1> QED
  BY <1>5, <1>7, <1>8, <1>9 DEF SpaceInv, r

\* wait4: the reaped slot x becomes blank, and the space it owned is destroyed
\* unless the CPU or another process uses it.
LEMMA ReapedSound ==
    ASSUME NEW q, NEW sp, NEW sp2, NEW x \in Slots, Schedulable(q), SpaceInv(q, sp),
           x # current, q[x].state = "TERMINATED",
           \/ sp2 = sp
           \/ /\ sp2 = sp \ {q[x].pml4}
              /\ q[x].pml4_owned
              /\ ~pml4_used_elsewhere(q, q[x].pml4, x)
    PROVE  LET r == [q EXCEPT ![x] = NoProcess]
           IN  Schedulable(r) /\ SpaceInv(r, sp2)
<1> DEFINE r == [q EXCEPT ![x] = NoProcess]
<1>0. q \in Table
  BY DEF Schedulable
<1>1. /\ r \in Table
      /\ r[x] = NoProcess
      /\ \A s \in Slots : s # x => r[s] = q[s]
  BY <1>0, NoProcessType, UpdateTable DEF Table
<1> HIDE DEF r
<1>2. /\ NoProcess.state = "EMPTY"
      /\ NoProcess.pml4_owned = FALSE
      /\ NoProcess.pml4_pending_free = NoRoot
  BY DEF NoProcess
<1>3. Schedulable(r)
  BY <1>1, <1>2 DEF Schedulable
<1>4. \A root \in Roots : root # NoRoot
  BY RootAssumption
<1>5. \A s \in Slots, root \in Roots : Frees(r, s, root) => s # x /\ Frees(q, s, root)
  BY <1>1, <1>2, <1>4 DEF Frees
<1>6. FreedOnce(r)
  BY <1>5 DEF SpaceInv, FreedOnce
<1>7. sp2 \subseteq Roots
  BY DEF SpaceInv
<1>8. PmlAllocated(r, sp2)
  BY <1>1, <1>2 DEF SpaceInv, PmlAllocated, pml4_used_elsewhere
<1>9. PendingAllocated(r, sp2)
  <2>1. SUFFICES ASSUME NEW s \in Slots, r[s].pml4_pending_free # NoRoot
                 PROVE  r[s].pml4_pending_free \in sp2
    BY DEF PendingAllocated
  <2>2. s # x /\ r[s] = q[s]
    BY <1>1, <1>2, <2>1
  <2>3. q[s].pml4_pending_free \in sp /\ q[s].pml4_pending_free \in Roots
    BY <2>1, <2>2 DEF SpaceInv, PendingAllocated
  <2>4. q[x].pml4_owned => q[s].pml4_pending_free # q[x].pml4
    BY <2>2, <2>3 DEF SpaceInv, FreedOnce, Frees
  <2> QED
    BY <2>2, <2>3, <2>4
<1>10. PendingReplaced(r) /\ EmptyBlank(r)
  BY <1>1, <1>2 DEF SpaceInv, PendingReplaced, EmptyBlank
<1>11. SpaceInv(r, sp2)
  BY <1>6, <1>7, <1>8, <1>9, <1>10 DEF SpaceInv
<1> QED
  BY <1>3, <1>11 DEF r

\* Editing scheduling fields of the current task leaves a sound table.
LEMMA TouchSound ==
    ASSUME NEW q, NEW r, NEW sp, Schedulable(q), SpaceInv(q, sp), Touches(q, r, current),
           r[current].state \in {"RUNNING", "READY", "BLOCKED"}
    PROVE  Schedulable(r) /\ SpaceInv(r, sp)
<1>1. Schedulable(r)
  BY DEF Schedulable, Touches
<1>2. SameSpaces(q, r)
  BY TouchSame DEF Schedulable
<1> QED
  BY <1>1, <1>2, SameSpacesKeeps

\* Waking tasks leaves a sound table.
LEMMA EasedSound ==
    ASSUME NEW q, NEW r, NEW sp, Schedulable(q), SpaceInv(q, sp), Eased(q, r)
    PROVE  Schedulable(r) /\ SpaceInv(r, sp)
BY EasedSchedulable, SameSpacesKeeps DEF Eased

\* Marking the current task BLOCKED leaves a sound table.
LEMMA BlockedSound ==
    ASSUME NEW q, NEW sp, Schedulable(q), SpaceInv(q, sp)
    PROVE  LET r == [q EXCEPT ![current].state = "BLOCKED"]
           IN  Schedulable(r) /\ SpaceInv(r, sp)
<1> DEFINE r == [q EXCEPT ![current].state = "BLOCKED"]
<1>1. q \in Table /\ current \in Slots
  BY DEF Schedulable
<1>2. "BLOCKED" \in States
  BY DEF States
<1>3. Touches(q, r, current) /\ r[current].state = "BLOCKED"
  <2>1. \A st \in States : \A u :
            u = [q EXCEPT ![current].state = st] => Touches(q, u, current) /\ u[current].state = st
    BY <1>1, SetState
  <2> QED
    BY <1>2, <2>1
<1> HIDE DEF r
<1>4. Schedulable(r) /\ SpaceInv(r, sp)
  BY <1>3, TouchSound
<1> QED
  BY <1>4 DEF r

\* A forked child is a READY process that owns nothing.
LEMMA ForkedType ==
    ASSUME IInv, mode = "user", NEW vf \in BOOLEAN, NEW root \in Roots, NEW fx \in Frame
    PROVE  /\ Forked(vf, root, fx) \in Proc
           /\ Forked(vf, root, fx).state = "READY"
           /\ Forked(vf, root, fx).pml4 = root
           /\ Forked(vf, root, fx).pml4_owned = FALSE
           /\ Forked(vf, root, fx).pml4_pending_free = NoRoot
<1> DEFINE fz == [fx EXCEPT !.rax = "zero"]
<1>1. fz \in Frame
  BY DEF Frame, RaxValues
<1>2. ps[current].pid \in Nat
  BY DEF IInv, OneRunner, Table, Proc
<1>3. next_pid \in Nat
  BY DEF IInv, OtherTypes
<1> DEFINE a == [NoProcess EXCEPT !.state = "READY", !.pid = next_pid, !.tid = next_pid]
           b == [a EXCEPT !.parent_pid = ps[current].pid, !.pml4 = root,
                          !.vfork_child = vf, !.vfork_parent_pid = ps[current].pid]
           c == [b EXCEPT !.frame = fz, !.frame_valid = TRUE, !.fresh = TRUE]
<1>4. Forked(vf, root, fx) = c
  BY DEF Forked
<1> HIDE DEF fz
<1>5. /\ a \in Proc
      /\ a.state = "READY"
      /\ a.pml4_owned = FALSE
      /\ a.pml4_pending_free = NoRoot
  <2>1. /\ NoProcess.pml4_owned = FALSE
        /\ NoProcess.pml4_pending_free = NoRoot
    BY DEF NoProcess
  <2> QED
    BY <1>3, <2>1, NoProcessType DEF Proc, States
<1> HIDE DEF a
<1>6. /\ b \in Proc
      /\ b.state = "READY"
      /\ b.pml4 = root
      /\ b.pml4_owned = FALSE
      /\ b.pml4_pending_free = NoRoot
  BY <1>2, <1>5 DEF Proc
<1> HIDE DEF b
<1>7. /\ c \in Proc
      /\ c.state = "READY"
      /\ c.pml4 = root
      /\ c.pml4_owned = FALSE
      /\ c.pml4_pending_free = NoRoot
  BY <1>1, <1>6 DEF Proc
<1> QED
  BY <1>4, <1>7

(***************************************************************************)
(* Every action preserves the invariant.                                   *)
(***************************************************************************)

\* A fork puts a child into a free slot, or fails and may leak a root.
LEMMA ForkKeeps ==
    ASSUME IInv, SYS_fork
    PROVE  IInv'
<1>0. mode = "user" /\ SchedTypes /\ OtherTypes
  BY DEF SYS_fork, IInv
<1>1. OtherTypes'
  BY <1>0 DEF SYS_fork, OtherTypes
<1>2. /\ Schedulable(Entered)
      /\ SpaceInv(Entered, Reclaimed)
      /\ \A s \in Slots : Entered[s].state = ps[s].state
  BY <1>0, EnteredSound
<1>3. Reclaimed \subseteq Roots
  BY <1>2 DEF SpaceInv
<1>4. ASSUME NEW child \in free_slot(ps), NEW root \in Roots \ Reclaimed,
             NEW fx \in Frames("fork", "pid"),
             Continue([Entered EXCEPT ![child] = Forked(FALSE, root, fx)]),
             spaces' = Reclaimed \cup {root}
      PROVE  IInv'
  <2>1. child \in Slots /\ Entered[child].state = "EMPTY"
    BY <1>2 DEF free_slot
  <2>2. fx \in Frame
    BY FramesType DEF Calls, RaxValues
  <2> DEFINE p == Forked(FALSE, root, fx)
             r == [Entered EXCEPT ![child] = p]
  <2>3. /\ p \in Proc
        /\ p.state = "READY"
        /\ p.pml4 = root
        /\ p.pml4_owned = FALSE
        /\ p.pml4_pending_free = NoRoot
    BY <1>0, <2>2, ForkedType
  <2>4. Continue(r)
    BY <1>4
  <2> HIDE DEF p
  <2>5. Schedulable(r) /\ SpaceInv(r, Reclaimed \cup {root})
    <3> DEFINE sp2 == Reclaimed \cup {root}
    <3>1. Reclaimed \subseteq sp2 /\ sp2 \subseteq Roots /\ root \in sp2
      BY <1>3
    <3> HIDE DEF sp2
    <3>2. Schedulable(r) /\ SpaceInv(r, sp2)
      BY <1>2, <2>1, <2>3, <3>1, AddChild
    <3> QED
      BY <3>2 DEF sp2
  <2> HIDE DEF r
  <2>6. Switched(r)
    BY <1>0, <2>4, <2>5, ContinueSwitches
  <2> QED
    BY <1>1, <1>4, <2>5, <2>6, StepKeeps
<1>5. ASSUME Continue(Entered), spaces' \in Leaked
      PROVE  IInv'
  <2>1. Reclaimed \subseteq spaces' /\ spaces' \subseteq Roots
    BY <1>3, <1>5 DEF Leaked
  <2>2. SpaceInv(Entered, spaces')
    BY <1>2, <2>1, MoreSpaces
  <2>3. Switched(Entered)
    BY <1>0, <1>2, <1>5, ContinueSwitches
  <2> QED
    BY <1>1, <2>2, <2>3, StepKeeps
<1> QED
  BY <1>4, <1>5 DEF SYS_fork

\* A vfork child borrows its parent's space; the parent is parked.
LEMMA VforkKeeps ==
    ASSUME IInv, SYS_vfork
    PROVE  IInv'
<1>0. mode = "user" /\ SchedTypes /\ OtherTypes
  BY DEF SYS_vfork, IInv
<1>1. OtherTypes'
  BY <1>0 DEF SYS_vfork, OtherTypes
<1>2. /\ Schedulable(Entered)
      /\ SpaceInv(Entered, Reclaimed)
      /\ \A s \in Slots : Entered[s].state = ps[s].state
      /\ \A s \in Slots : Entered[s].pml4 = ps[s].pml4
  BY <1>0, EnteredSound
<1> DEFINE p(fx) == Forked(TRUE, ps[current].pml4, fx)
           c(child, fx) == [Entered EXCEPT ![child] = p(fx)]
           q(child, fx) == [c(child, fx) EXCEPT ![current].state = "BLOCKED"]
<1>3. PICK child \in free_slot(ps), fx \in Frames("vfork", "pid") :
          block_from_syscall(q(child, fx), fx) \/ NoSwitch(q(child, fx))
  BY DEF SYS_vfork
<1>4. child \in Slots /\ Entered[child].state = "EMPTY"
  BY <1>2 DEF free_slot
<1>5. fx \in Frame
  BY FramesType DEF Calls, RaxValues
<1>6. ps[current].pml4 \in Reclaimed /\ ps[current].pml4 \in Roots
  BY <1>2 DEF SpaceInv, PmlAllocated, Schedulable
<1>7. /\ p(fx) \in Proc
      /\ p(fx).state = "READY"
      /\ p(fx).pml4 = ps[current].pml4
      /\ p(fx).pml4_owned = FALSE
      /\ p(fx).pml4_pending_free = NoRoot
  BY <1>0, <1>5, <1>6, ForkedType
<1> HIDE DEF p
<1>8. Reclaimed \subseteq Roots
  BY <1>2 DEF SpaceInv
<1>9. Schedulable(c(child, fx)) /\ SpaceInv(c(child, fx), Reclaimed)
  BY <1>2, <1>4, <1>6, <1>7, <1>8, AddChild
<1> HIDE DEF c
<1>10. Schedulable(q(child, fx)) /\ SpaceInv(q(child, fx), Reclaimed)
  BY <1>9, BlockedSound
<1> HIDE DEF q
<1>11. Switched(q(child, fx))
  BY <1>0, <1>3, <1>5, <1>10, BlockSwitches, NoSwitchKeeps
<1>12. spaces' = Reclaimed
  BY DEF SYS_vfork
<1> QED
  BY <1>1, <1>10, <1>11, <1>12, StepKeeps

\* The number of live processes is a number.
LEMMA CountType ==
    ASSUME NEW q
    PROVE  count(q) \in Nat
<1>1. IsFiniteSet(Slots)
  BY SlotAssumption, FS_Interval DEF Slots
<1>2. IsFiniteSet({s \in Slots : Live(q[s])})
  BY <1>1, FS_Subset
<1> QED
  BY <1>2, FS_CardinalityType DEF count

\* A thread shares its creator's space, and afterwards neither owns it.
LEMMA CloneKeeps ==
    ASSUME IInv, SYS_clone
    PROVE  IInv'
<1>0. mode = "user" /\ SchedTypes /\ OtherTypes /\ spaces' = Reclaimed
  BY DEF SYS_clone, IInv
<1>1. OtherTypes'
  BY <1>0 DEF SYS_clone, OtherTypes
<1>2. /\ Schedulable(Entered)
      /\ SpaceInv(Entered, Reclaimed)
      /\ \A s \in Slots : Entered[s].state = ps[s].state
      /\ \A s \in Slots : Entered[s].pml4 = ps[s].pml4
  BY <1>0, EnteredSound
<1> DEFINE a(pid) == [NoProcess EXCEPT !.state = "READY", !.pid = pid,
                          !.tid = count(ps) + THREAD_BASE, !.parent_pid = ps[current].tid]
           p(pid, fx) == [a(pid) EXCEPT !.pml4 = ps[current].pml4, !.frame = fx,
                              !.frame_valid = TRUE, !.fresh = TRUE]
           c(child, pid, fx) == [Entered EXCEPT ![child] = p(pid, fx)]
           r(child, pid, fx) == [c(child, pid, fx) EXCEPT ![current].pml4_owned = FALSE]
<1>3. PICK child \in free_slot(ps), pid \in ThreadPids(ps), fx \in Frames("clone", "zero") :
          Continue(r(child, pid, fx))
  BY DEF SYS_clone
<1>4. child \in Slots /\ Entered[child].state = "EMPTY"
  BY <1>2 DEF free_slot
<1>5. fx \in Frame
  BY FramesType DEF Calls, RaxValues
<1>6. count(ps) + THREAD_BASE \in Nat /\ pid \in Nat
  BY CountType, PidAssumption, SlotAssumption DEF ThreadPids
<1>7. ps[current].pml4 \in Reclaimed /\ ps[current].pml4 \in Roots
  BY <1>2 DEF SpaceInv, PmlAllocated, Schedulable
<1>8. ps[current].tid \in Nat
  BY <1>0 DEF IInv, OneRunner, Table, Proc
<1>9. /\ a(pid) \in Proc
      /\ a(pid).state = "READY"
      /\ a(pid).pml4_owned = FALSE
      /\ a(pid).pml4_pending_free = NoRoot
  <2>1. /\ NoProcess.pml4_owned = FALSE
        /\ NoProcess.pml4_pending_free = NoRoot
    BY DEF NoProcess
  <2> DEFINE tid == count(ps) + THREAD_BASE
  <2>2. tid \in Nat
    BY <1>6
  <2> HIDE DEF tid
  <2>3. LET z == [NoProcess EXCEPT !.state = "READY", !.pid = pid, !.tid = tid,
                                   !.parent_pid = ps[current].tid]
        IN  /\ z \in Proc
            /\ z.state = "READY"
            /\ z.pml4_owned = FALSE
            /\ z.pml4_pending_free = NoRoot
    BY <1>6, <1>8, <2>1, <2>2, NoProcessType DEF Proc, States
  <2> QED
    BY <2>3 DEF tid
<1> HIDE DEF a
<1>10. /\ p(pid, fx) \in Proc
       /\ p(pid, fx).state = "READY"
       /\ p(pid, fx).pml4 = ps[current].pml4
       /\ p(pid, fx).pml4_owned = FALSE
       /\ p(pid, fx).pml4_pending_free = NoRoot
  BY <1>5, <1>7, <1>9 DEF Proc
<1> HIDE DEF p
<1>11. Reclaimed \subseteq Roots
  BY <1>2 DEF SpaceInv
<1>12. Schedulable(c(child, pid, fx)) /\ SpaceInv(c(child, pid, fx), Reclaimed)
  BY <1>2, <1>4, <1>7, <1>10, <1>11, AddChild
<1> HIDE DEF c
<1> DEFINE t == r(child, pid, fx)
<1>13. Schedulable(t) /\ SpaceInv(t, Reclaimed)
  BY <1>12, DisownSound
<1> HIDE DEF r
<1>14. Switched(t)
  BY <1>0, <1>3, <1>13, ContinueSwitches
<1> QED
  BY <1>0, <1>1, <1>13, <1>14, StepKeeps

\* An execve replaces the space, or fails and may leak a root.
LEMMA ExecveKeeps ==
    ASSUME IInv, SYS_execve
    PROVE  IInv'
<1>0. mode = "user" /\ SchedTypes /\ OtherTypes
  BY DEF SYS_execve, IInv
<1>1. OtherTypes'
  BY <1>0 DEF SYS_execve, OtherTypes
<1>2. /\ Schedulable(Entered)
      /\ SpaceInv(Entered, Reclaimed)
      /\ Entered[current].pml4_pending_free = NoRoot
  BY <1>0, EnteredSound
<1>3. Reclaimed \subseteq Roots
  BY <1>2 DEF SpaceInv
<1>4. UNCHANGED <<current, rr_cursor, mode>>
  BY DEF SYS_execve
<1>5. ASSUME NEW root \in Roots \ Reclaimed, ps' = VforkDone(Replaced(Entered, root)),
             cr3' = root, spaces' = Reclaimed \cup {root}
      PROVE  IInv'
  <2> DEFINE q == Replaced(Entered, root)
  <2>1. /\ q \in Table
        /\ SpaceInv(q, Reclaimed \cup {root})
        /\ q[current].pml4 = root
        /\ \A s \in Slots : q[s].state = Entered[s].state
    BY <1>2, ReplacedSound
  <2>2. ps' = VforkDone(q)
    BY <1>5
  <2> HIDE DEF q
  <2>3. current \in Slots /\ q[current].state \in {"RUNNING", "READY", "BLOCKED"}
    BY <1>2, <2>1 DEF Schedulable
  <2>4. Eased(q, ps')
    BY <2>1, <2>2, <2>3, VforkDoneEases
  <2>5. SpaceInv(ps', spaces')
    BY <1>5, <2>1, <2>4, SameSpacesKeeps DEF Eased
  <2>6. OneRunner'
    <3>1. ps'[current].pml4 = root
      BY <2>1, <2>3, <2>4 DEF Eased, SameSpaces
    <3>2. ps'[current].state \in {"RUNNING", "READY", "BLOCKED"}
      BY <2>3, <2>4 DEF Eased
    <3>3. \A s \in Slots : ps'[s].state = "RUNNING" => s = current
      BY <1>2, <2>1, <2>4 DEF Eased, Schedulable
    <3> QED
      BY <1>4, <1>5, <2>3, <3>1, <3>2, <3>3 DEF OneRunner
  <2>7. SchedTypes'
    BY <1>0, <1>4, <1>5 DEF SchedTypes
  <2>8. ps' \in Table
    BY <2>4 DEF Eased
  <2> QED
    BY <1>0, <1>1, <1>4, <2>5, <2>6, <2>7, <2>8 DEF IInv
<1>6. ASSUME ps' = Entered, cr3' = cr3, spaces' \in Leaked
      PROVE  IInv'
  <2>1. Reclaimed \subseteq spaces' /\ spaces' \subseteq Roots
    BY <1>3, <1>6 DEF Leaked
  <2>2. SpaceInv(Entered, spaces')
    BY <1>2, <2>1, MoreSpaces
  <2>3. Continue(Entered)
    BY <1>4, <1>6 DEF Continue
  <2>4. Switched(Entered)
    BY <1>0, <1>2, <2>3, ContinueSwitches
  <2> QED
    BY <1>1, <2>2, <2>4, StepKeeps
<1> QED
  BY <1>5, <1>6 DEF SYS_execve

\* The calls that only reclaim, yield or sleep until a deadline.
LEMMA OtherKeeps ==
    ASSUME IInv, SYS_other \/ SYS_sched_yield \/ SYS_nanosleep
    PROVE  IInv'
<1>0. mode = "user" /\ SchedTypes /\ OtherTypes /\ spaces' = Reclaimed
  BY DEF SYS_other, SYS_sched_yield, SYS_nanosleep, IInv
<1>1. OtherTypes'
  BY <1>0 DEF SYS_other, SYS_sched_yield, SYS_nanosleep, OtherTypes
<1>2. Schedulable(Entered) /\ SpaceInv(Entered, Reclaimed)
  BY <1>0, EnteredSound
<1>3. Switched(Entered)
  <2>1. CASE SYS_other
    BY <1>0, <1>2, <2>1, ContinueSwitches DEF SYS_other
  <2>2. CASE SYS_sched_yield
    <3>1. PICK fx \in Frames("sched_yield", "zero") : SwitchAway(Entered, fx)
      BY <2>2 DEF SYS_sched_yield, yield_from_syscall
    <3>2. fx \in Frame
      BY FramesType DEF Calls, RaxValues
    <3> QED
      BY <1>0, <1>2, <3>1, <3>2, SwitchAwaySwitches
  <2>3. CASE SYS_nanosleep
    <3>1. CASE NoSwitch(Entered)
      BY <1>0, <1>2, <3>1, NoSwitchKeeps
    <3>2. CASE ~NoSwitch(Entered)
      <4>1. PICK d \in 0 .. MaxSleep, fx \in Frames("nanosleep", "number") :
                block_until_from_syscall(Entered, fx, now + d)
        BY <2>3, <3>2 DEF SYS_nanosleep
      <4>2. fx \in Frame
        BY FramesType DEF Calls, RaxValues
      <4>3. now + d \in Nat
        BY <1>0, SleepAssumption DEF OtherTypes
      <4> QED
        BY <1>0, <1>2, <4>1, <4>2, <4>3, BlockUntilSwitches
    <3> QED
      BY <3>1, <3>2
  <2> QED
    BY <2>1, <2>2, <2>3
<1> QED
  BY <1>0, <1>1, <1>2, <1>3, StepKeeps

\* set_tid_address stores an address in the current slot.
LEMMA SetTidKeeps ==
    ASSUME IInv, SYS_set_tid_address
    PROVE  IInv'
<1>0. mode = "user" /\ SchedTypes /\ OtherTypes /\ spaces' = Reclaimed
  BY DEF SYS_set_tid_address, IInv
<1>1. OtherTypes'
  BY <1>0 DEF SYS_set_tid_address, OtherTypes
<1>2. Schedulable(Entered) /\ SpaceInv(Entered, Reclaimed)
  BY <1>0, EnteredSound
<1> DEFINE p(a) == [Entered[current] EXCEPT !.clear_tid = a]
           r(a) == [Entered EXCEPT ![current] = p(a)]
<1>3. Entered \in Table /\ current \in Slots /\ Entered[current] \in Proc
  BY <1>2 DEF Schedulable, Table
<1>4. PICK a \in Addrs : Continue([Entered EXCEPT ![current].clear_tid = a])
  BY DEF SYS_set_tid_address
<1>5. Continue(r(a))
  BY <1>3, <1>4 DEF Table
<1>6. /\ p(a) \in Proc
      /\ p(a).state = Entered[current].state
      /\ p(a).pml4 = Entered[current].pml4
      /\ p(a).pml4_owned = Entered[current].pml4_owned
      /\ p(a).pml4_pending_free = Entered[current].pml4_pending_free
  BY <1>3 DEF Proc
<1> HIDE DEF p
<1>7. Touches(Entered, r(a), current) /\ r(a)[current].state = Entered[current].state
  BY <1>3, <1>6, UpdateTable DEF Touches, Table
<1> HIDE DEF r
<1>8. Schedulable(r(a)) /\ SpaceInv(r(a), Reclaimed)
  BY <1>2, <1>7, TouchSound DEF Schedulable
<1>9. Switched(r(a))
  BY <1>0, <1>5, <1>8, ContinueSwitches
<1> QED
  BY <1>0, <1>1, <1>8, <1>9, StepKeeps

\* Dropping entries keeps the futex table well-typed.
LEMMA UnqueueType ==
    ASSUME NEW S, futex_waiters \in [Waiters -> FutexWaiter]
    PROVE  Unqueue(S) \in [Waiters -> FutexWaiter]
<1>1. NoWaiter \in FutexWaiter
  BY DEF NoWaiter, FutexWaiter
<1> QED
  BY <1>1 DEF Unqueue

\* A futex wait queues the caller and parks it, or does nothing.
LEMMA FutexWaitKeeps ==
    ASSUME IInv, SYS_futex_wait
    PROVE  IInv'
<1>0. mode = "user" /\ SchedTypes /\ OtherTypes /\ spaces' = Reclaimed
  BY DEF SYS_futex_wait, IInv
<1>1. Schedulable(Entered) /\ SpaceInv(Entered, Reclaimed)
  BY <1>0, EnteredSound
<1>2. PICK w \in FutexSlot, a \in Addrs :
        \/ /\ futex_waiters' = [futex_waiters EXCEPT ![w] =
                  [used |-> TRUE, addr |-> a, pid |-> ps[current].tid]]
           /\ \E fx \in Frames("futex", "number") : block_from_syscall(Entered, fx)
        \/ /\ futex_waiters' = futex_waiters
           /\ NoSwitch(Entered)
  BY DEF SYS_futex_wait
<1>3. Switched(Entered)
  <2>1. CASE NoSwitch(Entered)
    BY <1>0, <1>1, <2>1, NoSwitchKeeps
  <2>2. CASE ~NoSwitch(Entered)
    <3>1. PICK fx \in Frames("futex", "number") : block_from_syscall(Entered, fx)
      BY <1>2, <2>2
    <3>2. fx \in Frame
      BY FramesType DEF Calls, RaxValues
    <3> QED
      BY <1>0, <1>1, <3>1, <3>2, BlockSwitches
  <2> QED
    BY <2>1, <2>2
<1>4. OtherTypes'
  <2>1. ps[current].tid \in Nat
    BY <1>0 DEF IInv, OneRunner, Table, Proc
  <2> DEFINE e == [used |-> TRUE, addr |-> a, pid |-> ps[current].tid]
  <2>2. e \in FutexWaiter
    BY <2>1 DEF FutexWaiter
  <2>3. futex_waiters' = futex_waiters \/ futex_waiters' = [futex_waiters EXCEPT ![w] = e]
    BY <1>2
  <2> HIDE DEF e
  <2>4. futex_waiters' \in [Waiters -> FutexWaiter]
    BY <1>0, <2>2, <2>3 DEF OtherTypes
  <2> QED
    BY <1>0, <2>4 DEF SYS_futex_wait, OtherTypes
<1> QED
  BY <1>0, <1>1, <1>3, <1>4, StepKeeps

\* A futex wake makes waiters READY and drops their entries.
LEMMA FutexWakeKeeps ==
    ASSUME IInv, SYS_futex_wake
    PROVE  IInv'
<1>0. mode = "user" /\ SchedTypes /\ OtherTypes /\ spaces' = Reclaimed
  BY DEF SYS_futex_wake, IInv
<1>1. Schedulable(Entered) /\ SpaceInv(Entered, Reclaimed)
  BY <1>0, EnteredSound
<1>2. PICK a \in Addrs, n \in {1, MAX_PROCESS} :
        /\ Continue(Wake(Entered, Woken(Entered, a, n)))
        /\ futex_waiters' = Unqueue(Scanned(Entered, a, n))
  BY DEF SYS_futex_wake
<1>3. futex_waiters' \in [Waiters -> FutexWaiter]
  BY <1>0, <1>2, UnqueueType DEF OtherTypes
<1>4. OtherTypes'
  BY <1>0, <1>3 DEF SYS_futex_wake, OtherTypes
<1> DEFINE r == Wake(Entered, Woken(Entered, a, n))
<1>5. Eased(Entered, r)
  BY <1>1, WakeEases DEF Schedulable
<1>6. Continue(r)
  BY <1>2
<1> HIDE DEF r
<1>7. Schedulable(r) /\ SpaceInv(r, Reclaimed)
  BY <1>1, <1>5, EasedSound
<1>8. Switched(r)
  BY <1>0, <1>6, <1>7, ContinueSwitches
<1> QED
  BY <1>0, <1>4, <1>7, <1>8, StepKeeps

\* An exit wakes whoever waits for it and enters another task.
LEMMA ExitKeeps ==
    ASSUME IInv, SYS_exit
    PROVE  IInv'
<1>0. mode = "user" /\ SchedTypes /\ OtherTypes /\ spaces' = Reclaimed
  BY DEF SYS_exit, IInv
<1>1. Schedulable(Entered) /\ SpaceInv(Entered, Reclaimed)
  BY <1>0, EnteredSound
<1> DEFINE v == VforkDone(Entered)
           q == AnswerParent(v)
           a == ps[current].clear_tid
           w == Wake(q, Woken(q, a, 1))
<1>2. \/ on_exit(w) /\ futex_waiters' = Unqueue(Scanned(q, a, 1))
      \/ on_exit(q) /\ futex_waiters' = futex_waiters
  BY DEF SYS_exit
<1>3. futex_waiters' \in [Waiters -> FutexWaiter]
  BY <1>0, <1>2, UnqueueType DEF OtherTypes
<1>4. OtherTypes'
  BY <1>0, <1>3 DEF SYS_exit, OtherTypes
<1>5. Eased(Entered, v)
  BY <1>1, VforkDoneEases DEF Schedulable
<1>6. Eased(v, q)
  BY <1>5, AnswerEases DEF Eased
<1>7. Eased(q, w)
  BY <1>6, WakeEases DEF Eased
<1> HIDE DEF v, q, w
<1>8. Schedulable(v) /\ SpaceInv(v, Reclaimed)
  BY <1>1, <1>5, EasedSound
<1>9. Schedulable(q) /\ SpaceInv(q, Reclaimed)
  BY <1>6, <1>8, EasedSound
<1>10. Schedulable(w) /\ SpaceInv(w, Reclaimed)
  BY <1>7, <1>9, EasedSound
<1>11. CASE on_exit(w)
  <2>1. Switched(w)
    BY <1>0, <1>10, <1>11, ExitSwitches
  <2> QED
    BY <1>0, <1>4, <1>10, <2>1, StepKeeps
<1>12. CASE on_exit(q)
  <2>1. Switched(q)
    BY <1>0, <1>9, <1>12, ExitSwitches
  <2> QED
    BY <1>0, <1>4, <1>9, <2>1, StepKeeps
<1> QED
  BY <1>2, <1>11, <1>12

\* wait4 that finds an ended child frees its slot and maybe its space.
LEMMA ReapKeeps ==
    ASSUME IInv, NEW wanted, SYS_wait4_reap(wanted)
    PROVE  IInv'
<1>0. mode = "user" /\ SchedTypes /\ OtherTypes
  BY DEF SYS_wait4_reap, IInv
<1>1. OtherTypes'
  BY <1>0 DEF SYS_wait4_reap, OtherTypes
<1>2. /\ Schedulable(Entered)
      /\ SpaceInv(Entered, Reclaimed)
      /\ \A s \in Slots : s # current => Entered[s] = ps[s]
  BY <1>0, EnteredSound
<1>3. PICK x \in Zombies(Entered, wanted) :
        /\ Continue([Entered EXCEPT ![x] = NoProcess])
        /\ spaces' = IF /\ ps[x].pml4_owned
                        /\ ps[x].pml4 \notin {NoRoot, cr3}
                        /\ ~pml4_used_elsewhere(Entered, ps[x].pml4, x)
                     THEN Reclaimed \ {ps[x].pml4} ELSE Reclaimed
  BY DEF SYS_wait4_reap
<1>4. x \in Slots /\ Entered[x].state = "TERMINATED"
  BY DEF Zombies, Children
<1>5. x # current
  BY <1>2, <1>4 DEF Schedulable
<1>6. Entered[x] = ps[x]
  BY <1>2, <1>4, <1>5
<1> DEFINE r == [Entered EXCEPT ![x] = NoProcess]
           sp2 == spaces'
<1>7. \/ sp2 = Reclaimed
      \/ /\ sp2 = Reclaimed \ {Entered[x].pml4}
         /\ Entered[x].pml4_owned
         /\ ~pml4_used_elsewhere(Entered, Entered[x].pml4, x)
  BY <1>3, <1>6
<1> HIDE DEF sp2
<1>8. Schedulable(r) /\ SpaceInv(r, sp2)
  BY <1>2, <1>4, <1>5, <1>7, ReapedSound
<1>9. Continue(r)
  BY <1>3
<1> HIDE DEF r
<1>10. Switched(r)
  BY <1>0, <1>8, <1>9, ContinueSwitches
<1>11. SpaceInv(r, spaces')
  BY <1>8 DEF sp2
<1> QED
  BY <1>1, <1>10, <1>11, StepKeeps

\* wait4 that finds none parks the caller.
LEMMA WaitKeeps ==
    ASSUME IInv, NEW wanted \in Nat, SYS_wait4_block(wanted)
    PROVE  IInv'
<1>0. mode = "user" /\ SchedTypes /\ OtherTypes /\ spaces' = Reclaimed
  BY DEF SYS_wait4_block, IInv
<1>1. OtherTypes'
  BY <1>0 DEF SYS_wait4_block, OtherTypes
<1>2. Schedulable(Entered) /\ SpaceInv(Entered, Reclaimed)
  BY <1>0, EnteredSound
<1>3. Entered \in Table /\ current \in Slots /\ Entered[current] \in Proc
  BY <1>2 DEF Schedulable, Table
<1> DEFINE p == [Entered[current] EXCEPT !.wait_target_pid = wanted, !.state = "BLOCKED"]
           q == [Entered EXCEPT ![current].wait_target_pid = wanted,
                                ![current].state = "BLOCKED"]
<1>4. (\E fx \in Frames("wait4", "zero") : block_from_syscall(q, fx)) \/ NoSwitch(q)
  BY DEF SYS_wait4_block
<1>5. q = [Entered EXCEPT ![current] = p]
  BY <1>3 DEF Table
<1>6. /\ p \in Proc
      /\ p.state = "BLOCKED"
      /\ p.pml4 = Entered[current].pml4
      /\ p.pml4_owned = Entered[current].pml4_owned
      /\ p.pml4_pending_free = Entered[current].pml4_pending_free
  BY <1>3 DEF Proc, States
<1> HIDE DEF p, q
<1>7. Touches(Entered, q, current) /\ q[current].state = "BLOCKED"
  BY <1>3, <1>5, <1>6, UpdateTable DEF Touches, Table
<1>8. Schedulable(q) /\ SpaceInv(q, Reclaimed)
  BY <1>2, <1>7, TouchSound
<1>9. Switched(q)
  <2>1. CASE NoSwitch(q)
    BY <1>0, <1>8, <2>1, NoSwitchKeeps
  <2>2. CASE ~NoSwitch(q)
    <3>1. PICK fx \in Frames("wait4", "zero") : block_from_syscall(q, fx)
      BY <1>4, <2>2
    <3>2. fx \in Frame
      BY FramesType DEF Calls, RaxValues
    <3> QED
      BY <1>0, <1>8, <3>1, <3>2, BlockSwitches
  <2> QED
    BY <2>1, <2>2
<1> QED
  BY <1>0, <1>1, <1>8, <1>9, StepKeeps

\* The timer wakes sleepers and may switch; a fault in ring 3 halts.
LEMMA InterruptKeeps ==
    ASSUME IInv, Timer \/ UserFault
    PROVE  IInv'
<1>0. mode = "user" /\ SchedTypes /\ OtherTypes /\ spaces' = spaces /\ ps \in Table
  BY DEF Timer, on_timer, UserFault, IInv
<1>1. OtherTypes'
  BY <1>0, TimeAssumption DEF Timer, on_timer, UserFault, OtherTypes
<1>2. Schedulable(ps) /\ SpaceInv(ps, spaces)
  BY <1>0 DEF IInv, OneRunner, Schedulable
<1>3. CASE Timer
  <2> DEFINE q == wake_timed_tasks(ps, now')
  <2>1. PICK fx \in Frames("user", "user") : SwitchAway(q, fx)
    BY <1>3 DEF Timer, on_timer
  <2>2. fx \in Frame
    BY FramesType DEF Calls, RaxValues
  <2>3. Eased(ps, q)
    BY <1>0, TimedEases
  <2> HIDE DEF q
  <2>4. Schedulable(q) /\ SpaceInv(q, spaces)
    BY <1>2, <2>3, EasedSound
  <2>5. Switched(q)
    BY <1>0, <2>1, <2>2, <2>4, SwitchAwaySwitches
  <2> QED
    BY <1>0, <1>1, <2>4, <2>5, StepKeeps
<1>4. CASE UserFault
  <2>1. SameSpaces(ps, ps)
    BY DEF SameSpaces
  <2>2. rr_cursor' \in Slots /\ ReturnToKernel(ps)
    BY <1>0, <1>4 DEF UserFault, SchedTypes
  <2>3. Switched(ps)
    BY <1>0, <2>1, <2>2, ReturnSwitches
  <2> QED
    BY <1>0, <1>1, <1>2, <2>3, StepKeeps
<1> QED
  BY <1>3, <1>4

\* The first process is entered in its own space, or the kernel halts.
LEMMA BootKeeps ==
    ASSUME IInv, Boot
    PROVE  IInv'
<1>0. /\ ps \in Table /\ SchedTypes /\ OtherTypes /\ SpaceInv(ps, spaces)
      /\ \A s \in Slots : ps[s] = NoProcess
  BY DEF Boot, IInv
<1>1. CASE BootHalt /\ UNCHANGED <<next_pid, spaces>>
  <2>1. SchedTypes' /\ OtherTypes' /\ OneRunner'
    BY <1>0, <1>1 DEF BootHalt, SchedTypes, OtherTypes, OneRunner
  <2>2. ps' = ps /\ spaces' = spaces /\ mode' # "boot"
    BY <1>1 DEF BootHalt
  <2> QED
    BY <1>0, <2>1, <2>2 DEF IInv
<1>2. ASSUME NEW s \in free_slot(ps), NEW root \in Roots,
             ps' = [ps EXCEPT ![s] = [Spawned(root) EXCEPT !.state = "RUNNING"]],
             current' = s, cr3' = root, next_pid' = next_pid + 1, spaces' = {root},
             mode' = "user", UNCHANGED <<rr_cursor, now, futex_waiters>>
      PROVE  IInv'
  <2> DEFINE a == Spawned(root)
             p == [a EXCEPT !.state = "RUNNING"]
  <2>1. s \in Slots
    BY DEF free_slot
  <2>2. a \in Proc /\ a.pml4 = root /\ a.pml4_owned = FALSE /\ a.pml4_pending_free = NoRoot
    <3>1. /\ NoProcess.pml4_owned = FALSE
          /\ NoProcess.pml4_pending_free = NoRoot
      BY DEF NoProcess
    <3>2. next_pid \in Nat
      BY <1>0 DEF OtherTypes
    <3> QED
      BY <3>1, <3>2, NoProcessType DEF Spawned, Proc, States
  <2>3. ps' = [ps EXCEPT ![s] = p]
    BY <1>2
  <2> HIDE DEF a
  <2>4. /\ p \in Proc
        /\ p.state = "RUNNING"
        /\ p.pml4 = root
        /\ p.pml4_owned = FALSE
        /\ p.pml4_pending_free = NoRoot
    BY <2>2 DEF Proc, States
  <2> HIDE DEF p
  <2>5. /\ ps' \in Table
        /\ ps'[s] = p
        /\ \A t \in Slots : t # s => ps'[t] = NoProcess
    BY <1>0, <2>1, <2>3, <2>4, UpdateTable DEF Table
  <2>6. /\ NoProcess.state = "EMPTY"
        /\ NoProcess.pml4_owned = FALSE
        /\ NoProcess.pml4_pending_free = NoRoot
    BY DEF NoProcess
  <2>7. root # NoRoot
    BY RootAssumption
  <2>8. SpaceInv(ps', {root})
    <3>1. \A t \in Slots, x \in Roots : ~Frees(ps', t, x)
      BY <2>4, <2>5, <2>6, RootAssumption DEF Frees
    <3>2. FreedOnce(ps')
      BY <3>1 DEF FreedOnce
    <3>3. PmlAllocated(ps', {root}) /\ PendingAllocated(ps', {root})
      BY <2>4, <2>5, <2>6 DEF PmlAllocated, PendingAllocated
    <3>4. PendingReplaced(ps') /\ EmptyBlank(ps')
      BY <2>4, <2>5, <2>6, <2>7 DEF PendingReplaced, EmptyBlank
    <3> QED
      BY <3>2, <3>3, <3>4 DEF SpaceInv
  <2>9. OneRunner'
    BY <1>2, <2>1, <2>4, <2>5, <2>6 DEF OneRunner
  <2>10. SchedTypes' /\ OtherTypes'
    BY <1>0, <1>2, <2>1 DEF SchedTypes, OtherTypes
  <2> QED
    BY <1>2, <2>5, <2>8, <2>9, <2>10 DEF IInv
<1> QED
  BY <1>1, <1>2 DEF Boot

\* The table at power-on satisfies the invariant.
LEMMA InitInv ==
    ASSUME Init
    PROVE  IInv
<1>1. ps \in Table /\ \A s \in Slots : ps[s] = NoProcess
  BY NoProcessType DEF Init, Table
<1>2. SchedTypes /\ OneRunner
  BY SlotAssumption DEF Init, SchedTypes, OneRunner, Slots
<1>3. NoWaiter \in FutexWaiter
  BY DEF NoWaiter, FutexWaiter
<1>4. OtherTypes
  BY <1>3 DEF Init, OtherTypes
<1>5. /\ NoProcess.state = "EMPTY"
      /\ NoProcess.pml4_owned = FALSE
      /\ NoProcess.pml4_pending_free = NoRoot
  BY DEF NoProcess
<1>6. \A s \in Slots, root \in Roots : ~Frees(ps, s, root)
  BY <1>1, <1>5, RootAssumption DEF Frees
<1>7. FreedOnce(ps)
  BY <1>6 DEF FreedOnce
<1>8. /\ PmlAllocated(ps, spaces) /\ PendingAllocated(ps, spaces)
      /\ PendingReplaced(ps) /\ EmptyBlank(ps)
  BY <1>1, <1>5 DEF PmlAllocated, PendingAllocated, PendingReplaced, EmptyBlank
<1>9. SpaceInv(ps, spaces)
  BY <1>7, <1>8 DEF SpaceInv, Init
<1> QED
  BY <1>1, <1>2, <1>4, <1>9 DEF IInv

\* Every step preserves the invariant, one case per system call or interrupt.
LEMMA NextInv ==
    ASSUME IInv, [Next]_vars
    PROVE  IInv'
<1>1. CASE UNCHANGED vars
  BY <1>1 DEF vars, schedVars, IInv, SchedTypes, OtherTypes, OneRunner
<1>2. CASE Boot
  BY <1>2, BootKeeps
<1>3. CASE Halted
  BY <1>1, <1>3 DEF Halted
<1>4. CASE Timer \/ UserFault
  BY <1>4, InterruptKeeps
<1>5. CASE SYS_other \/ SYS_sched_yield \/ SYS_nanosleep
  BY <1>5, OtherKeeps
<1>6. CASE SYS_exit
  BY <1>6, ExitKeeps
<1>7. CASE SYS_fork
  BY <1>7, ForkKeeps
<1>8. CASE SYS_vfork
  BY <1>8, VforkKeeps
<1>9. CASE SYS_clone
  BY <1>9, CloneKeeps
<1>10. CASE SYS_execve
  BY <1>10, ExecveKeeps
<1>11. CASE SYS_wait4
  <2>1. PICK arg \in WaitArgs :
            LET wanted == IF arg <= 0 THEN 0 ELSE arg
            IN  SYS_wait4_reap(wanted) \/ SYS_wait4_block(wanted)
    BY <1>11 DEF SYS_wait4
  <2> DEFINE wanted == IF arg <= 0 THEN 0 ELSE arg
  <2>2. wanted \in Nat
    BY WaitAssumption
  <2>3. SYS_wait4_reap(wanted) \/ SYS_wait4_block(wanted)
    BY <2>1
  <2> HIDE DEF wanted
  <2> QED
    BY <2>2, <2>3, ReapKeeps, WaitKeeps
<1>12. CASE SYS_futex_wait
  BY <1>12, FutexWaitKeeps
<1>13. CASE SYS_futex_wake
  BY <1>13, FutexWakeKeeps
<1>14. CASE SYS_set_tid_address
  BY <1>14, SetTidKeeps
<1> QED
  BY <1>1, <1>2, <1>3, <1>4, <1>5, <1>6, <1>7, <1>8, <1>9, <1>10, <1>11, <1>12, <1>13,
     <1>14 DEF Next

(***************************************************************************)
(* The theorems.                                                           *)
(***************************************************************************)

\* The invariant holds in every reachable state.
THEOREM Invariance == Spec => []IInv
<1>1. Init => IInv
  BY InitInv
<1>2. IInv /\ [Next]_vars => IInv'
  BY NextInv
<1> QED
  BY <1>1, <1>2, PTL DEF Spec

\* Type correctness of the process table and the kernel's globals.
THEOREM TypeCorrect == Spec => []TypeOK
<1>1. IInv => TypeOK
  BY InvImplies
<1> QED
  BY <1>1, Invariance, PTL

\* However system calls, faults and timer interrupts interleave, at most one
\* task is RUNNING and the CPU is on that task's own page tables.
THEOREM SingleRunner == Spec => []OneRunner
<1>1. IInv => OneRunner
  BY InvImplies
<1> QED
  BY <1>1, Invariance, PTL

\* Neither the dispatcher's deferred free nor wait4 destroys page tables that
\* a process still points to or that the CPU is using.
THEOREM ReclamationSafe == Spec => []NoUseAfterFree
<1>1. IInv => NoUseAfterFree
  BY InvImplies
<1> QED
  BY <1>1, Invariance, PTL

\* No address space is freed twice: at any time at most one process is going
\* to free it, and never one that runs in it.
THEOREM NoDoubleFree == Spec => []SoleOwner
<1>1. IInv => SoleOwner
  BY InvImplies
<1> QED
  BY <1>1, Invariance, PTL
=============================================================================
