------------------------------ MODULE MCProcess ------------------------------
(* Instances of Process for TLC. *)
EXTENDS Process

\* Arguments of wait4: any child, the pid of the first child, and a pid that
\* nobody has.
ForkWaits == {-1, 2, MaxPid + 1}

\* Any child, and the pid of the first child.
FewWaits == {-1, 2}

\* In instances with threads: any child, and a pid that two threads can have one
\* after the other.
ThreadWaits == {-1, THREAD_BASE + 2}
=============================================================================
