---------------------------- MODULE MCFutexWake ----------------------------
(* FutexWake for TLC: wakers on other machines, and a CPU of the sleepers'  *)
(* machine that takes the interrupts and wakes locally in between.          *)
EXTENDS FutexWake, TLC

Everyone == Remote \cup Local \cup Handlers

\* The process ids in the lock.  do_vcxl_wake and vcxl_futex_wake both give the
\* machine that is to wake, so that the ids of two callers differ if and only if
\* the numbers of their CPUs do.  Here an id is named after a CPU.
DifferentCpus == [c \in Callers |-> c]

SameCpu == [c \in Callers |-> IF c \in Remote THEN CHOOSE s \in Remote : TRUE ELSE c]

AllKinds == [c \in Callers |-> "ALL"]

\* Wakers, threads and offsets are interchangeable; only safety is checked.
Symmetry == Permutations(Remote) \cup Permutations(Threads) \cup Permutations(Entries)
=============================================================================
