------------------------------ MODULE LockBench ------------------------------
(***************************************************************************)
(* The measuring loop that the programs of lupin_lock_benchmark share      *)
(* (dram_test_*.cpp, cxl_test_*.cpp).  main starts THREADS_NUM pinned      *)
(* threads, opens a barrier, and each thread takes and releases one global *)
(* lock LOCK_NUM times; main joins them.  Each lock module extends this    *)
(* one with the shared words of its lock.                                  *)
(*                                                                         *)
(* A step of a lock module is one access to shared memory together with    *)
(* the local computation up to the next one; a spin loop is a step that is *)
(* enabled once the condition it spins on holds.  The clock, the pinning   *)
(* and the printed latency are left out, and so is global_count, which is  *)
(* added to atomically whether or not the lock excludes.                   *)
(***************************************************************************)
EXTENDS Integers

CONSTANTS THREADS,      \* the thread ids 0 .. THREADS_NUM - 1
          LOCK_NUM,     \* passages of each thread
          MaxFaults     \* bound on crashes and abort signals (recoverable locks)

ASSUME BenchAssumption ==
    /\ THREADS \subseteq Nat
    /\ LOCK_NUM \in Nat \ {0}
    /\ MaxFaults \in Nat

VARIABLES
    pc,             \* where each thread is
    lock_acquired,  \* the passages each thread has counted
    inside,         \* threads given the critical section that have not begun
                    \* to give it back: a thread that crashes inside stays in
    faults          \* the crashes and the abort signals so far

benchVars == <<pc, lock_acquired, inside, faults>>

\* Past the barrier: every thread is about to call the lock function.
BenchInit ==
    /\ pc = [t \in THREADS |-> "lock"]
    /\ lock_acquired = [t \in THREADS |-> 0]
    /\ inside = {}
    /\ faults = [crash |-> 0, abort |-> 0]

\* The thread goes on at label l, still outside the critical section.
Goto(t, l) ==
    /\ pc' = [pc EXCEPT ![t] = l]
    /\ UNCHANGED <<lock_acquired, inside, faults>>

\* The lock function returns: the thread owns the critical section.
Enter(t) ==
    /\ pc' = [pc EXCEPT ![t] = "cs"]
    /\ inside' = inside \union {t}
    /\ UNCHANGED <<lock_acquired, faults>>

\* One turn of the loop inside: count the passage and call unlock.
Passage(t) ==
    /\ pc[t] = "cs"
    /\ pc' = [pc EXCEPT ![t] = "unlock"]
    /\ lock_acquired' = [lock_acquired EXCEPT ![t] = @ + 1]
    /\ inside' = inside \ {t}
    /\ UNCHANGED faults

\* The unlock function returns to "while (lock_acquired < LOCK_NUM)".
Return(t) == Goto(t, IF lock_acquired[t] < LOCK_NUM THEN "lock" ELSE "done")

\* An abort signal: the thread gives its request up at label l.
Signalled(t, l) ==
    /\ faults.crash + faults.abort < MaxFaults
    /\ pc' = [pc EXCEPT ![t] = l]
    /\ faults' = [faults EXCEPT !.abort = @ + 1]
    /\ UNCHANGED <<lock_acquired, inside>>

\* The process of a recoverable lock dies anywhere, and later starts again
\* with the lock call, as Lupin's recovery code does.  A call that died in
\* unlock is made good by one more passage.
Crash(t) ==
    /\ faults.crash + faults.abort < MaxFaults
    /\ pc[t] \notin {"done", "crashed"}
    /\ pc' = [pc EXCEPT ![t] = "crashed"]
    /\ faults' = [faults EXCEPT !.crash = @ + 1]
    /\ lock_acquired' = [lock_acquired EXCEPT ![t] = IF @ = LOCK_NUM THEN @ - 1 ELSE @]
    /\ UNCHANGED inside

Restart(t) ==
    /\ pc[t] = "crashed"
    /\ Goto(t, "lock")

\* Every thread has left its loop: main has joined them all.
Joined == \A t \in DOMAIN pc : pc[t] = "done"

\* At most one thread owns the critical section, and one that crashed inside
\* owns it until it has been through the lock function again and left.
Exclusion == \A t, u \in inside : t = u
==============================================================================
