---------------------------- MODULE MCLockBench ----------------------------
(***************************************************************************)
(* The benchmark programs, one behaviour for each of the locks in ALGOS.   *)
(* All locks share the variables of the measuring loop, so that one        *)
(* statement of exclusion and one of termination speaks of all of them.    *)
(***************************************************************************)
EXTENDS LockBench

CONSTANTS ALGOS,        \* the locks to measure
          QUEUED        \* the threads of the locks other than JJLock

VARIABLES algo, lock, node, reg

locksVars == <<algo, pc, lock_acquired, inside, faults, lock, node, reg>>

NoNodes == {}

JJ == INSTANCE JJLock WITH MaxFaults <- 0, SHIFT <- 1, COUNTER_INF <- 50
JJCrash == INSTANCE JJLock WITH LOCK_NUM <- 1, SHIFT <- 1, COUNTER_INF <- 50
Port == INSTANCE JJPortLock WITH THREADS <- QUEUED, LOCK_NUM <- 1, wsize <- 4
QSpin == INSTANCE QSpinLock WITH THREADS <- QUEUED
Osq == INSTANCE OsqLock WITH THREADS <- QUEUED, LOCK_NUM <- 1, MaxUnqueue <- 2
Rmcs == INSTANCE RmcsLock WITH THREADS <- QUEUED
Ttas == INSTANCE TasLocks WITH THREADS <- QUEUED, recoverable <- FALSE
LpTtas == INSTANCE TasLocks WITH THREADS <- QUEUED, recoverable <- TRUE

LocksInit ==
    /\ algo \in ALGOS
    /\ \/ algo = "jj" /\ JJ!Init
       \/ algo = "jj_crash" /\ JJCrash!Init
       \/ algo = "jj_32port" /\ Port!Init /\ node = NoNodes
       \/ algo = "qspin" /\ QSpin!Init
       \/ algo = "osq" /\ Osq!Init
       \/ algo = "rmcs" /\ Rmcs!Init
       \/ algo = "ttas" /\ Ttas!Init /\ node = NoNodes /\ reg = NoNodes
       \/ algo = "lpttas" /\ LpTtas!Init /\ node = NoNodes /\ reg = NoNodes

LocksNext ==
    /\ UNCHANGED algo
    /\ \/ algo = "jj" /\ JJ!Next
       \/ algo = "jj_crash" /\ JJCrash!Next
       \/ algo = "jj_32port" /\ Port!Next /\ UNCHANGED node
       \/ algo = "qspin" /\ QSpin!Next
       \/ algo = "osq" /\ Osq!Next
       \/ algo = "rmcs" /\ Rmcs!Next
       \/ algo = "ttas" /\ Ttas!Next /\ UNCHANGED <<node, reg>>
       \/ algo = "lpttas" /\ LpTtas!Next /\ UNCHANGED <<node, reg>>

\* Every running thread takes steps, and a crashed one is started again.
StepOf(t) ==
    /\ t \in DOMAIN pc
    /\ UNCHANGED algo
    /\ \/ algo = "jj" /\ JJ!Step(t)
       \/ algo = "jj_crash" /\ (JJCrash!Step(t) \/ JJCrash!Restarts(t))
       \/ algo = "jj_32port" /\ (Port!Step(t) \/ Port!Restarts(t)) /\ UNCHANGED node
       \/ algo = "qspin" /\ QSpin!Step(t)
       \/ algo = "osq" /\ Osq!Step(t)
       \/ algo = "rmcs" /\ Rmcs!Step(t)
       \/ algo = "ttas" /\ Ttas!Step(t) /\ UNCHANGED <<node, reg>>
       \/ algo = "lpttas" /\ (LpTtas!Step(t) \/ LpTtas!Restarts(t)) /\ UNCHANGED <<node, reg>>

LocksFair == \A t \in THREADS \union QUEUED : WF_locksVars(StepOf(t))

LocksSpec == LocksInit /\ [][LocksNext]_locksVars /\ LocksFair

\* The lock word of JJLock names a thread that has left its loop for good.
OwnerGone == algo \in {"jj", "jj_crash"} /\ lock.cs.b /\ pc[lock.cs.s] = "done"

\* If every running thread takes steps (LocksFair), every thread gets through its
\* LOCK_NUM passages and main joins it: no lock
\* loses a hand-over, a wake-up or a request, in spite of unqueueing waiters
\* (osq_lock.h), abort signals and crashed threads that come back
\* (jj_abortable_spin.h, jj_ab_wport_spin.h, tatas_spin.h).  The exception is
\* a JJLock promoted to a thread that does not call it again.
PassagesEnd == LocksFair => <>(Joined \/ OwnerGone)

\* dram_test_jj.cpp prints "test finished" after joining threads that each
\* take the lock LOCK_NUM times.
TestFinishes == <>Joined

\* No request of JJLock gets lost in its min array.
JJRequestVisible ==
    /\ algo = "jj" => JJ!RequestVisible
    /\ algo = "jj_crash" => JJCrash!RequestVisible
=============================================================================
