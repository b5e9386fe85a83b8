------------------------------ MODULE TasLocks ------------------------------
(***************************************************************************)
(* The two test-and-test-and-set locks of the benchmark.  ttas.h swaps a   *)
(* byte (an unlocked byte is 1, and the swap leaves 0xff); the recoverable *)
(* one of tatas_align swaps in its owner's id, so that a process that died *)
(* inside recognises its own lock when it calls ttas_lock again.           *)
(***************************************************************************)
EXTENDS LockBench

CONSTANT recoverable    \* which of the two

VARIABLE lock

SwappedIn == 255    \* 0xff
UNLOCKED == 1

tasVars == <<benchVars, lock>>

\* The word of the recoverable lock: taken by p, or 0.
compose_cs_status(p) == [b |-> TRUE, s |-> p]
NoOwner == [b |-> FALSE, s |-> 0]

IsFree == lock = IF recoverable THEN NoOwner ELSE UNLOCKED

Init ==
    /\ BenchInit
    /\ lock = IF recoverable THEN NoOwner ELSE UNLOCKED

l_tas_uint8 == lock' = SwappedIn

\* ttas.h: spin until unlocked, swap, start again if the swap came too late.
ttas_mutex_lock(t) ==
    /\ ~recoverable
    /\ \/ /\ pc[t] = "lock"
          /\ IsFree
          /\ Goto(t, "tas")
          /\ UNCHANGED lock
       \/ /\ pc[t] = "tas"
          /\ l_tas_uint8
          /\ IF IsFree THEN Enter(t) ELSE Goto(t, "lock")

ttas_mutex_unlock(t) ==
    /\ ~recoverable
    /\ pc[t] = "unlock"
    /\ lock' = UNLOCKED
    /\ Return(t)

\* tatas_spinlock.h: ttas_recover, then ttas_enter.
ttas_recover(t) ==
    /\ recoverable
    /\ pc[t] = "lock"
    /\ IF lock = compose_cs_status(t) THEN Enter(t) ELSE Goto(t, "spin")
    /\ UNCHANGED lock

ttas_enter(t) ==
    /\ recoverable
    /\ \/ /\ pc[t] = "spin"
          /\ IsFree
          /\ Goto(t, "cas")
          /\ UNCHANGED lock
       \/ /\ pc[t] = "cas"
          /\ IF IsFree THEN lock' = compose_cs_status(t) /\ Enter(t)
             ELSE Goto(t, "spin") /\ UNCHANGED lock

ttas_exit(t) ==
    /\ recoverable
    /\ pc[t] = "unlock"
    /\ lock' = NoOwner
    /\ Return(t)

measure_ttas(t) == ~recoverable /\ Passage(t) /\ UNCHANGED lock
measure_lpttas(t) == recoverable /\ Passage(t) /\ UNCHANGED lock

Crashes(t) == recoverable /\ Crash(t) /\ UNCHANGED lock
Restarts(t) == Restart(t) /\ UNCHANGED lock

Step(t) ==
    \/ ttas_mutex_lock(t)
    \/ ttas_mutex_unlock(t)
    \/ ttas_recover(t)
    \/ ttas_enter(t)
    \/ ttas_exit(t)
    \/ measure_ttas(t)
    \/ measure_lpttas(t)

Next == \E t \in THREADS : Step(t) \/ Crashes(t) \/ Restarts(t)

Spec == Init /\ [][Next]_tasVars
=============================================================================
