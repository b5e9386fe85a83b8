------------------------------ MODULE RmcsLock ------------------------------
(***************************************************************************)
(* The recoverable MCS lock of lupin_lock_benchmark/rmcs.hpp.              *)
(*                                                                         *)
(* Nobody runs the cleanup of rmcs.hpp (it is "not implemented"), so       *)
(* clean_in_prog stays false and clean_cnt zero: the branches that depend  *)
(* on them, which all assert(0), cannot be taken.  vol and wants are only  *)
(* for that cleanup.                                                       *)
(***************************************************************************)
EXTENDS LockBench

VARIABLES lock, node, reg

NULL == -1

rmcsVars == <<benchVars, lock, node, reg>>

\* lock.tail; node[t] is the Qnode of thread t.
Init ==
    /\ BenchInit
    /\ lock = NULL
    /\ node = [t \in THREADS |-> [next |-> NULL, locked |-> "WAITING"]]
    /\ reg = [t \in THREADS |-> NULL]

rmcs_lock(t) ==
    \/ /\ pc[t] = "lock"
       /\ node' = [node EXCEPT ![t] = [next |-> NULL, locked |-> "WAITING"]]
       /\ Goto(t, "xchg")
       /\ UNCHANGED <<lock, reg>>
    \/ /\ pc[t] = "xchg"
       /\ lock' = t
       /\ reg' = [reg EXCEPT ![t] = lock]
       /\ Goto(t, IF lock = NULL THEN "own" ELSE "link")
       /\ UNCHANGED node
    \/ /\ pc[t] = "own"
       /\ node' = [node EXCEPT ![t].locked = "OWNED"]
       /\ Enter(t)
       /\ UNCHANGED <<lock, reg>>
    \/ /\ pc[t] = "link"
       /\ node' = [node EXCEPT ![reg[t]].next = t]
       /\ reg' = [reg EXCEPT ![t] = NULL]
       /\ Goto(t, "spin")
       /\ UNCHANGED lock
    \/ /\ pc[t] = "spin"
       /\ node[t].locked = "OWNED"
       /\ Enter(t)
       /\ UNCHANGED <<lock, node, reg>>

rmcs_unlock(t) ==
    \/ /\ pc[t] = "unlock"
       /\ node' = [node EXCEPT ![t].locked = "RELEASED"]
       /\ Goto(t, "next")
       /\ UNCHANGED <<lock, reg>>
    \/ /\ pc[t] = "next"
       /\ Goto(t, IF node[t].next = NULL THEN "last" ELSE "handover")
       /\ UNCHANGED <<lock, node, reg>>
    \/ /\ pc[t] = "last"
       /\ IF lock = t THEN lock' = NULL /\ Return(t)
          ELSE Goto(t, "wait") /\ UNCHANGED lock
       /\ UNCHANGED <<node, reg>>
    \/ /\ pc[t] = "wait"
       /\ node[t].next # NULL
       /\ Goto(t, "handover")
       /\ UNCHANGED <<lock, node, reg>>
    \/ /\ pc[t] = "handover"
       /\ node' = [node EXCEPT ![node[t].next].locked = "OWNED"]
       /\ Return(t)
       /\ UNCHANGED <<lock, reg>>

measure_rmcs(t) == Passage(t) /\ UNCHANGED <<lock, node, reg>>

Step(t) == rmcs_lock(t) \/ rmcs_unlock(t) \/ measure_rmcs(t)

Next == \E t \in THREADS : Step(t)

Spec == Init /\ [][Next]_rmcsVars
=============================================================================
