------------------------------ MODULE OsqLock ------------------------------
(***************************************************************************)
(* The optimistic spin queue of lupin_lock_benchmark/linux/osq_lock.h: an  *)
(* MCS queue that a spinning thread may leave.  lock.tail is the encoded   *)
(* last CPU, node[t] the queue node of CPU t.  After unqueue_retry spins a *)
(* waiter leaves the queue, sleeps and queues again; how long it has spun  *)
(* is not counted, so it may leave at any time, MaxUnqueue times in all.   *)
(***************************************************************************)
EXTENDS LockBench

CONSTANT MaxUnqueue

VARIABLES lock, node, reg

NULL == -1
OSQ_UNLOCKED_VAL == 0

osqVars == <<benchVars, lock, node, reg>>

encode_cpu(t) == t + 1
cpu_to_node(cpu) == cpu - 1

\* why: what osq_wait_next was called for.
Cleared == [why |-> "none", prev |-> NULL, next |-> NULL, old |-> 0]

\* The pool is zeroed.
osq_lock_init == [t \in THREADS |-> [next |-> NULL, prev |-> NULL, locked |-> 0, cpu |-> 0]]

Init ==
    /\ BenchInit
    /\ lock = [tail |-> OSQ_UNLOCKED_VAL, unqueued |-> 0]
    /\ node = osq_lock_init
    /\ reg = [t \in THREADS |-> Cleared]

Reg(t, r) == reg' = [reg EXCEPT ![t] = r]

\* lock_acquire: osq_lock has given up; sleep and call it again.
lock_acquire(t) == Goto(t, "lock")

\* osq_lock up to the spin: initialise the node, swap the tail, link.
enqueue(t) ==
    \/ /\ pc[t] = "lock"
       /\ node' = [node EXCEPT ![t].locked = 0, ![t].next = NULL, ![t].cpu = encode_cpu(t)]
       /\ Goto(t, "xchg")
       /\ UNCHANGED <<lock, reg>>
    \/ /\ pc[t] = "xchg"
       /\ lock' = [lock EXCEPT !.tail = encode_cpu(t)]
       /\ IF lock.tail = OSQ_UNLOCKED_VAL THEN Enter(t) /\ UNCHANGED reg
          ELSE Goto(t, "prev") /\ Reg(t, [Cleared EXCEPT !.prev = cpu_to_node(lock.tail)])
       /\ UNCHANGED node
    \/ /\ pc[t] = "prev"
       /\ node' = [node EXCEPT ![t].prev = reg[t].prev]
       /\ Goto(t, "link")
       /\ UNCHANGED <<lock, reg>>
    \/ /\ pc[t] = "link"
       /\ node' = [node EXCEPT ![reg[t].prev].next = t]
       /\ Goto(t, "spin")
       /\ UNCHANGED <<lock, reg>>

spin(t) ==
    /\ pc[t] = "spin"
    /\ \/ /\ node[t].locked = 1
          /\ Enter(t)
          /\ Reg(t, Cleared)
          /\ UNCHANGED lock
       \/ /\ node[t].locked = 0
          /\ lock.unqueued < MaxUnqueue
          /\ lock' = [lock EXCEPT !.unqueued = @ + 1]
          /\ Goto(t, "stepA")
          /\ UNCHANGED reg
    /\ UNCHANGED node

\* Step A: undo prev->next; on failure either the lock has been handed over
\* or a leaving neighbour is about to write a new prev.
unqueue_A(t) ==
    /\ \/ /\ pc[t] = "stepA"
          /\ IF node[reg[t].prev].next = t
               THEN /\ node' = [node EXCEPT ![reg[t].prev].next = NULL]
                    /\ Goto(t, "old")
                    /\ Reg(t, [reg[t] EXCEPT !.why = "unqueue"])
               ELSE Goto(t, "handed") /\ UNCHANGED <<node, reg>>
       \/ /\ pc[t] = "handed"
          /\ IF node[t].locked = 1 THEN Enter(t) /\ Reg(t, Cleared)
             ELSE Goto(t, "reprev") /\ UNCHANGED reg
          /\ UNCHANGED node
       \/ /\ pc[t] = "reprev"
          /\ Reg(t, [reg[t] EXCEPT !.prev = node[t].prev])
          /\ Goto(t, "stepA")
          /\ UNCHANGED node
    /\ UNCHANGED lock

\* Mutant: the next pointer is read and left in.
osq_wait_nextLeftIn(t) ==
    LET done == IF reg[t].why = "unlock" THEN Return(t) ELSE lock_acquire(t)
    IN  \/ /\ pc[t] = "old"
           /\ Reg(t, [reg[t] EXCEPT !.old = IF reg[t].prev = NULL THEN OSQ_UNLOCKED_VAL
                                            ELSE node[reg[t].prev].cpu])
           /\ Goto(t, "last")
           /\ UNCHANGED <<lock, node>>
        \/ /\ pc[t] = "last"
           /\ IF lock.tail = encode_cpu(t)
                THEN /\ lock' = [lock EXCEPT !.tail = reg[t].old]
                     /\ done
                     /\ Reg(t, Cleared)
                ELSE Goto(t, "takenext") /\ UNCHANGED <<lock, reg>>
           /\ UNCHANGED node
        \/ /\ pc[t] = "takenext"
           /\ Reg(t, [reg[t] EXCEPT !.next = node[t].next])
           /\ Goto(t, IF node[t].next = NULL THEN "last"
                      ELSE IF reg[t].why = "unlock" THEN "handover" ELSE "nextprev")
           /\ UNCHANGED <<lock, node>>

\* osq_wait_next, step B of an unqueue and the slow end of an unlock: move
\* the tail back to prev if this node is last, or take the next node away.
osq_wait_next(t) ==
    LET done == IF reg[t].why = "unlock" THEN Return(t) ELSE lock_acquire(t)
    IN  \/ /\ pc[t] = "old"
           /\ Reg(t, [reg[t] EXCEPT !.old = IF reg[t].prev = NULL THEN OSQ_UNLOCKED_VAL
                                            ELSE node[reg[t].prev].cpu])
           /\ Goto(t, "last")
           /\ UNCHANGED <<lock, node>>
        \/ /\ pc[t] = "last"
           /\ IF lock.tail = encode_cpu(t)
                THEN /\ lock' = [lock EXCEPT !.tail = reg[t].old]
                     /\ done
                     /\ Reg(t, Cleared)
                ELSE Goto(t, "takenext") /\ UNCHANGED <<lock, reg>>
           /\ UNCHANGED node
        \/ /\ pc[t] = "takenext"
           /\ node' = [node EXCEPT ![t].next = NULL]
           /\ Reg(t, [reg[t] EXCEPT !.next = node[t].next])
           /\ Goto(t, IF node[t].next = NULL THEN "last"
                      ELSE IF reg[t].why = "unlock" THEN "handover" ELSE "nextprev")
           /\ UNCHANGED lock

\* Step C: join the neighbours.
unqueue_C(t) ==
    /\ \/ /\ pc[t] = "nextprev"
          /\ node' = [node EXCEPT ![reg[t].next].prev = reg[t].prev]
          /\ Goto(t, "prevnext")
          /\ UNCHANGED reg
       \/ /\ pc[t] = "prevnext"
          /\ node' = [node EXCEPT ![reg[t].prev].next = reg[t].next]
          /\ lock_acquire(t)
          /\ Reg(t, Cleared)
    /\ UNCHANGED lock

osq_unlock(t) ==
    \/ /\ pc[t] = "unlock"
       /\ IF lock.tail = encode_cpu(t)
            THEN lock' = [lock EXCEPT !.tail = OSQ_UNLOCKED_VAL] /\ Return(t)
            ELSE Goto(t, "unlocknext") /\ UNCHANGED lock
       /\ UNCHANGED <<node, reg>>
    \/ /\ pc[t] = "unlocknext"
       /\ node' = [node EXCEPT ![t].next = NULL]
       /\ Reg(t, [Cleared EXCEPT !.next = node[t].next, !.why = "unlock"])
       /\ Goto(t, IF node[t].next = NULL THEN "old" ELSE "handover")
       /\ UNCHANGED lock
    \/ /\ pc[t] = "handover"
       /\ node' = [node EXCEPT ![reg[t].next].locked = 1]
       /\ Return(t)
       /\ Reg(t, Cleared)
       /\ UNCHANGED lock

measure_osq(t) == Passage(t) /\ UNCHANGED <<lock, node, reg>>

Step(t) ==
    \/ enqueue(t)
    \/ spin(t)
    \/ unqueue_A(t)
    \/ osq_wait_next(t)
    \/ unqueue_C(t)
    \/ osq_unlock(t)
    \/ measure_osq(t)

Next == \E t \in THREADS : Step(t)

Spec == Init /\ [][Next]_osqVars
=============================================================================
