----------------------------- MODULE QSpinLock -----------------------------
(***************************************************************************)
(* The queued spinlock of lupin_lock_benchmark/linux/queued_spinlock.h     *)
(* (the 8-bit pending layout, which CONFIG_NR_CPUS selects).  lock is the  *)
(* 32-bit word as its three fields, node the pool of MCS nodes, four for   *)
(* each thread.                                                            *)
(***************************************************************************)
EXTENDS LockBench

VARIABLES lock, node, reg

NULL == -1

qspinVars == <<benchVars, lock, node, reg>>

Word(tail, pending, locked) == [tail |-> tail, pending |-> pending, locked |-> locked]
Free == Word(0, 0, 0)
_Q_LOCKED_VAL == Word(0, 0, 1)
_Q_PENDING_VAL == Word(0, 1, 0)

\* The tail as the 16-bit field: cpu + 1 above two bits of nesting index.
encode_tail(cpu, idx) == (cpu + 1) * 4 + idx
decode_tail(tail) == 4 * (tail \div 4 - 1) + (tail % 4)

\* A queued thread has counted itself in the first of its four nodes; the
\* count before that is the index of the node it queues with.
Idx(t) == node[4 * t].count - 1
MyNode(t) == 4 * t + Idx(t)
MyTail(t) == encode_tail(t, Idx(t))

Cleared == [val |-> Free, next |-> NULL, old |-> 0]

\* The pool is zeroed.
mcs_init_locks == [i \in {4 * t + idx : t \in THREADS, idx \in 0 .. 3} |->
                       [next |-> NULL, locked |-> 0, count |-> 0]]

Init ==
    /\ BenchInit
    /\ lock = Free
    /\ node = mcs_init_locks
    /\ reg = [t \in THREADS |-> Cleared]

Reg(t, r) == reg' = [reg EXCEPT ![t] = r]
Forget(t) == Reg(t, Cleared)

\* A compare-and-swap of the whole word.
Cmpxchg(old, new) == lock' = IF lock = old THEN new ELSE lock

\* The head of the trylock loop: contention means queueing.
Look(t, val) ==
    /\ Goto(t, IF val.tail # 0 \/ val.pending # 0 THEN "queue" ELSE "pend")
    /\ Reg(t, [Cleared EXCEPT !.val = val])

lock_acquire(t) ==
    /\ pc[t] = "lock"
    /\ Cmpxchg(Free, _Q_LOCKED_VAL)
    /\ IF lock = Free THEN Enter(t) /\ UNCHANGED reg
       ELSE IF lock = _Q_PENDING_VAL THEN Goto(t, "handover") /\ UNCHANGED reg
       ELSE Look(t, lock)
    /\ UNCHANGED node

\* Slow path, up to the queue: wait for a hand-over in progress, then try to
\* take the lock or the pending bit, wait for the owner, take over.
clear_pending_set_locked(t) ==
    /\ pc[t] = "takeover"
    /\ lock' = [lock EXCEPT !.pending = 0, !.locked = 1]
    /\ Enter(t)
    /\ UNCHANGED <<node, reg>>

pending_path(t) ==
    /\ \/ /\ pc[t] = "handover"
          /\ lock # _Q_PENDING_VAL
          /\ Look(t, lock)
          /\ UNCHANGED lock
       \/ /\ pc[t] = "pend"
          /\ Cmpxchg(reg[t].val, Word(0, IF reg[t].val = _Q_LOCKED_VAL THEN 1 ELSE 0, 1))
          /\ IF lock # reg[t].val THEN Look(t, lock)
             ELSE /\ Forget(t)
                  /\ IF lock = Free THEN Enter(t) ELSE Goto(t, "owner")
       \/ /\ pc[t] = "owner"
          /\ lock.locked = 0
          /\ Goto(t, "takeover")
          /\ UNCHANGED <<lock, reg>>
    /\ UNCHANGED node

\* Slow path, the queue: prepare the node and try once more.
queue_init(t) ==
    /\ pc[t] = "queue"
    /\ LET idx == node[4 * t].count
       IN  node' = [node EXCEPT ![4 * t].count = @ + 1, ![4 * t + idx].locked = 0,
                                ![4 * t + idx].next = NULL]
    /\ Goto(t, "tryread")
    /\ Forget(t)
    /\ UNCHANGED lock

queued_spin_trylock(t) ==
    /\ \/ /\ pc[t] = "tryread"
          /\ Goto(t, IF lock = Free THEN "trylock" ELSE "xchg")
          /\ UNCHANGED lock
       \/ /\ pc[t] = "trylock"
          /\ Cmpxchg(Free, _Q_LOCKED_VAL)
          /\ Goto(t, IF lock = Free THEN "release" ELSE "xchg")
    /\ UNCHANGED <<node, reg>>

xchg_tail(t) ==
    /\ pc[t] = "xchg"
    /\ lock' = [lock EXCEPT !.tail = MyTail(t)]
    /\ Reg(t, [Cleared EXCEPT !.old = lock.tail])
    /\ Goto(t, IF lock.tail # 0 THEN "link" ELSE "head")
    /\ UNCHANGED node

\* Link behind the previous node, spin on one's own, look for a successor.
mcs_wait(t) ==
    /\ \/ /\ pc[t] = "link"
          /\ node' = [node EXCEPT ![decode_tail(reg[t].old)].next = MyNode(t)]
          /\ Goto(t, "mcs")
          /\ Forget(t)
       \/ /\ pc[t] = "mcs"
          /\ node[MyNode(t)].locked = 1
          /\ Goto(t, "peek")
          /\ UNCHANGED <<node, reg>>
       \/ /\ pc[t] = "peek"
          /\ Reg(t, [Cleared EXCEPT !.next = node[MyNode(t)].next])
          /\ Goto(t, "head")
          /\ UNCHANGED node
    /\ UNCHANGED lock

\* At the head: wait until the word is free of owner and pending, then claim
\* it, clearing the tail if this node is still the last.
Claim(t, val) ==
    /\ Goto(t, IF val.tail # MyTail(t) THEN "setlocked" ELSE "claim")
    /\ Reg(t, [reg[t] EXCEPT !.val = val])

\* Mutant: the head waits for the owner only.
claim_lockIgnoringPending(t) ==
    /\ \/ /\ pc[t] = "head"
          /\ lock.locked = 0
          /\ Claim(t, lock)
          /\ UNCHANGED lock
       \/ /\ pc[t] = "claim"
          /\ Cmpxchg(reg[t].val, _Q_LOCKED_VAL)
          /\ IF lock = reg[t].val THEN Goto(t, "release") /\ Forget(t) ELSE Claim(t, lock)
    /\ UNCHANGED node

claim_lock(t) ==
    /\ \/ /\ pc[t] = "head"
          /\ lock.locked = 0 /\ lock.pending = 0
          /\ Claim(t, lock)
          /\ UNCHANGED lock
       \/ /\ pc[t] = "claim"
          /\ Cmpxchg(reg[t].val, _Q_LOCKED_VAL)
          /\ IF lock = reg[t].val THEN Goto(t, "release") /\ Forget(t) ELSE Claim(t, lock)
    /\ UNCHANGED node

set_locked(t) ==
    /\ pc[t] = "setlocked"
    /\ lock' = [lock EXCEPT !.locked = 1]
    /\ Goto(t, IF reg[t].next = NULL THEN "next" ELSE "pass")
    /\ Reg(t, [Cleared EXCEPT !.next = reg[t].next])
    /\ UNCHANGED node

pass_head(t) ==
    /\ \/ /\ pc[t] = "next"
          /\ node[MyNode(t)].next # NULL
          /\ Reg(t, [Cleared EXCEPT !.next = node[MyNode(t)].next])
          /\ Goto(t, "pass")
          /\ UNCHANGED node
       \/ /\ pc[t] = "pass"
          /\ node' = [node EXCEPT ![reg[t].next].locked = 1]
          /\ Goto(t, "release")
          /\ Forget(t)
    /\ UNCHANGED lock

release_node(t) ==
    /\ pc[t] = "release"
    /\ node' = [node EXCEPT ![4 * t].count = @ - 1]
    /\ Enter(t)
    /\ UNCHANGED <<lock, reg>>

lock_release(t) ==
    /\ pc[t] = "unlock"
    /\ lock' = [lock EXCEPT !.locked = 0]
    /\ Return(t)
    /\ UNCHANGED <<node, reg>>

measure_qspin(t) == Passage(t) /\ UNCHANGED <<lock, node, reg>>

Step(t) ==
    \/ lock_acquire(t)
    \/ pending_path(t)
    \/ clear_pending_set_locked(t)
    \/ queue_init(t)
    \/ queued_spin_trylock(t)
    \/ xchg_tail(t)
    \/ mcs_wait(t)
    \/ claim_lock(t)
    \/ set_locked(t)
    \/ pass_head(t)
    \/ release_node(t)
    \/ lock_release(t)
    \/ measure_qspin(t)

Next == \E t \in THREADS : Step(t)

Spec == Init /\ [][Next]_qspinVars
=============================================================================
