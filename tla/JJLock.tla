------------------------------- MODULE JJLock -------------------------------
(***************************************************************************)
(* The Jayanti-Joshi recoverable abortable lock (jj_abortable_spin.h) over  *)
(* its min array (min_array.h): requests are leaves (token, process) of a  *)
(* binary tree whose inner nodes hold the minimum of their children, and   *)
(* whoever finds cs_status free promotes the process at the root.          *)
(*                                                                         *)
(* lock is the lock word and the two counters, node the array of the tree  *)
(* (index 1 is the root), reg the registers of each thread.  The build is  *)
(* the one without ORIG_JJ_LOCK and with BYTE_GRANULAR memory, in which    *)
(* pcas_read and persist_cas are a load and a compare-and-swap.            *)
(***************************************************************************)
EXTENDS LockBench

CONSTANTS SHIFT,        \* JJ_AB_MAX_PROC_SHIFT: the tree has 2^SHIFT leaves
          COUNTER_INF   \* above every token handed out

VARIABLES lock, node, reg

jjVars == <<benchVars, lock, node, reg>>

MAX_NUM_PROCESSES == 2 ^ SHIFT
NUM_ARR_NODES == 2 ^ (SHIFT + 1) - 1

cs_status(b, s) == [b |-> b, s |-> s]
Mine(t) == lock.cs = cs_status(TRUE, t)

\* A leaf: the token in the high bits, the process in the low ones, so that
\* the order of the numbers is the order of the requests.
compose_process_state(token, p) == token * MAX_NUM_PROCESSES + p
default_process_state(p) == compose_process_state(COUNTER_INF, p)
get_counter(m) == m \div MAX_NUM_PROCESSES
get_process_id(m) == m % MAX_NUM_PROCESSES

get_leaf_tree_pos(p) == p + NUM_ARR_NODES - MAX_NUM_PROCESSES + 1
tree_left_child(i) == 2 * i
tree_right_child(i) == 2 * i + 1
tree_parent(i) == i \div 2
tree_pos_is_root(i) == i = 1
MIN(a, b) == IF a < b THEN a ELSE b

\* What one thread alone makes of the tree tr when it updates leaf p.
Updated(tr, p, v) ==
    LET up[i \in 1 .. NUM_ARR_NODES] ==
            IF i = get_leaf_tree_pos(p) THEN v
            ELSE IF i < MAX_NUM_PROCESSES
                    /\ \E d \in 1 .. SHIFT : get_leaf_tree_pos(p) \div 2 ^ d = i
                 THEN MIN(up[tree_left_child(i)], up[tree_right_child(i)])
                 ELSE tr[i]
    IN up

\* The tree after the updates of processes 0 .. p - 1 on memory holding g.
init_min_array(g) ==
    LET tr[p \in 0 .. MAX_NUM_PROCESSES] ==
            IF p = 0 THEN g ELSE Updated(tr[p - 1], p - 1, default_process_state(p - 1))
    IN tr[MAX_NUM_PROCESSES]

\* The registers of a thread: what the update in hand is for, the token read,
\* the node being refreshed with its round and the values read there, the word
\* or sequence number read, and the process to promote.  At the end of a
\* function they are cleared; climb and hold begin one.
Cleared == [op |-> "enter", tok |-> 0, i |-> 0, round |-> 0, cur |-> 0, left |-> 0,
            right |-> 0, s |-> 0, peer |-> 0]
climb(op, i, round) == [op |-> op, tok |-> 0, i |-> i, round |-> round, cur |-> 0, left |-> 0,
                        right |-> 0, s |-> 0, peer |-> 0]
hold(op, s) == [op |-> op, tok |-> 0, i |-> 0, round |-> 0, cur |-> 0, left |-> 0,
                right |-> 0, s |-> s, peer |-> 0]

jj_spinlock_init == [cs |-> cs_status(FALSE, 1), token |-> 1, seq |-> 1]

\* main: the lock comes zeroed from memset in the DRAM program and holds
\* whatever the CXL allocator returns in the other one.
Init ==
    /\ BenchInit
    /\ lock = jj_spinlock_init
    /\ \E g \in {0, 1} : node = init_min_array([i \in 1 .. NUM_ARR_NODES |-> g])
    /\ reg = [t \in THREADS |-> Cleared]

Reg(t, r) == reg' = [reg EXCEPT ![t] = r]

\* lock(): jj_spinlock_recover, then jj_spinlock_enter.
jj_spinlock_recover(t) ==
    /\ pc[t] = "lock"
    /\ IF Mine(t)
         THEN Goto(t, "leaf") /\ Reg(t, [Cleared EXCEPT !.op = "abort"])
         ELSE Goto(t, "try") /\ UNCHANGED reg
    /\ UNCHANGED <<lock, node>>

jj_spinlock_tryenter(t) ==
    /\ \/ /\ pc[t] = "try"                          \* already promoted?
          /\ Goto(t, IF Mine(t) THEN "check" ELSE "token")
          /\ UNCHANGED <<lock, reg>>
       \/ /\ pc[t] = "token"
          /\ Goto(t, "taketoken")
          /\ Reg(t, [Cleared EXCEPT !.tok = lock.token])
          /\ UNCHANGED lock
       \/ /\ pc[t] = "taketoken"                    \* its failure is ignored
          /\ lock' = [lock EXCEPT !.token = IF @ = reg[t].tok THEN @ + 1 ELSE @]
          /\ Goto(t, "leaf")
          /\ UNCHANGED reg
       \/ /\ pc[t] = "registered"
          /\ Goto(t, IF Mine(t) THEN "check" ELSE "spin")
          /\ UNCHANGED <<lock, reg>>
    /\ UNCHANGED node

\* The spin, which an abort signal may end, and the second look that decides
\* between taking the critical section and giving the request up.
jj_spinlock_enter(t) ==
    /\ \/ /\ pc[t] = "spin"
          /\ (Mine(t) /\ Goto(t, "check")) \/ Signalled(t, "check")
          /\ UNCHANGED reg
       \/ /\ pc[t] = "check"
          /\ IF Mine(t) THEN Enter(t) /\ UNCHANGED reg
             ELSE Goto(t, "leaf") /\ Reg(t, [Cleared EXCEPT !.op = "giveup"])
       \/ /\ pc[t] = "aborted"             \* promoted all the same?
          /\ IF Mine(t) THEN Enter(t) ELSE Goto(t, "lock")
          /\ UNCHANGED reg
    /\ UNCHANGED <<lock, node>>

\* Mutant: each ancestor is refreshed once.
set_leafRefreshedOnce(t) ==
    /\ pc[t] \in {"leaf", "unlock"}
    /\ node' = [node EXCEPT ![get_leaf_tree_pos(t)] =
                    IF pc[t] = "leaf" /\ reg[t].op = "enter"
                    THEN compose_process_state(reg[t].tok, t)
                    ELSE default_process_state(t)]
    /\ Reg(t, climb(IF pc[t] = "unlock" THEN "exit" ELSE reg[t].op,
                    tree_parent(get_leaf_tree_pos(t)), 2))
    /\ Goto(t, "refresh")
    /\ UNCHANGED lock

\* min_arr_update: the leaf first ...
set_leaf(t) ==
    /\ pc[t] \in {"leaf", "unlock"}
    /\ node' = [node EXCEPT ![get_leaf_tree_pos(t)] =
                    IF pc[t] = "leaf" /\ reg[t].op = "enter"
                    THEN compose_process_state(reg[t].tok, t)
                    ELSE default_process_state(t)]
    /\ Reg(t, climb(IF pc[t] = "unlock" THEN "exit" ELSE reg[t].op,
                    tree_parent(get_leaf_tree_pos(t)), 1))
    /\ Goto(t, "refresh")
    /\ UNCHANGED lock

\* ... then every ancestor, refreshed twice: read it and both children, and
\* replace it by the smaller child if it has not changed.
refresh(t) ==
    /\ \/ /\ pc[t] = "refresh"
          /\ Reg(t, [reg[t] EXCEPT !.cur = node[reg[t].i]])
          /\ Goto(t, "left")
          /\ UNCHANGED node
       \/ /\ pc[t] = "left"
          /\ Reg(t, [reg[t] EXCEPT !.left = node[tree_left_child(reg[t].i)]])
          /\ Goto(t, "right")
          /\ UNCHANGED node
       \/ /\ pc[t] = "right"
          /\ Reg(t, [reg[t] EXCEPT !.right = node[tree_right_child(reg[t].i)]])
          /\ Goto(t, "refreshed")
          /\ UNCHANGED node
       \/ /\ pc[t] = "refreshed"
          /\ node' = [node EXCEPT ![reg[t].i] = IF @ = reg[t].cur
                                                THEN MIN(reg[t].left, reg[t].right) ELSE @]
          /\ IF reg[t].round = 1
               THEN Reg(t, climb(reg[t].op, reg[t].i, 2))
               ELSE Reg(t, climb(reg[t].op, tree_parent(reg[t].i), 1))
          /\ Goto(t, IF reg[t].round = 2 /\ tree_pos_is_root(reg[t].i)
                     THEN IF reg[t].op = "exit" THEN "seq" ELSE "promote"
                     ELSE "refresh")
    /\ UNCHANGED lock

\* Where a promotion returns to: recover ignores the result of its abort.
Promoted(t) ==
    /\ CASE reg[t].op = "enter" -> Goto(t, "registered")
         [] reg[t].op = "abort" -> Goto(t, "try")
         [] reg[t].op = "giveup" -> Goto(t, "aborted")
         [] reg[t].op = "exit"  -> Return(t)
    /\ Reg(t, Cleared)

\* promote: if the critical section is free, give it to the process at the
\* root; in an abort (flag) without requests take it for oneself.
jj_spinlock_promote(t) ==
    /\ \/ /\ pc[t] = "promote"
          /\ IF lock.cs.b THEN Promoted(t)
             ELSE Goto(t, "min") /\ Reg(t, hold(reg[t].op, lock.cs.s))
          /\ UNCHANGED lock
       \/ /\ pc[t] = "min"
          /\ IF get_counter(node[1]) = COUNTER_INF /\ reg[t].op \notin {"abort", "giveup"} THEN Promoted(t)
             ELSE /\ Goto(t, "promoting")
                  /\ Reg(t, [reg[t] EXCEPT !.peer = IF get_counter(node[1]) = COUNTER_INF THEN t
                                                    ELSE get_process_id(node[1])])
          /\ UNCHANGED lock
       \/ /\ pc[t] = "promoting"
          /\ lock' = [lock EXCEPT !.cs = IF @ = cs_status(FALSE, reg[t].s)
                                         THEN cs_status(TRUE, reg[t].peer) ELSE @]
          /\ Promoted(t)
    /\ UNCHANGED node

\* exit: the leaf is withdrawn by set_leaf and refresh; then a new sequence
\* number, then the word, then a promotion.
jj_spinlock_exit(t) ==
    /\ \/ /\ pc[t] = "seq"
          /\ Reg(t, hold("exit", lock.seq))
          /\ Goto(t, "seqwrite")
          /\ UNCHANGED lock
       \/ /\ pc[t] = "seqwrite"
          /\ lock' = [lock EXCEPT !.seq = reg[t].s + 1]
          /\ Goto(t, "free")
          /\ UNCHANGED reg
       \/ /\ pc[t] = "free"
          /\ lock' = [lock EXCEPT !.cs = cs_status(FALSE, reg[t].s + 1)]
          /\ Reg(t, [Cleared EXCEPT !.op = "exit"])
          /\ Goto(t, "promote")
    /\ UNCHANGED node

measure_jj(t) == Passage(t) /\ UNCHANGED <<lock, node, reg>>

Crashes(t) == Crash(t) /\ Reg(t, Cleared) /\ UNCHANGED <<lock, node>>
Restarts(t) == Restart(t) /\ UNCHANGED <<lock, node, reg>>

Step(t) ==
    \/ jj_spinlock_recover(t)
    \/ jj_spinlock_tryenter(t)
    \/ jj_spinlock_enter(t)
    \/ set_leaf(t)
    \/ refresh(t)
    \/ jj_spinlock_promote(t)
    \/ jj_spinlock_exit(t)
    \/ measure_jj(t)

Next == \E t \in THREADS : Step(t) \/ Crashes(t) \/ Restarts(t)

Spec == Init /\ [][Next]_jjVars

\* No request gets lost in the min array: once nobody is between a store to
\* a leaf and the end of its update, the root holds a request if a leaf does,
\* whatever refreshes overlapped, and also when a process died half way
\* (min_array.h refreshes each ancestor twice for this).  The root need not be
\* the minimum: a refresh may write back a request that was withdrawn.
Updating(t) ==
    \/ pc[t] \in {"refresh", "left", "right", "refreshed"}
    \/ faults.crash > 0 /\ pc[t] \in {"crashed", "lock", "try", "token", "taketoken", "leaf"}
IsRequest(m) == get_counter(m) # COUNTER_INF
RequestVisible ==
    /\ \A t \in THREADS : ~Updating(t)
    /\ \E t \in THREADS : IsRequest(node[get_leaf_tree_pos(t)])
    => IsRequest(node[1])
=============================================================================
